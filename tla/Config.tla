------------------------------- MODULE Config -------------------------------
(***************************************************************************)
(* What configuration files and tables mean (config.py).  fleche.toml files   *)
(* are looked for from a directory upwards and merged, paths in them are      *)
(* anchored at their directories, and the table of a name is built into a     *)
(* cache.  NamedCaches has what a program does with them.                     *)
(*                                                                           *)
(* A TOML value is a tuple that begins with its kind: <<"text", s>>,          *)
(* <<"flag", b>>, <<"number", n>>, <<"keys", ks>>, <<"list", values>>,        *)
(* <<"table", f>> with f a function from keys to values,                      *)
(* <<"path", from, to>> and <<"sqlite", from, to>>, where from is "here" for  *)
(* a relative path or the directory the path starts in, and to the rest of    *)
(* it, and <<"url", s>> for any other database.                               *)
(***************************************************************************)
EXTENDS NamedCaches

CONSTANTS
    Dirs,       \* directories; files is a function from Dirs \cup {Xdg}
    Up,         \* Up[d]: the parent of d; the root of the file system is its own
    Home,
    Xdg,        \* $XDG_CONFIG_HOME/fleche/cache.toml
    NoFile, Broken

-----------------------------------------------------------------------------
(* Which files count, and for what.                                         *)

IsTable(v) == v[1] = "table"
Has(v, key) == IsTable(v) /\ key \in DOMAIN v[2]
Get(v, key) == v[2][key]

\* _rebase_relative_path and _rebase_url.
Anchored(v, base) == IF v[1] \in {"path", "sqlite"} /\ v[2] = "here" THEN [v EXCEPT ![2] = base] ELSE v

RECURSIVE Rebased(_, _)
Rebased(v, base) ==
    CASE v[1] = "list"  -> [v EXCEPT ![2] = [i \in DOMAIN @ |-> Rebased(@[i], base)]]
      [] v[1] = "table" -> [v EXCEPT ![2] = [k \in DOMAIN @ |->
                               IF k \in {"root", "url"} THEN Anchored(@[k], base) ELSE Rebased(@[k], base)]]
      [] OTHER          -> v

Empty == <<"table", [k \in {} |-> Nothing]>>

\* A bug: paths are left relative to wherever the program runs.
ContentsUnanchored(files, d) == IF files[d] = Broken THEN Empty ELSE files[d]

\* _load_config: a file that cannot be parsed is an empty one.
Contents(files, d) == IF files[d] = Broken THEN Empty ELSE Rebased(files[d], d)

RECURSIVE Walk(_)
\* The directories from d upwards that are searched, d first.
Walk(d) == IF d = Home \/ Up[d] = d THEN <<d>> ELSE <<d>> \o Walk(Up[d])

Paths(files, d) == SelectSeq(Append(Walk(d), Xdg), LAMBDA f : files[f] # NoFile)

IsRoot(config) == Has(config, "default") /\ Has(Get(config, "default"), "root")
                  /\ Get(Get(config, "default"), "root") = <<"flag", TRUE>>

RECURSIVE MergeFrom(_, _, _)
MergeFrom(files, paths, merged) ==
    IF paths = <<>> THEN merged
    ELSE LET config == Contents(files, Head(paths))
             more == <<"table", [k \in DOMAIN merged[2] \cup DOMAIN config[2] |->
                         IF k \in DOMAIN merged[2] THEN merged[2][k] ELSE config[2][k]]>>
         IN  IF IsRoot(config) THEN more ELSE MergeFrom(files, Tail(paths), more)

\* _load_merged_config
Merged(files, d) == MergeFrom(files, Paths(files, d), Empty)

-----------------------------------------------------------------------------
(* Tables and caches.                                                       *)

Error == <<"error">>

Pickles == {"pickle", "cloudpickle", "dill"}
Options(type, kind) ==
    (CASE type \in Pickles          -> {"root", "compress", "secret_key"}
       [] type = "bagofholding_hdf" -> {"root", "lock_timeout", "version_validator", "prefix_length"}
       [] type = "sql"              -> {"url", "echo"}
       [] OTHER                     -> {})
    \cup IF kind = "values" /\ type # "void" THEN {"remaining_depth"} ELSE {}

Registered(type, kind) ==
    type \in Pickles \cup {"memory", "void", "bagofholding_hdf"} \/ (type = "sql" /\ kind = "calls")

SettingDefaults == [compress |-> <<"flag", FALSE>>, echo |-> <<"flag", FALSE>>, lock_timeout |-> <<"number", 1>>,
             version_validator |-> <<"none">>, prefix_length |-> <<"number", 2>>,
             remaining_depth |-> <<"number", 1>>, url |-> <<"url", "memory">>]

\* The root of a file storage is made absolute when it is constructed, and so
\* is a database given as a path; the path in a sqlite URL stays as it is.
Absolute(v, dir) ==
    CASE v[1] = "path" -> <<"path", IF v[2] = "here" THEN dir ELSE v[2], v[3]>>
      [] OTHER         -> v
DatabaseUrl(v, dir) ==
    IF v[1] = "path" THEN <<"sqlite", Absolute(v, dir)[2], v[3]>> ELSE v

\* storage_from_config in directory dir, with keys in the environment.
Storage(v, kind, dir, keys) ==
    LET type == Get(v, "type")[2]
        drop == IF type \in Pickles THEN {"type", "lock_timeout"} ELSE {"type"}
        given == DOMAIN v[2] \ drop
        Field(f) ==
            CASE f = "root"       -> Absolute(Get(v, f), dir)
              [] f = "url" /\ f \in given -> DatabaseUrl(Get(v, f), dir)
              [] f = "secret_key" -> IF f \in given /\ Get(v, f)[2] # <<>> THEN Get(v, f) ELSE <<"keys", keys>>
              [] f \notin given   -> SettingDefaults[f]
              [] OTHER            -> Get(v, f)
    IN  IF ~Registered(type, kind) \/ ~(given \subseteq Options(type, kind))
           \/ ("root" \in Options(type, kind) /\ "root" \notin given) THEN Error
        ELSE <<"storage", [f \in Options(type, kind) \cup {"type"} |-> IF f = "type" THEN type ELSE Field(f)]>>

\* _CACHE_TEMPLATES: the storages of a template, Error for wrong arguments.
Below(v, name) == [v EXCEPT ![3] = Append(@, name)]
Expanded(v) ==
    LET name == Get(v, "template")[2]
        given == DOMAIN v[2] \ {"template", "read_only", "max_size"}
        Of(type, f) == <<"table", [k \in {"type"} \cup DOMAIN f |-> IF k = "type" THEN type ELSE f[k]]>>
        At(root) == [root |-> Below(Get(v, "root"), root)]
        plain == [k \in {} |-> Nothing]
        type == <<"text", name>>
        values == IF Has(v, "values") THEN Get(v, "values") ELSE <<"text", "bagofholding_hdf">>
        database == Below(Get(v, "root"), "calls.db")
        url == IF Has(v, "url") THEN Get(v, "url") ELSE <<"sqlite", database[2], database[3]>>
        pair == CASE name = "memory" -> [values |-> Of(type, plain), calls |-> Of(type, plain)]
                  [] name = "sql"    -> [values |-> Of(values, At("values")),
                                         calls |-> Of(<<"text", "sql">>, [url |-> url])]
                  [] OTHER           -> [values |-> Of(type, At("values")), calls |-> Of(type, At("calls"))]
        takes == CASE name = "memory" -> {}
                   [] name = "sql"    -> {"root", "values", "url"}
                   [] OTHER           -> {"root"}
        kept == DOMAIN v[2] \cap {"read_only", "max_size"}
    IN  IF name \notin Pickles \cup {"memory", "sql", "bagofholding_hdf"} \/ ~(given \subseteq takes)
           \/ ("root" \in takes /\ "root" \notin given) THEN Error
        ELSE <<"table", [k \in {"values", "calls"} \cup kept |-> IF k \in kept THEN Get(v, k) ELSE pair[k]]>>

SshDefaults == [cache_name |-> <<"none">>, python |-> <<"text", "python3">>, ssh_options |-> <<"list", <<>>>>,
                setup_commands |-> <<"list", <<>>>>, workdir |-> <<"none">>]

RECURSIVE Built(_, _, _)

\* cache_from_config: which cache it is shows in the shape of the table.
Built(v, dir, keys) ==
    LET Each(vs) == [i \in DOMAIN vs |-> Built(vs[i], dir, keys)]
        Collect(kind, members) == IF Error \in Range(members) THEN Error ELSE <<kind, members>>
        storages == <<Storage(Get(v, "values"), "values", dir, keys),
                      Storage(Get(v, "calls"), "calls", dir, keys)>>
        limited == IF Has(v, "max_size") THEN <<"limited", storages, Get(v, "max_size")>>
                   ELSE <<"cache", storages>>
        readOnly == Has(v, "read_only") /\ Get(v, "read_only") = <<"flag", TRUE>>
    IN  CASE v[1] = "list"     -> IF \E c \in Range(Each(v[2])) : c[1] = "stack" THEN Error
                                  ELSE Collect("stack", Each(v[2]))
          [] Has(v, "pool")     -> Collect("pool", Each(Get(v, "pool")[2]))
          [] Has(v, "template") -> IF Expanded(v) = Error THEN Error ELSE Built(Expanded(v), dir, keys)
          [] Has(v, "type") /\ Get(v, "type") = <<"text", "ssh">> ->
                                   IF ~Has(v, "host") \/ ~(DOMAIN v[2] \subseteq {"type", "host"} \cup DOMAIN SshDefaults) THEN Error
                                   ELSE <<"ssh", Get(v, "host"), [f \in DOMAIN SshDefaults |->
                                            IF Has(v, f) THEN Get(v, f) ELSE SshDefaults[f]]>>
          [] Has(v, "values") /\ Has(v, "calls") ->
                                  IF Error \in Range(storages) THEN Error
                                  ELSE IF readOnly THEN <<"readonly", limited>> ELSE limited
          [] OTHER              -> Error

\* to_config of a storage: all its settings but keys that there are none of.
StorageTable(s) ==
    <<"table", [f \in {g \in DOMAIN s[2] : g = "secret_key" => s[2][g][2] # <<>>} |->
                   IF f = "type" THEN <<"text", s[2][f]>> ELSE s[2][f]]>>

\* A bug: the limit of a cache is forgotten.
CacheTableUnlimited(c) ==
    <<"table", [values |-> StorageTable(c[2][1]), calls |-> StorageTable(c[2][2])]>>

CacheTable(c) ==
    LET pair == [values |-> StorageTable(c[2][1]), calls |-> StorageTable(c[2][2])]
    IN  <<"table", IF c[1] = "limited" THEN [values |-> pair.values, calls |-> pair.calls, max_size |-> c[3]]
                   ELSE pair>>

RECURSIVE ToConfig(_)
ToConfig(c) ==
    LET Each(members) == <<"list", [i \in DOMAIN members |-> ToConfig(members[i])]>>
        inner == CacheTable(c[2])
        said == {f \in DOMAIN SshDefaults : c[3][f] # SshDefaults[f]}
    IN  CASE c[1] = "stack"    -> Each(c[2])
          [] c[1] = "pool"     -> <<"table", [pool |-> Each(c[2])]>>
          [] c[1] = "readonly" -> <<"table", [k \in DOMAIN inner[2] \cup {"read_only"} |->
                                      IF k = "read_only" THEN <<"flag", TRUE>> ELSE inner[2][k]]>>
          [] c[1] = "ssh"      -> <<"table", [k \in {"type", "host"} \cup said |->
                                      CASE k = "type" -> <<"text", "ssh">>
                                        [] k = "host" -> c[2]
                                        [] OTHER      -> c[3][k]]>>
          [] OTHER             -> CacheTable(c)

-----------------------------------------------------------------------------
(* What NamedCaches asks of files and tables.                               *)

Transient(type, dir, keys) ==
    LET table == <<"table", [type |-> <<"text", type>>]>>
    IN  <<"cache", <<Storage(table, "values", dir, keys), Storage(table, "calls", dir, keys)>>>>

\* [default].cache
DefaultCache(config) ==
    IF Has(config, "default") /\ Has(Get(config, "default"), "cache")
    THEN Get(Get(config, "default"), "cache") ELSE Nothing

IsName(v) == v # Nothing /\ v[1] = "text"

NamedDefault(files, dir) == {v[2] : v \in {w \in {DefaultCache(Merged(files, dir))} : IsName(w)}}

\* Error is no cache.
CachesBuilt(v, dir, keys) == {Built(v, dir, keys)} \ {Error}

\* The cache of a name that stands for itself.
Described(n, files, dir, keys) ==
    LET config == Merged(files, dir)
        table == IF n = NoName THEN DefaultCache(config)
                 ELSE IF Has(config, n) THEN Get(config, n) ELSE Nothing
    IN  CASE n \in {"memory", "void"} -> {Transient(n, dir, keys)}
          [] table = Nothing           -> {Transient("memory", dir, keys)}
          [] OTHER                     -> CachesBuilt(table, dir, keys)

-----------------------------------------------------------------------------
\* "a relative path resolves to the same cache location no matter which
\* subdirectory it is read from" (config.py): when the first cache is loaded,
\* directories that no file and no end
\* of the walk lies between see the same configuration, each table of it as the
\* closest file has it that is not beyond a root file, and no path in it relative.
FilesMeanOnePlace == asking # <<>> /\ DOMAIN live = {} =>
    LET config == [d \in Dirs |-> Merged(toml, d)]
        Counts(d, f) == f \in Range(Walk(d)) \cup {Xdg} /\ toml[f] \notin {NoFile, Broken}
        Depth(d, f) == IF f = Xdg THEN Cardinality(Dirs) + 1
                       ELSE CHOOSE i \in DOMAIN Walk(d) : Walk(d)[i] = f
        Closer(d, f) == {g \in Dirs : Counts(d, g) /\ Depth(d, g) < Depth(d, f)}
    IN  /\ \A d, e \in Dirs :
             (e \in Range(Walk(d)) /\ \A f \in Range(Walk(d)) \ Range(Walk(e)) : toml[f] = NoFile)
                 => config[d] = config[e]
        /\ \A d \in Dirs : \A k \in DOMAIN config[d][2] :
             \E f \in Dirs \cup {Xdg} :
                /\ Counts(d, f) /\ Has(toml[f], k)
                /\ \A g \in Closer(d, f) : ~Has(toml[g], k) /\ ~IsRoot(toml[g])
                /\ config[d][2][k] = Rebased(toml[f][2][k], f)
        /\ \A d \in Dirs : config[d] = Rebased(config[d], d)

RECURSIVE StoragesOf(_)
StoragesOf(c) ==
    CASE c[1] \in {"cache", "limited"} -> Range(c[2])
      [] c[1] = "readonly"             -> StoragesOf(c[2])
      [] c[1] \in {"stack", "pool"}    -> UNION {StoragesOf(m) : m \in Range(c[2])}
      [] OTHER                         -> {}

\* What a storage depends on in its environment still: a database by a relative
\* URL, and no keys of its own (README, observations).
Unanchored(s) == "url" \in DOMAIN s[2] /\ s[2].url[1] = "sqlite" /\ s[2].url[2] = "here"
Keyless(s) == "secret_key" \in DOMAIN s[2] /\ s[2].secret_key[2] = <<>>

\* "The output can be round-tripped back" (cache_to_config): the table of a cache
\* that was built in one place, built again in another and under other keys in
\* the environment, gives the same cache, with the same files and keys; put into
\* a file, it still does.
ConfigRoundTrips == \A i \in DOMAIN made :
    /\ (secret = <<>> \/ ~\E s \in StoragesOf(made[i]) : Keyless(s)) =>
           Built(ToConfig(made[i]), cwd, secret) = made[i]
    /\ (~\E s \in StoragesOf(made[i]) : Unanchored(s)) =>
           Rebased(ToConfig(made[i]), cwd) = ToConfig(made[i])

\* A configuration means the same caches wherever it is read, and whether it was
\* written by hand or by cache_to_config.
ConfigIsPortable == FilesMeanOnePlace /\ ConfigRoundTrips
=============================================================================
