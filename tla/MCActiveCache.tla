--------------------------- MODULE MCActiveCache ---------------------------
(* One program: its threads change the active cache and submit calls, or the   *)
(* active metadata and call, or it loads caches by name while files, directory *)
(* and environment change.                                                     *)
EXTENDS ActiveCache, Config, Metadata

T(f) == <<"table", f>>
Text(s) == <<"text", s>>
Path(from, to) == <<"path", from, to>>

MCDirs == {"sub", "proj", "user", "top", "srv", "work"}
MCUp == [sub |-> "proj", proj |-> "user", user |-> "top", top |-> "top", srv |-> "top", work |-> "user"]

Pickle(root) == T([template |-> Text("pickle"), root |-> Path("here", <<root>>)])
Keyed == T([type |-> Text("pickle"), root |-> Path("here", <<"k">>), secret_key |-> <<"keys", <<"key2">>>>,
            lock_timeout |-> <<"number", 5>>])
InMemory == T([type |-> Text("memory")])
Pair(values, calls) == [values |-> values, calls |-> calls]
Relative == T([type |-> Text("sql"), url |-> <<"sqlite", "here", <<"calls.db">>>>])
Limited == T([values |-> Keyed, calls |-> InMemory, max_size |-> <<"number", 3>>, read_only |-> <<"flag", TRUE>>])
Remote(host) == T([type |-> Text("ssh"), host |-> Text(host), workdir |-> Text("w")])

Project == T([default |-> T([cache |-> Text("a"), root |-> <<"flag", FALSE>>]), a |-> Pickle("cache")])
Pinned == T([default |-> T([cache |-> Text("void"), root |-> <<"flag", TRUE>>])])
User == T([default |-> T([cache |-> <<"list", <<Limited, Remote("h")>>>>]),
           a |-> T([template |-> Text("sql"), root |-> Path("here", <<"u">>)])])
Looping == T([default |-> T([cache |-> Text("default")]), a |-> T(Pair(Keyed, Relative))])

Faulty == T([a |-> T([template |-> Text("sql")])])

Layout(sub, proj, user, xdg) ==
    [d \in MCDirs \cup {"xdg"} |->
        CASE d = "sub" -> sub [] d = "proj" -> proj [] d = "user" -> user [] d = "xdg" -> xdg [] OTHER -> NoFile]

MCLayouts == {Layout(NoFile, NoFile, NoFile, NoFile), Layout(NoFile, Project, User, NoFile),
              Layout(Pinned, Project, NoFile, Looping), Layout(NoFile, Broken, User, Looping),
              Layout(Faulty, Pinned, User, NoFile)}

MCGiven == {T(Pair(Keyed, Relative)), T([template |-> Text("sql"), root |-> Path("here", <<"s">>)]),
            T([pool |-> <<"list", <<Pickle("p"), Limited>>>>]), <<"list", <<<<"list", <<>>>>>>>>,
            T([template |-> Text("memory"), root |-> Path("here", <<"m">>)])}

MCKeysSet == {<<>>, <<"key1", "key2">>}

Hook(name, kind) == [name |-> name, kind |-> kind, says |-> NoFacts]
Tags(f) == [name |-> "tags", kind |-> "tags", says |-> f]
MCRuntime == Hook("runtime", "runtime")
MCHookChoices == {<<Tags([p |-> "a"])>>, <<Tags([p |-> "b", q |-> "c"])>>}
MCOwn == {<<>>, <<MCRuntime, Hook("checks", "raises after")>>}
MCConfigured == {<<Hook("before", "raises before"), MCRuntime>>, Unknown}

Plain == toml = Layout(NoFile, NoFile, NoFile, NoFile) /\ cwd = "sub"

ActiveCacheOnly == ConfigInit /\ Plain /\ MetaInit /\ configured = Unset
ConfigOnly == Init /\ MetaInit /\ configured = Unset
MetadataOnly == Init /\ ConfigInit /\ Plain

Begin == Init /\ ConfigInit /\ MetaInit

Program ==
    /\ Begin
    /\ [][\/ ActiveCacheOnly /\ Next /\ UNCHANGED <<configVars, metaVars>>
          \/ ConfigOnly /\ ConfigNext /\ UNCHANGED <<vars, metaVars>>
          \/ MetadataOnly /\ MetaNext /\ UNCHANGED <<vars, configVars>>
      ]_<<vars, configVars, metaVars>>
=============================================================================
