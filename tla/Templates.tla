------------------------------ MODULE Templates ------------------------------
(***************************************************************************)
(* Which stored calls a template finds: QueryCall.matches, which most        *)
(* storages filter with (call.py), and the conditions that Sql.query sends   *)
(* to the database instead (sql.py).  A template has the fields of a call;    *)
(* Wildcard is the None that matches everything.  Its metadata is a function    *)
(* from names of hooks to functions from keys to values.                     *)
(***************************************************************************)
EXTENDS CallKeys

CONSTANT Wildcard

\* Equal fields are compared by their digests.
AnyOrEqual(a, b) == a = Wildcard \/ DigestOf(a) = DigestOf(b)

ArgumentNames(call) == {call.arguments[i][1] : i \in DOMAIN call.arguments}
Argument(call, name) ==
    LET i == CHOOSE j \in DOMAIN call.arguments : call.arguments[j][1] = name
    IN  call.arguments[i][2]

\* The dict that a record has as metadata, and the one of each hook in it.
Keys(dict) == {dict[3][i][1] : i \in DOMAIN dict[3]}
Item(dict, key) == dict[3][CHOOSE i \in DOMAIN dict[3] : dict[3][i][1] = key][2]

\* Values of metadata, as == compares them in Python: True is 1 and 1.0.
MetaEqual(a, b) ==
    IF a[1] = "number" /\ b[1] = "number" THEN Value(a[3]) = Value(b[3]) ELSE a = b

\* Both engines check metadata like this, Sql for the calls it has loaded.
MetadataMatches(wanted, found) ==
    wanted # Wildcard => \A hook \in DOMAIN wanted :
        /\ hook \in Keys(found)
        /\ \A key \in DOMAIN wanted[hook] :
             /\ key \in Keys(Item(found, hook))
             /\ \/ wanted[hook][key] = Wildcard
                \/ MetaEqual(wanted[hook][key], Item(Item(found, hook), key))

\* A bug: an argument that may be anything may be missing.
MissingMatchesAny(template, call) ==
    template.arguments # Wildcard => \A name \in DOMAIN template.arguments :
        template.arguments[name] # Wildcard =>
            /\ name \in ArgumentNames(call)
            /\ AnyOrEqual(template.arguments[name], Argument(call, name))

ArgumentsMatch(template, call) ==
    template.arguments # Wildcard => \A name \in DOMAIN template.arguments :
        /\ name \in ArgumentNames(call)
        /\ AnyOrEqual(template.arguments[name], Argument(call, name))

Matches(template, call) ==
    /\ \A field \in {"name", "module", "version", "code", "result"} :
         AnyOrEqual(template[field], call[field])
    /\ ArgumentsMatch(template, call)
    /\ MetadataMatches(template.metadata, call.metadata)

-----------------------------------------------------------------------------
(* Sql.query: columns hold text, so a name or a version is compared as it is  *)
(* written; arguments and results are rows and columns of digests.            *)

AnyOrWritten(a, b) == a = Wildcard \/ a = b
AnyOrDigest(a, b) == a = Wildcard \/ (IsDigest(b) /\ DigestOf(a) = b[2])

\* json_extract: a boolean is 1 or 0, what is missing equals nothing.
JsonEqual(a, b) ==
    IF b[1] = "number" /\ a[1] = "number" THEN Value(a[3]) = Value(b[3]) ELSE a = b

\* _apply_metadata_filters: pushed down only when every filter is plain.
Pushed(wanted) == \A hook \in DOMAIN wanted : \A key \in DOMAIN wanted[hook] :
    wanted[hook][key] # Wildcard /\ wanted[hook][key][1] \in {"number", "raw"}

SqlMetadata(wanted, found) ==
    wanted # Wildcard /\ Pushed(wanted) => \A hook \in DOMAIN wanted :
        /\ hook \in Keys(found)
        /\ \A key \in DOMAIN wanted[hook] :
             key \in Keys(Item(found, hook)) /\ JsonEqual(wanted[hook][key], Item(Item(found, hook), key))

\* One join per argument.
SqlArguments(template, call) ==
    template.arguments # Wildcard => \A name \in DOMAIN template.arguments :
        \E i \in DOMAIN call.arguments :
            /\ call.arguments[i][1] = name
            /\ AnyOrDigest(template.arguments[name], call.arguments[i][2])

\* _build_call_conditions, the joins, and the check of what has been loaded.
SqlMatches(template, call) ==
    /\ \A field \in {"name", "module", "version", "code"} :
         AnyOrWritten(template[field], call[field])
    /\ AnyOrDigest(template.result, call.result)
    /\ SqlArguments(template, call)
    /\ SqlMetadata(template.metadata, call.metadata)
    /\ MetadataMatches(template.metadata, call.metadata)

-----------------------------------------------------------------------------
\* QueryCall.from_call and make_query: what a caller leaves out is Wildcard, and so
\* is what the caller gives as None; a default is not filled in.
FromCall(p, spelled) ==
    [name |-> p.qualname,
     arguments |->
        [name \in {p.params[i].name : i \in DOMAIN p.params} \ p.ignored |->
            LET i == CHOOSE j \in DOMAIN p.params : p.params[j].name = name IN
            IF IsGiven(p, spelled, i) /\ Bound(p, spelled, i) # NoValue
            THEN Bound(p, spelled, i) ELSE Wildcard],
     metadata |-> Wildcard, module |-> p.module, version |-> p.version,
     code |-> Wildcard, result |-> Wildcard]
=============================================================================
