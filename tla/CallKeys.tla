------------------------------ MODULE CallKeys -------------------------------
(***************************************************************************)
(* How a call of a decorated function gets its lookup key (call.py and       *)
(* make_get_call in wrapper.py), and the forms that one call has on its way   *)
(* through a cache: Call with live values, DigestedCall when they are         *)
(* stored, LazyCall when it is loaded, Call again when it is fetched.         *)
(* Each form computes the key by itself.                                      *)
(*                                                                           *)
(* A profile describes a function: [qualname, module, version, code, params,  *)
(* ignored, required].  A parameter is [name, kind, default]; kind is         *)
(* "plain", "args" or "kwargs".  What a caller writes is [args, kwargs], a    *)
(* sequence of values and a function from names to values.                    *)
(***************************************************************************)
EXTENDS DigestedParts

NoValue == <<"none">>
Tuple(values) == <<"items", "tuple", values>>
Name(s) == <<"raw", "str", s>>

-----------------------------------------------------------------------------
(* Signature.bind: each parameter gets at most one value.                    *)

Plain(p) == {i \in DOMAIN p.params : p.params[i].kind = "plain"}
Named(p) == {p.params[i].name : i \in Plain(p)}
Variadic(p, kind) == {i \in DOMAIN p.params : p.params[i].kind = kind}

Given(p, spelled, i) ==
    LET name == p.params[i].name IN
    CASE i <= Len(spelled.args)          -> spelled.args[i]
      [] name \in DOMAIN spelled.kwargs  -> spelled.kwargs[name]

IsGiven(p, spelled, i) ==
    CASE p.params[i].kind = "plain"  -> i <= Len(spelled.args) \/ p.params[i].name \in DOMAIN spelled.kwargs
      [] p.params[i].kind = "args"   -> Len(spelled.args) > Cardinality(Plain(p))
      [] p.params[i].kind = "kwargs" -> DOMAIN spelled.kwargs \ Named(p) # {}

\* Every value has a parameter of its own.
Binds(p, spelled) ==
    /\ Len(spelled.args) > Cardinality(Plain(p)) => Variadic(p, "args") # {}
    /\ DOMAIN spelled.kwargs \subseteq Named(p) \/ Variadic(p, "kwargs") # {}
    /\ \A i \in Plain(p) : i <= Len(spelled.args) => p.params[i].name \notin DOMAIN spelled.kwargs

\* The value that a parameter is bound to once it is given.
Bound(p, spelled, i) ==
    LET plain == Cardinality(Plain(p))
        extra == SetToSeq(DOMAIN spelled.kwargs \ Named(p))
    IN  CASE p.params[i].kind = "plain"  -> Given(p, spelled, i)
          [] p.params[i].kind = "args"   -> Tuple(SubSeq(spelled.args, plain + 1, Len(spelled.args)))
          [] p.params[i].kind = "kwargs" ->
                <<"mapping", "dict", [j \in DOMAIN extra |-> <<Name(extra[j]), spelled.kwargs[extra[j]]>>]>>

\* A bug: a parameter that is not given has no argument.
GivenOnly(p, spelled) ==
    LET given == SelectSeq([i \in DOMAIN p.params |-> i], LAMBDA i : IsGiven(p, spelled, i))
    IN  [j \in DOMAIN given |-> <<p.params[given[j]].name, Bound(p, spelled, given[j])>>]

\* bind with apply_defaults: pairs of name and value, in the order of the
\* parameters, whatever the order they were given in.
Arguments(p, spelled) ==
    [i \in DOMAIN p.params |->
        <<p.params[i].name,
          IF IsGiven(p, spelled, i) THEN Bound(p, spelled, i) ELSE p.params[i].default>>]

\* check_required: the required parameters that fall back to their default.
MissingRequired(p, spelled) ==
    {p.params[i].name : i \in {j \in DOMAIN p.params :
        p.params[j].name \in p.required /\ ~IsGiven(p, spelled, j)}}

-----------------------------------------------------------------------------
(* The forms of a call: [name, arguments, metadata, module, version, code,   *)
(* result], where arguments are pairs of name and value or Digest.           *)

StripForKey(p, arguments) == SelectSeq(arguments, LAMBDA a : a[1] \notin p.ignored)

\* get_call: flags are hash_version, hash_module and hash_code.
GetCall(p, spelled, flags) ==
    [name |-> p.qualname,
     arguments |-> StripForKey(p, Arguments(p, spelled)),
     metadata |-> <<"mapping", "dict", <<>>>>,
     module |-> IF "module" \in flags THEN p.module ELSE NoValue,
     version |-> IF "version" \in flags THEN p.version ELSE NoValue,
     code |-> IF "code" \in flags THEN p.code ELSE NoValue,
     result |-> NoValue]

\* The dataclass Call with these fields.
CallRecord(call, arguments, metadata, result) ==
    <<"record", "Call", "dataclass",
      << <<"name", call.name>>, <<"arguments", arguments>>, <<"metadata", metadata>>,
         <<"module", call.module>>, <<"version", call.version>>, <<"code_digest", call.code>>,
         <<"result", result>> >>>>

\* The pairs as a tuple keep the order of the parameters.
ArgumentPairs(call) ==
    Tuple([i \in DOMAIN call.arguments |->
              Tuple(<<Name(call.arguments[i][1]), call.arguments[i][2]>>)])

\* to_lookup_key of Call and of DigestedCall: neither metadata nor the result.
LookupKey(call) == DigestOf(CallRecord(call, ArgumentPairs(call), NoValue, NoValue))

\* __digest__ of DigestedCall and LazyCall, and what digest() makes of a Call.
WholeDigest(call) ==
    DigestOf(CallRecord(call,
        <<"mapping", "dict", [i \in DOMAIN call.arguments |->
                                <<Name(call.arguments[i][1]), call.arguments[i][2]>>]>>,
        call.metadata, call.result))

\* The values of a call, its result last.
LiveValues(call) == Append([i \in DOMAIN call.arguments |-> call.arguments[i][2]], call.result)

\* _to_digested: a Digest stays, and so does the None of a pending result; the
\* other values are replaced by what saving or digesting them returned.
ToDigested(call, saved) ==
    [call EXCEPT
        !.arguments = [i \in DOMAIN @ |->
            <<@[i][1], IF IsDigest(@[i][2]) THEN @[i][2] ELSE <<"digest", saved[i]>> >>],
        !.result = IF @ = NoValue THEN @ ELSE <<"digest", Last(saved)>>]

\* BaseCache.prepare, and Cache.prepare with a storage of remaining_depth r.
DigestedForm(call) ==
    ToDigested(call, [i \in DOMAIN LiveValues(call) |-> DigestOf(LiveValues(call)[i])])
Stashed(call, r) ==
    ToDigested(call, [i \in DOMAIN LiveValues(call) |-> Saved(LiveValues(call)[i], r).key])

\* LazyCall.fetch: values that are not in the storage any more leave their
\* digests in the arguments.
Fetched(call, entries) ==
    LET Get(v) == IF IsDigest(v) /\ Loaded(entries, v[2]) # Missing THEN Loaded(entries, v[2]) ELSE v
    IN  [call EXCEPT !.arguments = [i \in DOMAIN @ |-> <<@[i][1], Get(@[i][2])>>],
                     !.result = Get(@)]
=============================================================================
