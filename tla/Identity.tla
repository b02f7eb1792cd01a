------------------------------- MODULE Identity -------------------------------
(***************************************************************************)
(* What fleche takes to be the same: values by their digests, calls by        *)
(* their lookup keys, stored calls by templates and records by short digests. *)
(* A program stores values, or types short digests, or asks one question:     *)
(* none of these changes what the others work on, so a behaviour does one of   *)
(* them.                                                                      *)
(***************************************************************************)
EXTENDS Destructuring, Templates, DigestPrefixes

CONSTANTS
    Specimens,  \* values whose digests are compared
    Profiles,   \* decorated functions
    Spelled,    \* Spelled[p]: arguments as a caller of p may write them
    Flags,      \* settings of hash_version, hash_module and hash_code
    Calls,      \* calls whose forms are followed through the storage
    Questions   \* templates of queries

VARIABLE question

vars == <<storageVars, prefixVars, question>>

Unasked == <<"none">>

Init == StorageInit /\ PrefixInit /\ question = Unasked

Untouched == StorageInit /\ PrefixInit /\ question = Unasked

Stores == question = Unasked /\ PrefixInit /\ StorageNext /\ UNCHANGED <<prefixVars, question>>
Types == question = Unasked /\ StorageInit /\ PrefixNext /\ UNCHANGED <<storageVars, question>>

Asks(q) ==
    /\ question' = q
    /\ UNCHANGED <<storageVars, prefixVars>>

\* digest(v) == digest(w)?
Compare == \E v, w \in Specimens : Asks(<<"compare", v, w>>)

\* Is a call written in two ways one call?
Spell == \E p \in Profiles, flags \in Flags : \E s, t \in Spelled[p] :
    Binds(p, s) /\ Binds(p, t) /\ Asks(<<"spell", p, s, t, flags>>)

\* Does the template find the call?
Query == \E template \in Questions, call \in Calls : Asks(<<"query", template, call>>)

Next == Stores \/ Types \/ (Untouched /\ (Compare \/ Spell \/ Query))

Spec == Init /\ [][Next]_vars

-----------------------------------------------------------------------------
Parts(v) ==
    CASE v[1] = "number" -> {v[3], v[4]}
      [] OTHER -> {}

\* Where the code departs from its documentation (README, observations): a
\* complex number with a zero of negative sign beside another part, and the
\* class of a builtin, which digests as its name does.  NaNs equal nothing and digest
\* by their bits.
Apart(v) == v[1] = "class" \/ NaN \in Parts(v) \/ (v[1] = "number" /\ IsComplex(v[2]) /\ NegativeZero \in Parts(v))

RECURSIVE Captures(_)
Captures(v) == v[1] \in {"function", "method"}
               \/ (TakenApart(v) /\ \E c \in Range(Slots(v)) : Captures(c))

\* "Two numbers digest equal exactly when they hold the same exact value",
\* "every other value digests by its type as well as its content" (digest.py,
\* digest_equivalence.rst): equal digests mean equal values, for functions that
\* capture each other and themselves too, and equal values mean equal digests,
\* but for functions, whose captured values may be reached in other ways.
DigestsMeanValues == question[1] = "compare" =>
    LET v == question[2]
        w == question[3]
        told == Indigestible \notin {DigestOf(v), DigestOf(w)} /\ ~Apart(v) /\ ~Apart(w)
    IN  /\ told /\ DigestOf(v) = DigestOf(w) => Same(v, w)
        /\ told /\ Same(v, w) /\ ~Captures(v) => DigestOf(v) = DigestOf(w)

\* What the body of a call is given for its i-th parameter.
Receives(p, s, i) == IF IsGiven(p, s, i) THEN Bound(p, s, i) ELSE p.params[i].default

\* Two ways to write a call get one key exactly when the body is given the same
\* for every parameter that is not ignored, whatever is left to its default.
SpellingsShareAKey == question[1] = "spell" =>
    LET p == question[2]
        alike == \A i \in DOMAIN p.params : p.params[i].name \notin p.ignored =>
                    Same(Receives(p, question[3], i), Receives(p, question[4], i))
        keys == {LookupKey(GetCall(p, s, question[5])) : s \in {question[3], question[4]}}
    IN  alike <=> Cardinality(keys) = 1

Sealed(call) == ~\E v \in Range(LiveValues(call)) : \E x \in Below(v) : OwnDigest(x)
Followed == {call \in Calls : Sealed(call)}

Identifiers(form) == <<LookupKey(form), WholeDigest(form)>>
IdentifiersOf == [call \in Followed |-> Identifiers(DigestedForm(call))]

\* The forms a call has at this moment: live and stashed when it is asked about,
\* fetched when something is stored.
Forms(call) ==
    CASE question[1] = "query" /\ question[3] = call -> {call} \cup {Stashed(call, r) : r \in Depths}
      [] DOMAIN entries # {} /\ kept = {}            -> {Fetched(DigestedForm(call), entries)}
      [] OTHER                                       -> {}

\* Every form of a call computes one and the same key, at every moment of the
\* storage: live, prepared by a cache that keeps no values, stashed with any
\* setting of remaining_depth, and fetched while some of its values have been
\* collected or are half written.
FormsAgree == \A call \in Followed : \A form \in Forms(call) : Identifiers(form) = IdentifiersOf[call]

\* One call has one key, in every spelling and in every form, and calls that
\* differ in what the body is given have different keys.
OneKeyPerCall == SpellingsShareAKey /\ FormsAgree

\* A field that a query writes plainly: names as text, a version as the int it is.
Plainly(template) ==
    /\ template.name = Wildcard \/ template.name[1] = "raw"
    /\ template.module = Wildcard \/ template.module[1] = "raw"
    /\ template.version = Wildcard \/ template.version[2] = "int"
    /\ template.code = Wildcard \/ IsDigest(template.code)

\* "Semantics match CallStorage.query" (sql.py): the database finds the calls
\* that the template matches; and a call is found by the template that its own
\* arguments make, however they are written.
QueriesAgree == question[1] \in {"query", "spell"} =>
    LET asked == question[1] = "query"
        template == IF asked THEN question[2] ELSE FromCall(question[2], question[3])
        stored == IF asked THEN DigestedForm(question[3])
                  ELSE DigestedForm(GetCall(question[2], question[4], question[5]))
        python == Matches(template, stored)
        sql == SqlMatches(template, stored)
        alike == /\ ~asked /\ {"module", "version"} \subseteq question[5]
                 /\ LookupKey(GetCall(question[2], question[3], question[5])) = LookupKey(stored)
    IN  (asked /\ Plainly(template) => (python <=> sql)) /\ (alike => python /\ sql)
=============================================================================
