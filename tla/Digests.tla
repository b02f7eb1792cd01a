------------------------------- MODULE Digests -------------------------------
(***************************************************************************)
(* What digest() makes of a value (digest.py and the arms in _numbers.py,    *)
(* _numpy.py, _pandas.py and _attrs.py).  A value is a tuple that begins     *)
(* with its kind:                                                            *)
(*   <<"number", type, re, im>>   a number of a Python or numpy type         *)
(*   <<"raw", type, text>>        str, bytes, date, time: hashed as written  *)
(*   <<"none">>, <<"npbool", b>>, <<"class", module, name>>                  *)
(*   <<"digest", d>>              a Digest                                   *)
(*   <<"items", type, values>>    list, tuple and whatever can be iterated   *)
(*   <<"mapping", type, pairs>>   pairs in the order of insertion            *)
(*   <<"record", name, framework, pairs>>   a dataclass or attrs instance,   *)
(*        or one whose class has a __digest__ of its own                     *)
(*   <<"wrapped", v>>   what is stored of v when it is taken apart           *)
(*   <<"array", shape, values>>, <<"column", name, values>>   of objects     *)
(*   <<"function", f>>, <<"method", receiver, f>>                            *)
(*   <<"opaque", class>>          nothing that fleche digests by itself      *)
(* A digest is the term <<salt, content>> instead of its SHA-256.            *)
(***************************************************************************)
EXTENDS Integers, FiniteSets, Sequences, SequencesExt

CONSTANTS
    Doubles,    \* finite reals that a float holds exactly
    Functions,  \* the function objects
    Function,   \* Function[f]: [code, own, closure, defaults, kwdefaults]
    Hooks,      \* digest hooks as get_hooks() lists them: <<class, name>>
    Unset       \* no __digest__ of its own, a cell that is not bound yet

-----------------------------------------------------------------------------
(* Real numbers: <<numerator, denominator>> in lowest terms, denominator     *)
(* positive; the infinities, NaN and the zero with a sign are apart.         *)

Zero == <<0, 1>>
NegativeZero == <<0, -1>>
NaN == <<0, 0>>
Infinities == {<<1, 0>>, <<-1, 0>>}

IsZero(r) == r \in {Zero, NegativeZero}
Value(r) == IF IsZero(r) THEN Zero ELSE r

Indigestible == <<"Indigestible">>

\* new_hash(salt) over something that is hashed as it is written.
Raw(salt, content) == <<salt, content>>

\* new_hash(salt) over digests, none of which may be missing.
Salted(salt, parts) ==
    IF Indigestible \in Range(parts) THEN Indigestible ELSE <<salt, parts>>

Text(s) == Raw("str", s)

-----------------------------------------------------------------------------
(* Numbers: the downcast tree and what each of its types holds.              *)

Parent == [Integral |-> "int", float |-> "int", complex |-> "float", Complex |-> "complex",
           Fraction |-> "float", Decimal |-> "Fraction", Real |-> "Fraction"]
TreeTypes == DOMAIN Parent \cup {"int"}

PathTo[n \in TreeTypes] == IF n = "int" THEN <<n>> ELSE Append(PathTo[Parent[n]], n)

\* The types of the tree that a number type is a subclass of, registered or not.
Supertypes ==
    [int |-> {"int", "Integral", "Real", "Complex"}, Integral |-> {"Integral", "Real", "Complex"},
     float |-> {"float", "Real", "Complex"}, Real |-> {"Real", "Complex"},
     complex |-> {"complex", "Complex"}, Complex |-> {"Complex"},
     Fraction |-> {"Fraction", "Real", "Complex"}, Decimal |-> {"Decimal"},
     int64 |-> {"Integral", "Real", "Complex"}, float32 |-> {"Real", "Complex"},
     longdouble |-> {"Real", "Complex"}, clongdouble |-> {"Complex"}]

RealPart == [complex |-> "float", clongdouble |-> "longdouble"]
IsComplex(t) == t \in DOMAIN RealPart

\* The path to the most derived type of the tree that t subclasses.
Path(t) == PathTo[CHOOSE b \in Supertypes[t] : Supertypes[t] \subseteq Supertypes[b]]

Holds(n, re, im) ==
    CASE n = "int"      -> IsZero(im) /\ Value(re)[2] = 1
      [] n = "float"    -> IsZero(im) /\ Value(re) \in Doubles \cup Infinities
      [] n = "complex"  -> {Value(re), Value(im)} \subseteq Doubles \cup Infinities
      [] n = "Fraction" -> IsZero(im) /\ re[2] # 0
      [] n = "Decimal"  -> IsZero(im)
      [] OTHER          -> FALSE

Encode(n, re, im) ==
    CASE n = "int"     -> Raw("int", Value(re)[1])
      [] n = "float"   -> Raw("float", re)
      [] n = "complex" -> Raw("complex", <<re, im>>)
      [] OTHER         -> Salted(n, <<Raw("int", re[1]), Raw("int", re[2])>>)

Held(t, re, im) == SelectSeq(Path(t), LAMBDA n : Holds(n, re, im))

\* A bug: a number is encoded as the last type on its path that holds it.
OwnTypeFirst(t, re, im) ==
    CASE t = "Decimal" /\ re = NaN -> Salted("Decimal", <<Text("NaN")>>)
      [] NaN \in {re, im} -> IF IsComplex(t) THEN Encode("complex", re, im) ELSE Encode("float", re, im)
      [] OTHER -> IF Held(t, re, im) = <<>> THEN Indigestible
                  ELSE Encode(Last(Held(t, re, im)), re, im)

DigestNumber(t, re, im) ==
    LET partly == IF IsComplex(t) /\ IsZero(im) THEN RealPart[t] ELSE t
    IN  CASE t = "Decimal" /\ re = NaN -> Salted("Decimal", <<Text("NaN")>>)
          [] NaN \in {re, im} ->
                IF IsComplex(partly) THEN Encode("complex", re, im) ELSE Encode("float", re, im)
          [] OTHER -> IF Held(partly, re, im) = <<>> THEN Indigestible
                      ELSE Encode(Head(Held(partly, re, im)), re, im)

\* int and its subclasses come before numbers and keep their own names.
IntTypes == {"int", "bool", "IntEnum"}

-----------------------------------------------------------------------------
ClassOf(v) ==
    CASE v[1] \in {"number", "raw", "items", "mapping", "record", "opaque"} -> v[2]
      [] OTHER -> v[1]

ClassName(v) == Text(v[3])

\* Pairs of digests sorted by the key: the order of equal keys is what is left
\* of the order of insertion.
Sorted(pairs) ==
    IF \E i \in DOMAIN pairs : Indigestible \in Range(pairs[i]) THEN Indigestible
    ELSE <<"sorted", [k \in {pairs[i][1] : i \in DOMAIN pairs} |->
                        SelectSeq(pairs, LAMBDA p : p[1] = k)]>>

\* A bug: the pairs are folded in the order of insertion.
Unsorted(pairs) ==
    IF \E i \in DOMAIN pairs : Indigestible \in Range(pairs[i]) THEN Indigestible
    ELSE <<"unsorted", pairs>>

DigestMapping(pairs) == Sorted(pairs)

\* A bug: one marker for every function on the way.
ConstantMarker(path, f) == Text("recursive")

\* The marker for a function that is being walked already: how far up it is.
BackReference(path, f) ==
    Salted("tuple", <<Text("recursive"), Raw("int", Len(path) - SelectInSeq(path, LAMBDA g : g = f) + 1)>>)

RECURSIVE DigestWalking(_, _)

DigestFunction(f, path) ==
    LET fn == Function[f]
        below == Append(path, f)
        Cell(c) == CASE c[2] = Unset -> Text("empty cell")
                     [] c[2] # Unset /\ c[1] = "__class__" -> ClassName(c[2])
                     [] OTHER -> DigestWalking(c[2], below)
        Section(name, given, parts) == IF given = <<>> THEN <<>> ELSE <<Text(name)>> \o parts
        Pairs(kw) == [i \in DOMAIN kw |-> <<Text(kw[i][1]), DigestWalking(kw[i][2], below)>>]
    IN  CASE fn.own # Unset -> fn.own
          [] fn.own = Unset /\ <<fn.closure, fn.defaults, fn.kwdefaults>> = << <<>>, <<>>, <<>> >> ->
                Raw("code", fn.code)
          [] OTHER ->
                IF f \in Range(path) THEN BackReference(path, f)
                ELSE Salted("captured",
                        <<Raw("code", fn.code)>>
                        \o Section("closure", fn.closure, FlattenSeq(
                              [i \in DOMAIN fn.closure |-> <<Text(fn.closure[i][1]), Cell(fn.closure[i])>>]))
                        \o Section("defaults", fn.defaults,
                              <<DigestWalking(<<"items", "tuple", fn.defaults>>, below)>>)
                        \o Section("kwdefaults", fn.kwdefaults, <<DigestMapping(Pairs(fn.kwdefaults))>>))

\* An element of a column of objects: pandas hashes text as it is, a Digest
\* among it, and is handed the digest of anything else.
DigestColumn(items, path) ==
    LET text == \A i \in DOMAIN items : items[i][1] = "digest" \/ ClassOf(items[i]) = "str"
    IN  IF text THEN [i \in DOMAIN items |-> IF items[i][1] = "digest" THEN items[i][2] ELSE items[i]]
        ELSE [i \in DOMAIN items |-> DigestWalking(items[i], path)]

\* A bug: a wrapper digests under the name of its own class.
AsItself(v) == IF v[1] = "record" THEN [v EXCEPT ![2] = "DigestedFields"] ELSE v

\* The wrapper of a record digests by its class name and fields.
AsDataclass(v) == IF v[1] = "record" THEN [v EXCEPT ![3] = "dataclass"] ELSE v

\* _digest_bytes: a hook first, then the arms in their order; path holds the
\* functions whose captured values are being digested.
DigestWalking(v, path) ==
    LET hook == SelectSeq(Hooks, LAMBDA h : h[1] = ClassOf(v))
        Each(values) == [i \in DOMAIN values |-> DigestWalking(values[i], path)]
        Pairs(pairs) == [i \in DOMAIN pairs |-> Each(pairs[i])]
        Fields == [i \in DOMAIN v[4] |-> <<Text(v[4][i][1]), DigestWalking(v[4][i][2], path)>>]
        kind == v[1]
    IN  IF hook # <<>> THEN Raw("hook", <<Head(hook)[2], v>>)
        ELSE CASE kind = "number" /\ v[2] \in IntTypes -> Raw(v[2], Value(v[3])[1])
               [] kind = "number" /\ v[2] \notin IntTypes -> DigestNumber(v[2], v[3], v[4])
               [] kind = "digest"   -> v[2]
               [] kind = "raw"      -> Raw(v[2], v[3])
               [] kind = "none"     -> Raw("NoneType", "None")
               [] kind = "npbool"   -> Raw("bool", v[2])
               [] kind = "array"    -> Salted("ndarray", <<Raw("tuple of int", v[2])>> \o Each(v[3]))
               [] kind = "column"   -> Salted("Series", <<Text(v[2])>> \o DigestColumn(v[3], path))
               [] kind = "method"   ->
                    Salted("method", <<Text("self"),
                                       IF v[2][1] = "class" THEN ClassName(v[2])
                                       ELSE DigestWalking(v[2], path),
                                       DigestFunction(v[3], path)>>)
               [] kind = "function" -> DigestFunction(v[2], path)
               [] kind = "class"    -> IF v[2] = "builtins" THEN ClassName(v) ELSE Indigestible
               [] kind = "record" /\ v[3] = "own" ->
                    Salted("tuple", <<Text(v[2])>> \o [i \in DOMAIN Fields |-> Fields[i][2]])
               [] kind = "record" /\ v[3] # "own" ->
                    Salted(v[2], <<Salted("dict", <<DigestMapping(Fields)>>)>>)
               [] kind = "wrapped"  -> DigestWalking(AsDataclass(v[2]), path)
               [] kind = "mapping"  -> Salted(v[2], <<DigestMapping(Pairs(v[3]))>>)
               [] kind = "items"    -> Salted(v[2], Each(v[3]))
               [] OTHER             -> Indigestible

DigestOf(v) == DigestWalking(v, <<>>)

-----------------------------------------------------------------------------
(* What values mean, as docs/digests/digest_equivalence.rst tells it: the    *)
(* reference the digests are compared with.  A Digest stands for whatever    *)
(* has that digest.                                                          *)

BoolOf(v) == IF v[1] = "npbool" THEN <<"number", "bool", <<v[2], 1>>, Zero>> ELSE v

RECURSIVE SameValue(_, _, _)

\* Two functions are the same when nothing that follows the code and the
\* captured values of both tells them apart: a pair met again says nothing new.
SameFunction(f, g, met) ==
    LET a == Function[f]
        b == Function[g]
        known == met \cup {<<f, g>>}
        Same(v, w) == IF Unset \in {v, w} THEN v = w ELSE SameValue(v, w, known)
        Alike(vs, ws) == Len(vs) = Len(ws) /\ \A i \in DOMAIN vs : Same(vs[i], ws[i])
        Named(vs, ws) == /\ Len(vs) = Len(ws)
                         /\ \A i \in DOMAIN vs : vs[i][1] = ws[i][1] /\ Same(vs[i][2], ws[i][2])
    IN  \/ <<f, g>> \in met
        \/ /\ a.code = b.code /\ a.own = b.own
           /\ Named(a.closure, b.closure) /\ Alike(a.defaults, b.defaults)
           /\ Named(a.kwdefaults, b.kwdefaults)

SameValue(a, b, met) ==
    LET v == BoolOf(a)
        w == BoolOf(b)
        Each(vs, ws) == Len(vs) = Len(ws) /\ \A i \in DOMAIN vs : SameValue(vs[i], ws[i], met)
        Within(ps, qs) == \A i \in DOMAIN ps : \E j \in DOMAIN qs :
                              SameValue(ps[i][1], qs[j][1], met) /\ SameValue(ps[i][2], qs[j][2], met)
        Named(ps, qs) == \A i \in DOMAIN ps : \E j \in DOMAIN qs :
                              ps[i][1] = qs[j][1] /\ SameValue(ps[i][2], qs[j][2], met)
        Alike == CASE v[1] = "number"   -> /\ Value(v[3]) = Value(w[3]) /\ Value(v[4]) = Value(w[4])
                                           /\ v[2] = w[2] \/ {v[2], w[2]} \cap {"bool", "IntEnum"} = {}
                   [] v[1] = "items"    -> v[2] = w[2] /\ Each(v[3], w[3])
                   [] v[1] = "mapping"  -> v[2] = w[2] /\ Within(v[3], w[3]) /\ Within(w[3], v[3])
                   [] v[1] = "record"   -> v[2] = w[2] /\ Named(v[4], w[4]) /\ Named(w[4], v[4])
                   [] v[1] \in {"array", "column"} -> v[2] = w[2] /\ Each(v[3], w[3])
                   [] v[1] = "function" -> SameFunction(v[2], w[2], met)
                   [] v[1] = "method"   -> SameValue(v[2], w[2], met) /\ SameFunction(v[3], w[3], met)
                   [] OTHER             -> v = w
    IN  IF "digest" \in {v[1], w[1]} THEN DigestOf(v) = DigestOf(w) ELSE v[1] = w[1] /\ Alike

Same(v, w) == SameValue(v, w, {})
=============================================================================
