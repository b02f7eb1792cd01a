------------------------------ MODULE MCIdentity ------------------------------
(***************************************************************************)
(* Values, functions, calls and templates of which some mean the same.       *)
(***************************************************************************)
EXTENDS Identity, TLC

number(type, n, d) == <<"number", type, <<n, d>>, Zero>>
complex(re, im) == <<"number", "complex", re, im>>
list(vs) == <<"items", "list", vs>>
dict(pairs) == <<"mapping", "dict", pairs>>
function(f) == <<"function", f>>
point(framework, x) == <<"record", IF framework = "own" THEN "Spot" ELSE "Point", framework, << <<"x", x>>, <<"y", number("int", 1, 1)>> >> >>

one == number("int", 1, 1)
two == number("int", 2, 1)
half == <<1, 2>>

SomeDoubles == {Zero, <<1, 1>>, <<2, 1>>, half}

Numbers ==
    {number(t, 1, 1) : t \in {"int", "bool", "IntEnum", "float", "int64", "float32", "Fraction",
                              "Decimal", "longdouble"}}
    \cup {number(t, 1, 2) : t \in {"float", "Fraction", "Decimal", "longdouble"}}
    \cup {number(t, 1, 10) : t \in {"Fraction", "Decimal", "longdouble"}}
    \cup {number(t, 0, -1) : t \in {"float", "float32"}} \cup {number("int", 0, 1)}
    \cup {number(t, n, 0) : t \in {"float", "Decimal"}, n \in {0, 1}}
    \cup {complex(<<1, 1>>, Zero), complex(Zero, <<1, 1>>), complex(NegativeZero, <<1, 1>>),
          <<"number", "clongdouble", <<1, 10>>, Zero>>}

Plain1 == {Name("x"), <<"raw", "bytes", "x">>, Name("builtins.int"), <<"class", "builtins", "builtins.int">>,
           <<"class", "mod", "mod.C">>, NoValue, <<"npbool", 1>>, <<"opaque", "Handle">>}

Nested == {list(<<one, two>>), list(<<two, one>>), list(<<number("float", 1, 1), two>>),
           Tuple(<<one, two>>), list(<<list(<<one>>), two>>),
           dict(<< <<Name("a"), one>>, <<Name("b"), two>> >>),
           dict(<< <<Name("b"), two>>, <<Name("a"), number("float", 1, 1)>> >>),
           dict(<< <<Name("a"), two>>, <<Name("b"), one>> >>),
           dict(<< <<one, Name("x")>>, <<two, Name("x")>> >>),
           point("dataclass", one), point("attrs", one), point("own", one), point("dataclass", two),
           <<"digest", DigestOf(list(<<one, two>>))>>,
           <<"array", <<2>>, <<one, two>>>>, <<"array", <<2, 1>>, <<one, two>>>>,
           <<"column", "c", <<Name("x"), Name("y")>>>>, <<"column", "c", <<one, Name("y")>>>>}

\* two captures what it likes; even and odd capture each other, their kin
\* captures one of them twice; plus takes a default.
SomeFunctions == {"constant", "addOne", "addTwo", "plusOne", "even", "odd", "kin", "loop", "twin",
                  "shaped", "unbound", "classy", "wired", "marked"}
fn(code, closure, defaults, kwdefaults) ==
    [code |-> code, own |-> Unset, closure |-> closure, defaults |-> defaults, kwdefaults |-> kwdefaults]
cell(name, v) == <<name, v>>
TheFunctions ==
    "constant" :> fn("c", <<>>, <<>>, <<>>)
    @@ "addOne" :> fn("add", <<cell("n", one)>>, <<>>, <<>>)
    @@ "addTwo" :> fn("add", <<cell("n", two)>>, <<>>, <<>>)
    @@ "plusOne" :> fn("add", <<>>, <<one>>, <<>>)
    @@ "even" :> fn("e", <<cell("g", function("odd"))>>, <<>>, <<>>)
    @@ "odd" :> fn("e", <<cell("g", function("even"))>>, <<one>>, <<>>)
    @@ "kin" :> fn("e", <<cell("g", function("loop"))>>, <<>>, <<>>)
    @@ "loop" :> fn("e", <<cell("g", function("loop"))>>, <<one>>, <<>>)
    @@ "twin" :> fn("e", <<cell("g", function("twin"))>>, <<one>>, <<>>)
    @@ "shaped" :> fn("s", <<>>, <<>>, << <<"k", one>>, <<"l", two>> >>)
    @@ "unbound" :> fn("add", <<cell("n", Unset)>>, <<>>, <<>>)
    @@ "classy" :> fn("add", <<cell("__class__", <<"class", "mod", "mod.C">>)>>, <<>>, <<>>)
    @@ "wired" :> fn("add", <<cell("n", <<"opaque", "Handle">>)>>, <<>>, <<>>)
    @@ "marked" :> [fn("c", <<>>, <<>>, <<>>) EXCEPT !.own = Text("mine")]

Capturing == {function(f) : f \in SomeFunctions}
             \cup {<<"method", one, "constant">>, <<"method", <<"class", "mod", "mod.C">>, "constant">>,
                   list(<<function("addOne")>>), list(<<function("addTwo")>>)}

SomeSpecimens == Numbers \cup Plain1 \cup Nested \cup Capturing \cup {<<"opaque", "Hooked">>}

-----------------------------------------------------------------------------
inner == list(<<one>>)
outer == dict(<< <<Name("a"), point("attrs", inner)>> >>)
SavedValues == {outer, Tuple(<<inner, list(<<one, function("constant")>>), <<"digest", DigestOf(outer)>> >>)}

-----------------------------------------------------------------------------
parameter(name, kind, default) == [name |-> name, kind |-> kind, default |-> default]
empty == Tuple(<<>>)

scale == [qualname |-> Name("scale"), module |-> Name("mod"), version |-> one, code |-> <<"digest", Text("code")>>,
          params |-> <<parameter("a", "plain", Unset), parameter("b", "plain", two),
                       parameter("log", "plain", NoValue)>>,
          ignored |-> {"log"}, required |-> {"b"}]
gather == [scale EXCEPT !.params = <<parameter("a", "plain", Unset), parameter("args", "args", empty),
                                     parameter("kwargs", "kwargs", dict(<<>>))>>, !.ignored = {}]

written(args, kwargs) == [args |-> args, kwargs |-> kwargs]
none == [n \in {} |-> one]
TheSpelled ==
    scale :> {written(<<one>>, none), written(<<>>, "a" :> number("float", 1, 1)),
              written(<<one, two>>, none), written(<<one>>, "b" :> number("int64", 2, 1)),
              written(<<one, two, two>>, none), written(<<one>>, "log" :> Name("x")),
              written(<<two>>, "b" :> one), written(<<>>, "b" :> one @@ "a" :> two),
              written(<<one, NoValue>>, none), written(<< <<"digest", DigestOf(one)>> >>, none)}
    @@ gather :> {written(<<one>>, none), written(<<one, two>>, none), written(<<one, two, one>>, none),
                  written(<<one>>, "b" :> two), written(<<>>, "a" :> one @@ "b" :> two @@ "c" :> one),
                  written(<<one>>, "c" :> one @@ "b" :> two)}

SomeProfiles == {scale, gather}
AllFlags == SUBSET {"version", "module", "code"}

plainCall(argument, result) ==
    [name |-> Name("scale"), arguments |-> << <<"a", argument>>, <<"b", two>> >>,
     metadata |-> dict(<< <<Name("run"), dict(<< <<Name("tries"), one>>, <<Name("host"), Name("x")>> >>)>> >>),
     module |-> Name("mod"), version |-> one, code |-> <<"digest", Text("code")>>, result |-> result]
SomeCalls == {plainCall(outer, inner), plainCall(inner, NoValue), plainCall(NoValue, one),
              [plainCall(one, NoValue) EXCEPT !.module = NoValue, !.metadata = dict(<<>>)]}

anything == [name |-> Wildcard, arguments |-> Wildcard, metadata |-> Wildcard, module |-> Wildcard,
             version |-> Wildcard, code |-> Wildcard, result |-> Wildcard]
asked(hook, key, v) == hook :> (key :> v)
SomeQuestions ==
    {anything, [anything EXCEPT !.name = Name("scale")], [anything EXCEPT !.name = Name("x")],
     [anything EXCEPT !.module = Name("mod")], [anything EXCEPT !.version = one],
     [anything EXCEPT !.version = number("float", 1, 1)],
     [anything EXCEPT !.name = <<"digest", DigestOf(Name("scale"))>>],
     [anything EXCEPT !.code = <<"digest", Text("code")>>], [anything EXCEPT !.code = <<"digest", Text("x")>>]}
    \cup {[anything EXCEPT !.result = r] : r \in {inner, one, <<"digest", DigestOf(inner)>>}}
    \cup {[anything EXCEPT !.arguments = ("a" :> v)] :
            v \in {outer, number("float", 1, 1), Wildcard, <<"digest", DigestOf(outer)>>}}
    \cup {[anything EXCEPT !.arguments = ("a" :> one @@ "b" :> two)],
          [anything EXCEPT !.arguments = ("c" :> Wildcard)], [anything EXCEPT !.arguments = none]}
    \cup {[anything EXCEPT !.metadata = m] :
            m \in {asked(Name("run"), Name("tries"), number("bool", 1, 1)),
                   asked(Name("run"), Name("tries"), two), asked(Name("run"), Name("host"), Name("x")),
                   asked(Name("run"), Name("host"), Wildcard), asked(Name("run"), Name("port"), Wildcard),
                   asked(Name("run"), Name("tries"), list(<<one>>)),
                   asked(Name("log"), Name("tries"), one), Name("run") :> [n \in {} |-> one]}}

-----------------------------------------------------------------------------
\* Digests of three bits: two that only their last bit tells apart, which
\* cannot be shrunk next to each other, and a third that shares one bit with
\* both.  Users type every prefix.
Bits(n) == [1 .. n -> {0, 1}]
ThreeDigests == {<<0, 0, 0>>, <<0, 0, 1>>, <<0, 1, 0>>}
ShortDigests == UNION {Bits(n) : n \in 1 .. 2}

HookedClasses == << <<"Hooked", "as hooked">> >>
Symmetry == Permutations(Threads) \cup Permutations(Members)
=============================================================================
