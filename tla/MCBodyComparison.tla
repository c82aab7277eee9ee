-------------------------- MODULE MCBodyComparison --------------------------
(***************************************************************************)
(* The inputs BodyComparison is checked on: documents with members, with   *)
(* elements, with numbers, and responses in every packing.                 *)
(***************************************************************************)
EXTENDS BodyComparison

MCKeys == {"a", "b", "a.b", "trace_id", ""}
\* The only key with a dot, and the key without a name.
MCWritten == [k \in MCKeys |-> CASE k = "a.b" -> <<At("a", 0), At("b", 0)>>
                                 [] k = ""    -> <<>>
                                 [] OTHER     -> <<At(k, 0)>>]

One == Num(Lit(FALSE, <<1>>, <<>>, <<>>))
OneAgain == Num(Lit(FALSE, <<1>>, <<0>>, <<>>))
Two == Num(Lit(FALSE, <<2>>, <<>>, <<>>))

Member0 == Obj([x \in Keys |-> Absent])
Member1(k, v) == Obj([x \in Keys |-> IF x = k THEN v ELSE Absent])
Member2(k, v, l, w) ==
    Obj([x \in Keys |-> IF x = k THEN v ELSE IF x = l THEN w ELSE Absent])

Plainly(tree, after) ==
    [doc |-> [form |-> "doc", tree |-> tree, after |-> after],
     size |-> 1, encoding |-> "", packing |-> "plain", packed |-> 1]
PlainBodies(trees) == {Plainly(t, "nothing") : t \in trees}

Token(name, indexes) == [name |-> name, indexes |-> indexes]
Name(n) == Token(n, <<>>)

-----------------------------------------------------------------------------

Leaves == {Null, One, OneAgain, Two}
Values ==
    Leaves \cup {Member1("b", v) : v \in Leaves}
    \cup {Arr(<<>>), Arr(<<Null>>)} \cup {Arr(<<v, w>>) : v, w \in {Null, One, Two}}
    \cup {Arr(<<Member1("b", v), Member1("b", w)>>) : v, w \in {Null, One}}

Members ==
    {Member0, Member2("a", Arr(<<Arr(<<One, Two>>)>>), "b", One)}
    \cup {Member1("a", v) : v \in Values}
    \cup {Member2("a", v, "trace_id", w) : v, w \in {One, Two}}
    \cup {Member1(k, v) : k \in {"a.b", ""}, v \in {One, Two}}
    \cup {Member1("a", Arr(<<Arr(<<Null, Member1("b", v)>>)>>)) : v \in {One, Two}}
    \cup {Member2("a", Member1("b", One), "a.b", v) : v \in {One, Two}}

MemberPaths ==
    {<<>>, <<<<Name("a")>>>>, <<<<Name("a"), Name("b")>>>>,
     <<<<Token("a", <<1>>)>>>>, <<<<Token("a", <<Wildcard>>)>>>>,
     <<<<Token("a", <<Wildcard>>), Name("b")>>, <<Token("a", <<0>>)>>>>,
     <<<<Token("a", <<0, 1>>)>>>>, <<<<Token("a", <<0, 1>>), Name("b")>>>>,
     <<<<Token("a", <<Empty>>), Name("b")>>>>,
     <<<<Name("trace_id")>>, <<Name("b")>>>>}

Elements == Leaves \cup {Member1("b", One), Member1("b", Two), Arr(<<One>>),
                         Arr(<<One, Two>>)}
Arrays == {Arr(<<v>>) : v \in Elements} \cup {Arr(<<v, w>>) : v, w \in Elements}

ArrayPaths ==
    {<<>>, <<<<Token("", <<1>>)>>>>, <<<<Token("", <<Wildcard>>), Name("b")>>>>,
     <<<<Token("", <<0, 1>>)>>>>, <<<<Token("", <<0>>), Token("", <<1>>)>>>>}

\* Spellings: 0, 1 or 10, with a fraction or without, and an exponent, which
\* has a sign or none and one digit or two.
Spelled == {Exp("e", "none", <<0>>), Exp("e", "none", <<1>>), Exp("E", "plus", <<1>>),
            Exp("e", "minus", <<0, 1>>), Exp("e", "none", <<2>>)}
Literals4 ==
    {Lit(n, i, f, e) : n \in BOOLEAN, i \in {<<0>>, <<1>>, <<1, 0>>},
                       f \in {<<>>, <<0>>, <<5>>, <<0, 5>>},
                       e \in {<<>>} \cup {<<x>> : x \in Spelled}}
Numbers == {Arr(<<Num(l)>>) : l \in Literals4}

Malformed ==
    {<<>>, <<Name("a"), Name("")>>, <<Token("", <<Empty>>)>>,
     <<Token("a", <<Bad>>)>>}

\* Bodies about as large as the limit, packed and plain, with a claim that is
\* true, false, or unknown to the client.
Text(t) == [form |-> "text", text |-> t]
Packed ==
    [doc : {Text("x"), Plainly(Arr(<<One>>), "nothing").doc},
     size : {MaxBody, MaxBody + 1},
     encoding : {"", "gzip", "X-GZIP", "deflate", "br"},
     packing : {"plain", "gzip", "zlib", "flate"},
     packed : {MaxBody, MaxBody + 1}]

\* Texts and documents with something behind them.
Unusual ==
    {Plainly(t, after) : t \in {Arr(<<One>>), Arr(<<OneAgain>>), One},
                         after \in {"nothing", "bracket", "more"}}
    \cup {[Plainly(One, "nothing") EXCEPT !.doc = Text(t)] : t \in {"x", "y"}}

MCCases ==
    {[responses |-> PlainBodies(Members), paths |-> MemberPaths],
     [responses |-> PlainBodies(Arrays), paths |-> ArrayPaths],
     [responses |-> PlainBodies(Numbers), paths |-> {<<>>}],
     [responses |-> PlainBodies({Arr(<<One>>)}),
      paths |-> {<<<<Name("b")>>, p>> : p \in Malformed}],
     [responses |-> {r \in Packed : r.packing = "plain" => r.packed = MaxBody},
      paths |-> {<<>>}],
     [responses |-> Unusual, paths |-> {<<>>}]}

=============================================================================
