--------------------------- MODULE BodyComparison ---------------------------
(***************************************************************************)
(* How two response bodies are compared: read up to the limit and unpacked *)
(* by the client (readBounded and decodeBody of internal/httpx/client.go), *)
(* normalized (Normalize of internal/fingerprint/normalize.go) and, where  *)
(* they differ, shown field by field (analyzeEvidence of                   *)
(* internal/engine/result.go).  NormalForm has the algorithms; here they   *)
(* are put together in the code's order and held against a definition of   *)
(* what a body says that knows nothing of them.                            *)
(*                                                                         *)
(* A document is a text, or a JSON tree and what stands after it: nothing, *)
(* a stray closing bracket, or more.  A response holds a document packed   *)
(* in some way, and claims a Content-Encoding.                             *)
(*                                                                         *)
(* A definition named X_Y is X with the fault Y seeded: no specification   *)
(* uses it; it shows which property notices that fault.                    *)
(***************************************************************************)
EXTENDS NormalForm, BodyRead

CONSTANT Cases      \* the inputs: sets of responses with sets of path lists

Documents ==
    [form : {"text"}, text : STRING]
    \cup [form : {"doc"}, tree : Nodes, after : {"nothing", "bracket", "more"}]
Packings == {"plain", "gzip", "zlib", "flate"}

ASSUME CasesAssumption ==
    \A c \in Cases :
        /\ c.responses \subseteq Responses(Documents, Packings, STRING)
        /\ c.paths \subseteq Seq(Seq(Tokens))

VARIABLES
    response,   \* the two responses
    paths,      \* the ignore paths
    pc,         \* the next phase, or how the comparison ended
    bytes,      \* what the client keeps of each body
    next,       \* the next ignore path to apply
    body,       \* NormalizedBody of each, while it is made
    same,       \* the canonical forms are equal
    fields,     \* DifferingFields
    evidence    \* EvidenceFields of each

vars == <<response, paths, pc, bytes, next, body, same, fields, evidence>>

Sides == {"A", "B"}
Both(Op(_)) == [s \in Sides |-> Op(s)]

NoBytes == [doc |-> [form |-> "none"], packing |-> "plain", len |-> 0]
NoBody == [isJSON |-> FALSE, raw |-> NoBytes]

Init ==
    /\ \E c \in Cases :
          /\ response \in [Sides -> c.responses]
          /\ paths \in c.paths
    /\ pc = "receive"
    /\ bytes = Both(LAMBDA s : NoBytes)
    /\ next = 1
    /\ body = Both(LAMBDA s : NoBody)
    /\ same = FALSE
    /\ fields = {}
    /\ evidence = Both(LAMBDA s : {})

-----------------------------------------------------------------------------
(* The client.                                                             *)

Receive ==
    /\ pc = "receive"
    /\ IF \E s \in Sides : Oversize(response[s])
       THEN pc' = "oversize" /\ UNCHANGED bytes
       ELSE pc' = "compile" /\ bytes' = Both(LAMBDA s : Kept(response[s]))
    /\ UNCHANGED <<response, paths, next, body, same, fields, evidence>>

-----------------------------------------------------------------------------
(* Normalize.                                                              *)

Compile ==
    /\ pc = "compile"
    /\ pc' = IF \A i \in DOMAIN paths : WellFormed(paths[i])
             THEN "parse" ELSE "rejected"
    /\ UNCHANGED <<response, paths, bytes, next, body, same, fields, evidence>>

Parses(b) ==
    /\ b.packing = "plain"
    /\ b.doc.form = "doc"
    /\ IsObj(b.doc.tree) \/ IsArr(b.doc.tree)
    /\ b.doc.after # "more"     \* dec.More() is FALSE at a closing bracket

Parse ==
    /\ pc = "parse"
    /\ body' = Both(LAMBDA s :
                       IF Parses(bytes[s])
                       THEN [isJSON |-> TRUE, tree |-> bytes[s].doc.tree]
                       ELSE [isJSON |-> FALSE, raw |-> bytes[s]])
    /\ pc' = "ignore"
    /\ UNCHANGED <<response, paths, bytes, next, same, fields, evidence>>

OnTree(b, Op(_)) == IF b.isJSON THEN [b EXCEPT !.tree = Op(@)] ELSE b

Ignore ==
    /\ pc = "ignore" /\ next <= Len(paths)
    /\ LET segs == CompilePattern(paths[next])
       IN  body' = Both(LAMBDA s :
                      OnTree(body[s], LAMBDA t : ApplyIgnore[t][segs]))
    /\ next' = next + 1
    /\ UNCHANGED <<response, paths, pc, bytes, same, fields, evidence>>

PrepareBodies ==
    /\ pc = "ignore" /\ next > Len(paths)
    /\ body' = Both(LAMBDA s : OnTree(body[s], LAMBDA t : Prepare[t]))
    /\ pc' = "compare"
    /\ UNCHANGED <<response, paths, bytes, next, same, fields, evidence>>

\* collect and analyzeEvidence.
Compare ==
    /\ pc = "compare"
    /\ same' = (body["A"] = body["B"])
    /\ fields' = IF body["A"].isJSON /\ body["B"].isJSON
                 THEN {Read(p) : p \in DiffWalk[body["A"].tree][body["B"].tree]}
                 ELSE {}
    /\ evidence' = Both(LAMBDA s :
                      {e \in {<<p, ValueAt[body[s].tree][p]>> : p \in fields'} :
                          e[2] # Absent})
    /\ pc' = "done"
    /\ UNCHANGED <<response, paths, bytes, next, body>>

Ended == pc \in {"done", "oversize", "rejected"} /\ UNCHANGED vars

Next ==
    \/ Receive \/ Compile \/ Parse \/ Ignore \/ PrepareBodies \/ Compare
    \/ Ended

Spec == Init /\ [][Next]_vars

-----------------------------------------------------------------------------
(* What a body says, by definition: the set of its facts, each a place in  *)
(* the tree and what stands there.                                         *)

\* What stands at a node, without what is below it.
Label(n) == IF IsNum(n) THEN n ELSE [kind |-> n.kind]

ContentBehind(step, content) == {<< <<step>> \o c[1], c[2]>> : c \in content}

Content[n \in Nodes] ==
    {<< <<>>, Label(n)>>}
    \cup UNION {ContentBehind(s, Content[Child(n, s)]) : s \in StepsOf(n)}

Fact(label) ==
    IF IsNum(label) THEN [kind |-> "num", value |-> Value(label.lit)] ELSE label

\* All the indexes of a token, as the reader of a path takes them.
Reads(tok) ==
    KeySegment(tok.name)
    \o Appended([i \in DOMAIN tok.indexes |-> IndexSegment(tok.indexes[i])])

Fits(seg, step) ==
    IF seg.isArray
    THEN step.key = NoKey /\ step.index > 0 /\ seg.index \in {Wildcard, step.index - 1}
    ELSE step = At(seg.key, 0)

Matches(segs, place) ==
    Len(segs) = Len(place) /\ \A i \in DOMAIN place : Fits(segs[i], place[i])

Ignored(place) ==
    \E i \in DOMAIN paths :
        Matches(Appended([j \in DOMAIN paths[i] |-> Reads(paths[i][j])]), place)

\* Ignored keys are gone with all below them, an ignored element is null.
Gone(place) ==
    \E i \in DOMAIN place :
        \/ place[i].index = 0 /\ place[i].key \in Volatile
        \/ Ignored(SubSeq(place, 1, i)) /\ (i < Len(place) \/ place[i].index = 0)

Facts(tree) ==
    {<<c[1], IF Ignored(c[1]) THEN Null ELSE Fact(c[2])>> :
        c \in {x \in Content[tree] : ~Gone(x[1])}}

IsDocument(doc) ==
    /\ doc.form = "doc"
    /\ doc.after = "nothing"
    /\ IsObj(doc.tree) \/ IsArr(doc.tree)

\* A body that is not one JSON document says its bytes.
Says(r) ==
    IF Whole(r).packing = "plain" /\ IsDocument(r.doc)
    THEN Facts(r.doc.tree) ELSE {<< <<>>, [kind |-> "bytes", bytes |-> Whole(r)]>>}

-----------------------------------------------------------------------------
(* Properties.                                                             *)

\* The types, and that json.Marshal accepts every literal Normalize rewrote:
\* with one it refuses, the body would silently be compared as raw bytes.
TypeOK ==
    /\ pc \in {"receive", "compile", "parse", "ignore", "compare", "done",
               "oversize", "rejected"}
    /\ next \in 1..(Len(paths) + 1)
    /\ same \in BOOLEAN
    /\ \A s \in Sides : body[s].isJSON => body[s].tree \in Nodes

ContentOf(r) == IF r.doc.form = "doc" THEN Content[r.doc.tree] ELSE {}

\* A number longer, or with a larger exponent, than canonicalNumber rewrites.
SomeNumberIsCapped ==
    \E s \in Sides : \E c \in ContentOf(response[s]) :
        IsNum(c[2]) /\ Verbatim(c[2].lit)
\* A path that names an element of an element, $.m[0][1].
SomePathIsShortened ==
    \E i \in DOMAIN paths : \E j \in DOMAIN paths[i] : Len(paths[i][j].indexes) > 1
\* A bracket behind the document, which dec.More() takes for its end.
SomeBracketIsStray ==
    \E s \in Sides : response[s].doc.form = "doc" /\ response[s].doc.after = "bracket"

SaySame == Says(response["A"]) = Says(response["B"])

\* A body is compared whole and unpacked, or the attempt is oversize: a body
\* of just the limit is whole, one byte more is not, whichever of the packed
\* and the unpacked bytes are more.
OnlyWholeBodies ==
    \A s \in Sides :
        /\ pc = "done" => bytes[s] = Whole(response[s])
        /\ pc = "oversize" =>
              \E t \in Sides : \/ Wire(response[t]).len > MaxBody
                              \/ Whole(response[t]).len > MaxBody

\* Bodies that say the same outside the ignored places have one form, however
\* their numbers are spelled and their members are ordered: no false FAIL.
\* Numbers beyond the caps are compared by their spelling; of several indexes
\* in a row only the first counts, so $.m[0][1].ts does not ignore what it names.
NoSpuriousDifference ==
    pc = "done" /\ SaySame /\ ~SomeNumberIsCapped /\ ~SomePathIsShortened => same

\* Bodies with one form say the same outside the ignored places, whichever
\* paths are ignored and in whichever order: no FAIL is lost.  $.m[0][1]
\* ignores all of $.m[0], and a stray closing bracket is not seen.
NoHiddenDifference ==
    pc = "done" /\ same /\ ~SomePathIsShortened /\ ~SomeBracketIsStray => SaySame

\* What two documents say at a place.  Here a null is no fact: diffWalk cannot
\* tell null from missing.
SolidAt(r, p) == {f[2] : f \in {g \in Says(r) : g[1] = p /\ g[2] # Null}}
\* Where the facts of two documents differ, nearest to the root.
Differing ==
    LET all == {p \in {f[1] : f \in Says(response["A"]) \cup Says(response["B"])} :
                   SolidAt(response["A"], p) # SolidAt(response["B"], p)}
    IN  {p \in all : \A i \in 0..(Len(p) - 1) : SubSeq(p, 1, i) \notin all}

\* The fields named as differing are exactly the places where the documents
\* differ.  A FAIL that names no field is one of null against missing.
FieldsAreWhereBodiesDiffer ==
    /\ pc = "done" /\ (\A s \in Sides : body[s].isJSON)
    /\ ~SomeNumberIsCapped /\ ~SomePathIsShortened /\ ~SomeBracketIsStray
    => fields = {Read(p) : p \in Differing}

ShownAt(s, p) == {e \in evidence[s] : e[1] = p}
StepsIn(r) == UNION {{c[1][i] : i \in DOMAIN c[1]} : c \in ContentOf(r)}

\* The values shown for a field that differs are different values: the path
\* written for the field is read back as the same place, unless a key of the
\* documents holds a dot or a bracket, or is empty.
EvidenceShowsDifference ==
    (\A s \in Sides : \A step \in StepsIn(response[s]) :
        step.index = 0 => Written[step.key] = <<step>>)
    => \A p \in fields : ShownAt("A", p) # ShownAt("B", p)

=============================================================================
