----------------------------- MODULE NormalForm -----------------------------
(***************************************************************************)
(* The canonical form of a response body and the paths at which two bodies *)
(* differ (internal/fingerprint: normalize.go and json_diff.go).           *)
(*                                                                         *)
(* A JSON node is a record: null, a number literal, an object (a value or  *)
(* Absent for each key) or an array (a sequence).  Strings and Booleans    *)
(* are compared as they are, like a number that has its form.  The         *)
(* form of a number is in NumberForm.  The walks over a tree are recursive *)
(* functions of the nodes the decoder can build.                           *)
(*                                                                         *)
(* A definition named X_Y is X with the fault Y seeded: no specification   *)
(* uses it; it shows which property notices that fault.                    *)
(***************************************************************************)
EXTENDS NumberForm

CONSTANTS
    Keys,       \* the keys of objects
    MaxDepth,   \* how deep documents nest: encoding/json has a limit
    Volatile,   \* the keys that volatileKey recognizes
    Written     \* the steps that a key reads back as from a diff path

NoKey == ""

\* One step down a tree: to a member, with index 0, or to an element, with no
\* key.  Indexes count from 1.
At(key, i) == [key |-> key, index |-> i]
Steps == [key : Keys \cup {NoKey}, index : Nat]

ASSUME DepthAssumption == MaxDepth \in Nat
\* A key is read back as keys and elements, never as a key without a name.
ASSUME WrittenAssumption ==
    /\ Written \in [Keys -> Seq(Steps)]
    /\ \A k \in Keys : \A i \in DOMAIN Written[k] : Written[k][i] # At(NoKey, 0)

Absent == [kind |-> "absent"]
Null == [kind |-> "null"]
Num(l) == [kind |-> "num", lit |-> l]
Obj(members) == [kind |-> "obj", members |-> members]
Arr(elems) == [kind |-> "arr", elems |-> elems]

IsObj(n) == n.kind = "obj"
IsArr(n) == n.kind = "arr"
IsNum(n) == n.kind = "num"

Scalars == {Null} \cup [kind : {"num"}, lit : JSONNumbers]
Level[d \in 0..MaxDepth] ==
    IF d = 0 THEN Scalars
    ELSE Scalars
         \cup [kind : {"obj"}, members : [Keys -> Level[d - 1] \cup {Absent}]]
         \cup [kind : {"arr"}, elems : Seq(Level[d - 1])]
Nodes == Level[MaxDepth]

\* The steps that lead from a node to its children.
StepsOf(n) ==
    IF IsObj(n) THEN {At(k, 0) : k \in {x \in Keys : n.members[x] # Absent}}
    ELSE IF IsArr(n) THEN {At(NoKey, i) : i \in DOMAIN n.elems}
    ELSE {}
Child(n, step) ==
    IF IsObj(n) THEN n.members[step.key] ELSE n.elems[step.index]

-----------------------------------------------------------------------------
(* Ignore paths.  A path is the sequence of its tokens between dots, each  *)
(* a name and the indexes in brackets behind it; a compiled segment is a   *)
(* key or one index.                                                       *)

Wildcard == -1
Empty == -2     \* []
Bad == -3       \* not a number, or no closing bracket

Tokens == [name : Keys \cup {NoKey}, indexes : Seq(Int)]
Segment == [isArray : {FALSE}, key : Keys, index : {0}]
           \cup [isArray : {TRUE}, key : {NoKey}, index : Int]
Patterns == Seq(Segment) \ {<<>>}

KeySegment(name) ==
    IF name = NoKey THEN <<>> ELSE <<[isArray |-> FALSE, key |-> name, index |-> 0]>>
IndexSegment(i) ==
    IF i = Empty THEN <<>> ELSE <<[isArray |-> TRUE, key |-> NoKey, index |-> i]>>

\* Of several indexes behind one name the first is kept.
Segments(tok) ==
    KeySegment(tok.name)
    \o (IF tok.indexes = <<>> THEN <<>> ELSE IndexSegment(tok.indexes[1]))

\* The parts, appended one after another.
Appended(parts) ==
    LET upTo[i \in 0..Len(parts)] == IF i = 0 THEN <<>> ELSE upTo[i - 1] \o parts[i]
    IN  upTo[Len(parts)]

CompilePattern(path) == Appended([i \in DOMAIN path |-> Segments(path[i])])

\* compilePattern returns no error.
WellFormed(path) ==
    /\ \A i \in DOMAIN path :
          /\ path[i].name # NoKey \/ path[i].indexes # <<>>
          /\ path[i].indexes # <<>> => path[i].indexes[1] # Bad
    /\ CompilePattern(path) # <<>>

\* Indexes of a path count from 0.
Hits_FromOne(seg, i) == seg.index \in {Wildcard, i}
Hits(seg, i) == seg.index \in {Wildcard, i - 1}

\* A matched key is deleted, a matched element becomes null.
ApplyIgnore[node \in Nodes] == [segs \in Patterns |->
    LET seg == Head(segs)
        rest == Tail(segs)
        Under(child, gone) == IF rest = <<>> THEN gone ELSE ApplyIgnore[child][rest]
    IN  IF IsObj(node) /\ ~seg.isArray THEN
            Obj([k \in Keys |->
                    IF k = seg.key /\ node.members[k] # Absent
                    THEN Under(node.members[k], Absent) ELSE node.members[k]])
        ELSE IF IsArr(node) /\ seg.isArray THEN
            Arr([i \in DOMAIN node.elems |->
                    IF Hits(seg, i)
                    THEN Under(node.elems[i], Null) ELSE node.elems[i]])
        ELSE node]

\* Volatile keys go at any depth, numbers get their form.
Prepare[node \in Nodes] ==
    CASE IsObj(node) -> Obj([k \in Keys |->
                                IF k \in Volatile \/ node.members[k] = Absent
                                THEN Absent ELSE Prepare[node.members[k]]])
      [] IsArr(node) -> Arr([i \in DOMAIN node.elems |-> Prepare[node.elems[i]]])
      [] IsNum(node) -> Num(CanonicalNumber(node.lit))
      [] OTHER -> node

-----------------------------------------------------------------------------
(* DiffPaths and ValueAt.                                                  *)

\* What a Go map or the code's bounds check yields for what is not there: nil.
ChildOrNil(n, step) == IF step \in StepsOf(n) THEN Child(n, step) ELSE Null

Branches_OfTheShorter(a, b) ==
    IF IsArr(a) THEN StepsOf(a) \cap StepsOf(b) ELSE StepsOf(a) \cup StepsOf(b)
Branches(a, b) == StepsOf(a) \cup StepsOf(b)

JsonEqual(a, b) ==
    IF IsNum(a) /\ IsNum(b)
    THEN CanonicalNumber(a.lit) = CanonicalNumber(b.lit)
    ELSE a = b

Behind(step, places) == {<<step>> \o p : p \in places}

DiffWalk[a \in Nodes] == [b \in Nodes |->
    IF (IsObj(a) /\ IsObj(b)) \/ (IsArr(a) /\ IsArr(b)) THEN
        UNION {Behind(s, DiffWalk[ChildOrNil(a, s)][ChildOrNil(b, s)]) :
                  s \in Branches(a, b)}
    ELSE IF JsonEqual(a, b) THEN {} ELSE {<<>>}]

\* A path is written with dots and brackets: a key that holds one reads back
\* as other steps than the one it was.
Read(place) ==
    Appended([i \in DOMAIN place |->
                 IF place[i].index = 0 THEN Written[place[i].key] ELSE <<place[i]>>])

Below_FirstElement(node, step) ==
    IF step.key # NoKey /\ IsObj(node) THEN node.members[step.key]
    ELSE IF step.key = NoKey /\ IsArr(node) /\ step.index \in DOMAIN node.elems
    THEN node.elems[1]
    ELSE Absent

\* One step down; nothing is below what is absent.
Below(node, step) ==
    IF step.key # NoKey /\ IsObj(node) THEN node.members[step.key]
    ELSE IF step.key = NoKey /\ IsArr(node) /\ step.index \in DOMAIN node.elems
    THEN node.elems[step.index]
    ELSE Absent

ValueAt[node \in Nodes] == [path \in Seq(Steps) |->
    IF path = <<>> THEN node
    ELSE LET child == Below(node, Head(path))
         IN  IF child = Absent THEN Absent ELSE ValueAt[child][Tail(path)]]

=============================================================================
