------------------------ MODULE BodyComparisonProofs ------------------------
(***************************************************************************)
(* What is proved about the comparison of two bodies (BodyComparison), for *)
(* all documents of every depth, all ignore paths and all limits.          *)
(*                                                                         *)
(* Each walk over a tree is first said without its recursion: PrepareDef,  *)
(* ApplyIgnoreDef, ContentDef, DiffWalkDef and ValueAtDef give what one    *)
(* step of it computes, and NodeInduction carries a fact from the children *)
(* of a node to the node, as a set of nodes.  From these follows what each *)
(* walk does to what a tree says: StruckContent for one ignore path,       *)
(* PreparedContent for volatile keys and numbers, WalkFinds and WalkValues *)
(* for the paths that differ.  SameContent: a tree is what it says.        *)
(*                                                                         *)
(* Left and Seen are what the ignore paths leave of a document, defined    *)
(* from the document alone.  The invariant Inv holds every body against    *)
(* them after each path; the properties follow from it, because what a     *)
(* body says by definition (Facts) is Seen with numbers for literals       *)
(* (FactsAre), and its form is Seen with canonical literals.               *)
(***************************************************************************)
EXTENDS BodyComparison, BodyProofs

-----------------------------------------------------------------------------
(* Induction, and the documents of each depth.                             *)

LEMMA DepthInduction ==
    ASSUME NEW S, 0 \in S, \A d \in 0..MaxDepth : d + 1 \in 0..MaxDepth /\ d \in S => d + 1 \in S
    PROVE  \A d \in 0..MaxDepth : d \in S
  <1> DEFINE T == S \cup {n \in Nat : n > MaxDepth}
  <1>1. MaxDepth \in Nat
    BY DepthAssumption
  <1>2. \A n \in Nat : n \in T => n + 1 \in T
    BY <1>1
  <1>3. Nat \subseteq T
    BY <1>2, NatSets
  <1> QED
    BY <1>1, <1>3

\* The nodes above those of a level.
Above(L) ==
    Scalars
    \cup [kind : {"obj"}, members : [Keys -> L \cup {Absent}]]
    \cup [kind : {"arr"}, elems : Seq(L)]

LEMMA LevelDef ==
    /\ Level[0] = Scalars
    /\ \A d \in 0..MaxDepth : d + 1 \in 0..MaxDepth => Level[d + 1] = Above(Level[d])
  <1> DEFINE IsLevel(f, n) == f = [d \in 0..n |-> IF d = 0 THEN Scalars ELSE Above(f[d - 1])]
             S == {n \in Nat : \E f : IsLevel(f, n)}
  <1>1. 0 \in S
    <2> DEFINE f == [d \in 0..0 |-> Scalars]
    <2>1. IsLevel(f, 0)
      OBVIOUS
    <2> QED
      BY <2>1
  <1>2. ASSUME NEW n \in Nat, n \in S
        PROVE  n + 1 \in S
    <2>1. PICK f : IsLevel(f, n)
      BY <1>2
    <2> DEFINE g == [d \in 0..(n + 1) |-> IF d = 0 THEN Scalars ELSE Above(f[d - 1])]
    <2>2. \A d \in 0..n : g[d] = f[d]
      BY <2>1
    <2>3. \A d \in 0..(n + 1) : d # 0 => d - 1 \in 0..n
      OBVIOUS
    <2> HIDE DEF g
    <2>4. \A d \in 0..(n + 1) : d # 0 => g[d - 1] = f[d - 1]
      BY <2>2, <2>3
    <2>5. IsLevel(g, n + 1)
      BY <2>4 DEF g
    <2> QED
      BY <2>5
  <1>3. MaxDepth \in S
    BY <1>1, <1>2, NatSets, DepthAssumption
  <1>4. IsLevel(Level, MaxDepth)
    BY <1>3 DEF Level, Above
  <1>5. MaxDepth \in Nat
    BY DepthAssumption
  <1>6. Level[0] = Scalars
    BY <1>4, <1>5
  <1>7. ASSUME NEW d \in 0..MaxDepth, d + 1 \in 0..MaxDepth
        PROVE  Level[d + 1] = Above(Level[d])
    <2>1. d + 1 # 0 /\ d + 1 - 1 = d
      OBVIOUS
    <2> QED
      BY <1>4, <1>7, <2>1
  <1> QED
    BY <1>6, <1>7

LEMMA Shapes ==
    ASSUME NEW d \in 0..MaxDepth, NEW n \in Level[d]
    PROVE  \/ n \in Scalars
           \/ /\ d # 0 /\ d - 1 \in 0..MaxDepth
              /\ n = Obj(n.members) /\ n.members \in [Keys -> Level[d - 1] \cup {Absent}]
           \/ /\ d # 0 /\ d - 1 \in 0..MaxDepth
              /\ n = Arr(n.elems) /\ n.elems \in Seq(Level[d - 1])
  <1>1. MaxDepth \in Nat
    BY DepthAssumption
  <1>2. CASE d = 0
    BY <1>2, LevelDef
  <1>3. CASE d # 0
    <2>1. d - 1 \in 0..MaxDepth /\ d - 1 + 1 = d
      BY <1>1, <1>3
    <2>2. n \in Above(Level[d - 1])
      BY <2>1, LevelDef
    <2> QED
      BY <1>3, <2>1, <2>2 DEF Above, Obj, Arr
  <1> QED
    BY <1>2, <1>3

LEMMA Kinds ==
    /\ \A n \in Scalars : /\ ~IsObj(n) /\ ~IsArr(n) /\ n # Absent
                          /\ IF IsNum(n) THEN n = Num(n.lit) /\ n.lit \in JSONNumbers
                             ELSE n = Null
    /\ \A m : /\ IsObj(Obj(m)) /\ ~IsArr(Obj(m)) /\ ~IsNum(Obj(m)) /\ Obj(m) # Absent
              /\ Obj(m).members = m
    /\ \A e : /\ IsArr(Arr(e)) /\ ~IsObj(Arr(e)) /\ ~IsNum(Arr(e)) /\ Arr(e) # Absent
              /\ Arr(e).elems = e
    /\ \A l : IsNum(Num(l)) /\ Num(l).lit = l /\ Num(l) # Null
    /\ \A l \in JSONNumbers : Num(l) \in Scalars
    /\ Null \in Scalars /\ ~IsNum(Null)
  BY DEF Scalars, IsObj, IsArr, IsNum, Obj, Arr, Num, Null, Absent

LEMMA LevelUp ==
    ASSUME NEW d \in 0..MaxDepth, d + 1 \in 0..MaxDepth
    PROVE  /\ Scalars \subseteq Level[d + 1]
           /\ \A m \in [Keys -> Level[d] \cup {Absent}] : Obj(m) \in Level[d + 1]
           /\ \A e \in Seq(Level[d]) : Arr(e) \in Level[d + 1]
  BY LevelDef DEF Above, Obj, Arr

LEMMA LevelsGrow ==
    /\ \A d \in 0..MaxDepth : d + 1 \in 0..MaxDepth => Level[d] \subseteq Level[d + 1]
    /\ \A d \in 0..MaxDepth : Scalars \subseteq Level[d] /\ Level[d] \subseteq Nodes
    /\ \A d \in 0..MaxDepth : Absent \notin Level[d]
  <1>1. MaxDepth \in Nat
    BY DepthAssumption
  <1> DEFINE S == {d \in 0..MaxDepth : d + 1 \in 0..MaxDepth => Level[d] \subseteq Level[d + 1]}
  <1>2. \A d \in 0..MaxDepth : d \in S
    <2>1. 0 \in S
      <3>1. 0 + 1 \in 0..MaxDepth => Scalars \subseteq Level[0 + 1]
        BY <1>1, LevelUp
      <3> QED
        BY <1>1, <3>1, LevelDef
    <2>2. ASSUME NEW d \in 0..MaxDepth, d + 1 \in 0..MaxDepth, d \in S
          PROVE  d + 1 \in S
      <3> SUFFICES ASSUME d + 1 + 1 \in 0..MaxDepth, NEW n \in Level[d + 1]
                   PROVE  n \in Level[d + 1 + 1]
        BY <2>2
      <3>1. Level[d] \subseteq Level[d + 1] /\ d + 1 - 1 = d
        BY <2>2
      <3>2. /\ Scalars \subseteq Level[d + 1 + 1]
            /\ \A m \in [Keys -> Level[d + 1] \cup {Absent}] : Obj(m) \in Level[d + 1 + 1]
            /\ \A e \in Seq(Level[d + 1]) : Arr(e) \in Level[d + 1 + 1]
        BY <2>2, LevelUp
      <3>3. \/ n \in Scalars
            \/ n = Obj(n.members) /\ n.members \in [Keys -> Level[d] \cup {Absent}]
            \/ n = Arr(n.elems) /\ n.elems \in Seq(Level[d])
        BY <2>2, <3>1, Shapes
      <3>4. CASE n = Obj(n.members) /\ n.members \in [Keys -> Level[d] \cup {Absent}]
        BY <3>1, <3>2, <3>4
      <3>5. CASE n = Arr(n.elems) /\ n.elems \in Seq(Level[d])
        <4>1. n.elems \in Seq(Level[d + 1])
          BY <3>1, <3>5
        <4> QED
          BY <3>2, <3>5, <4>1
      <3> QED
        BY <3>2, <3>3, <3>4, <3>5
    <2> HIDE DEF S
    <2> QED
      BY <2>1, <2>2, DepthInduction
  <1>3. \A d \in 0..MaxDepth : Level[MaxDepth - d] \subseteq Nodes
    <2> DEFINE T == {d \in 0..MaxDepth : Level[MaxDepth - d] \subseteq Nodes}
    <2>1. 0 \in T
      BY <1>1 DEF Nodes
    <2>2. ASSUME NEW d \in 0..MaxDepth, d + 1 \in 0..MaxDepth, d \in T
          PROVE  d + 1 \in T
      <3>1. MaxDepth - (d + 1) \in 0..MaxDepth /\ MaxDepth - (d + 1) + 1 = MaxDepth - d
        BY <1>1, <2>2
      <3>2. MaxDepth - d \in 0..MaxDepth
        BY <1>1
      <3> QED
        BY <1>2, <2>2, <3>1, <3>2
    <2> HIDE DEF T
    <2>3. \A d \in 0..MaxDepth : d \in T
      BY <2>1, <2>2, DepthInduction
    <2> QED
      BY <2>3 DEF T
  <1>4. ASSUME NEW d \in 0..MaxDepth
        PROVE  Level[d] \subseteq Nodes
    <2>1. MaxDepth - d \in 0..MaxDepth /\ MaxDepth - (MaxDepth - d) = d
      BY <1>1
    <2> QED
      BY <1>3, <2>1
  <1>5. ASSUME NEW d \in 0..MaxDepth
        PROVE  Scalars \subseteq Level[d]
    <2>1. CASE d = 0
      BY <2>1, LevelDef
    <2>2. CASE d # 0
      <3>1. d - 1 \in 0..MaxDepth /\ d - 1 + 1 = d
        BY <1>1, <2>2
      <3> QED
        BY <3>1, LevelUp
    <2> QED
      BY <2>1, <2>2
  <1>6. ASSUME NEW d \in 0..MaxDepth
        PROVE  Absent \notin Level[d]
    <2> SUFFICES ASSUME NEW n \in Level[d]
                 PROVE  n # Absent
      OBVIOUS
    <2>1. \/ n \in Scalars
          \/ n = Obj(n.members)
          \/ n = Arr(n.elems)
      BY Shapes
    <2> QED
      BY <2>1, Kinds
  <1> QED
    BY <1>2, <1>4, <1>5, <1>6

-----------------------------------------------------------------------------
(* The walks.  Each is a function of the nodes that is defined by itself   *)
(* at the children of a node: such functions exist for level after level,  *)
(* so that each walk does what its definition says.                        *)

LEMMA ChildrenBelow ==
    ASSUME NEW d \in 0..MaxDepth, d + 1 \in 0..MaxDepth, NEW n \in Level[d + 1]
    PROVE  /\ IsObj(n) => /\ n = Obj(n.members)
                          /\ n.members \in [Keys -> Level[d] \cup {Absent}]
           /\ IsArr(n) => /\ n = Arr(n.elems) /\ n.elems \in Seq(Level[d])
                          /\ \A i \in DOMAIN n.elems : n.elems[i] \in Level[d]
           /\ ~IsObj(n) /\ ~IsArr(n) => n \in Scalars
  <1>1. d + 1 # 0 /\ d + 1 - 1 = d
    OBVIOUS
  <1>2. \/ n \in Scalars
        \/ n = Obj(n.members) /\ n.members \in [Keys -> Level[d] \cup {Absent}]
        \/ n = Arr(n.elems) /\ n.elems \in Seq(Level[d])
    BY <1>1, Shapes
  <1>3. \A e \in Seq(Level[d]) : \A i \in DOMAIN e : e[i] \in Level[d]
    OBVIOUS
  <1> QED
    BY <1>2, <1>3, Kinds

PreparedBy(f, node) ==
    CASE IsObj(node) -> Obj([k \in Keys |->
                                IF k \in Volatile \/ node.members[k] = Absent
                                THEN Absent ELSE f[node.members[k]]])
      [] IsArr(node) -> Arr([i \in DOMAIN node.elems |-> f[node.elems[i]]])
      [] IsNum(node) -> Num(CanonicalNumber(node.lit))
      [] OTHER -> node

LEMMA PrepareDef == \A n \in Nodes : Prepare[n] = PreparedBy(Prepare, n)
  <1> DEFINE Is(f, d) == f = [n \in Level[d] |-> PreparedBy(f, n)]
             S == {d \in 0..MaxDepth : \E f : Is(f, d)}
  <1>1. MaxDepth \in Nat
    BY DepthAssumption
  <1>2. \E f : Is(f, 0)
    <2> DEFINE f == [n \in Level[0] |-> PreparedBy(0, n)]
    <2>1. \A n \in Level[0] : PreparedBy(f, n) = PreparedBy(0, n)
      BY LevelDef, Kinds DEF PreparedBy
    <2> QED
      BY <2>1
  <1>3. ASSUME NEW d \in 0..MaxDepth, d + 1 \in 0..MaxDepth, \E f : Is(f, d)
        PROVE  \E f : Is(f, d + 1)
    <2>1. PICK f : Is(f, d)
      BY <1>3
    <2> DEFINE g == [n \in Level[d + 1] |-> PreparedBy(f, n)]
    <2>2. \A n \in Level[d] : g[n] = f[n]
      BY <1>3, <2>1, LevelsGrow
    <2> HIDE DEF g
    <2>3. ASSUME NEW n \in Level[d + 1]
          PROVE  PreparedBy(g, n) = PreparedBy(f, n)
      <3>1. CASE IsObj(n)
        <4>1. n.members \in [Keys -> Level[d] \cup {Absent}]
          BY <1>3, <3>1, ChildrenBelow
        <4>2. [k \in Keys |-> IF k \in Volatile \/ n.members[k] = Absent
                              THEN Absent ELSE g[n.members[k]]]
              = [k \in Keys |-> IF k \in Volatile \/ n.members[k] = Absent
                                THEN Absent ELSE f[n.members[k]]]
          BY <2>2, <4>1
        <4> QED
          BY <3>1, <4>2 DEF PreparedBy, IsObj, IsArr, IsNum
      <3>2. CASE IsArr(n)
        <4>1. ~IsObj(n) /\ \A i \in DOMAIN n.elems : n.elems[i] \in Level[d]
          BY <1>3, <3>2, ChildrenBelow, Kinds
        <4>2. [i \in DOMAIN n.elems |-> g[n.elems[i]]] = [i \in DOMAIN n.elems |-> f[n.elems[i]]]
          BY <2>2, <4>1
        <4> QED
          BY <3>2, <4>1, <4>2 DEF PreparedBy
      <3>3. CASE ~IsObj(n) /\ ~IsArr(n)
        BY <3>3 DEF PreparedBy
      <3> QED
        BY <3>1, <3>2, <3>3
    <2>4. Is(g, d + 1)
      BY <2>3 DEF g
    <2> QED
      BY <2>4
  <1> HIDE DEF Is
  <1>4. \A d \in 0..MaxDepth : d \in S
    <2>1. 0 \in S
      BY <1>1, <1>2
    <2>2. \A d \in 0..MaxDepth : d + 1 \in 0..MaxDepth /\ d \in S => d + 1 \in S
      BY <1>3
    <2> HIDE DEF S
    <2> QED
      BY <2>1, <2>2, DepthInduction
  <1>5. Prepare = CHOOSE f : Is(f, MaxDepth)
    BY DEF Prepare, PreparedBy, Nodes, Is
  <1>6. Is(Prepare, MaxDepth)
    BY <1>1, <1>4, <1>5
  <1> QED
    BY <1>6 DEF Is, Nodes

StruckBy(f, node, segs) ==
    LET seg == Head(segs)
        rest == Tail(segs)
        Under(child, gone) == IF rest = <<>> THEN gone ELSE f[child][rest]
    IN  IF IsObj(node) /\ ~seg.isArray THEN
            Obj([k \in Keys |->
                    IF k = seg.key /\ node.members[k] # Absent
                    THEN Under(node.members[k], Absent) ELSE node.members[k]])
        ELSE IF IsArr(node) /\ seg.isArray THEN
            Arr([i \in DOMAIN node.elems |->
                    IF Hits(seg, i)
                    THEN Under(node.elems[i], Null) ELSE node.elems[i]])
        ELSE node

LEMMA ApplyIgnoreDef ==
    \A n \in Nodes : \A segs \in Patterns :
        ApplyIgnore[n][segs] = StruckBy(ApplyIgnore, n, segs)
  <1> DEFINE Struck(f, n) == [segs \in Patterns |-> StruckBy(f, n, segs)]
             Is(f, d) == f = [n \in Level[d] |-> Struck(f, n)]
             S == {d \in 0..MaxDepth : \E f : Is(f, d)}
  <1>1. MaxDepth \in Nat
    BY DepthAssumption
  <1>2. \E f : Is(f, 0)
    <2> DEFINE f == [n \in Level[0] |-> Struck(0, n)]
    <2>1. ASSUME NEW n \in Level[0]
          PROVE  Struck(f, n) = Struck(0, n)
      <3>1. ~IsObj(n) /\ ~IsArr(n)
        BY LevelDef, Kinds
      <3> QED
        BY <3>1 DEF StruckBy
    <2> HIDE DEF Struck
    <2> QED
      BY <2>1
  <1>3. ASSUME NEW d \in 0..MaxDepth, d + 1 \in 0..MaxDepth, \E f : Is(f, d)
        PROVE  \E f : Is(f, d + 1)
    <2>1. PICK f : Is(f, d)
      BY <1>3
    <2> DEFINE g == [n \in Level[d + 1] |-> Struck(f, n)]
    <2>2. \A n \in Level[d] : g[n] = f[n]
      <3> HIDE DEF Struck
      <3> QED
        BY <1>3, <2>1, LevelsGrow
    <2> HIDE DEF g
    <2>3. ASSUME NEW n \in Level[d + 1], NEW segs \in Patterns
          PROVE  StruckBy(g, n, segs) = StruckBy(f, n, segs)
      <3> DEFINE seg == Head(segs)
                 rest == Tail(segs)
      <3>1. CASE IsObj(n)
        <4>1. n.members \in [Keys -> Level[d] \cup {Absent}]
          BY <1>3, <3>1, ChildrenBelow
        <4>2. \A k \in Keys : n.members[k] # Absent => g[n.members[k]] = f[n.members[k]]
          BY <2>2, <4>1
        <4> HIDE DEF seg, rest
        <4>3. [k \in Keys |->
                  IF k = seg.key /\ n.members[k] # Absent
                  THEN IF rest = <<>> THEN Absent ELSE g[n.members[k]][rest]
                  ELSE n.members[k]]
              = [k \in Keys |->
                  IF k = seg.key /\ n.members[k] # Absent
                  THEN IF rest = <<>> THEN Absent ELSE f[n.members[k]][rest]
                  ELSE n.members[k]]
          BY <4>2
        <4> QED
          BY <3>1, <4>3 DEF StruckBy, IsObj, IsArr, seg, rest
      <3>2. CASE IsArr(n)
        <4>1. ~IsObj(n) /\ \A i \in DOMAIN n.elems : g[n.elems[i]] = f[n.elems[i]]
          BY <1>3, <2>2, <3>2, ChildrenBelow, Kinds
        <4> HIDE DEF seg, rest
        <4>2. [i \in DOMAIN n.elems |->
                  IF Hits(seg, i)
                  THEN IF rest = <<>> THEN Null ELSE g[n.elems[i]][rest]
                  ELSE n.elems[i]]
              = [i \in DOMAIN n.elems |->
                  IF Hits(seg, i)
                  THEN IF rest = <<>> THEN Null ELSE f[n.elems[i]][rest]
                  ELSE n.elems[i]]
          BY <4>1
        <4> QED
          BY <3>2, <4>1, <4>2 DEF StruckBy, seg, rest
      <3>3. CASE ~IsObj(n) /\ ~IsArr(n)
        BY <3>3 DEF StruckBy
      <3> QED
        BY <3>1, <3>2, <3>3
    <2>4. \A n \in Level[d + 1] : Struck(g, n) = Struck(f, n)
      BY <2>3
    <2> HIDE DEF Struck
    <2>5. Is(g, d + 1)
      BY <2>4 DEF g
    <2> QED
      BY <2>5
  <1> HIDE DEF Is
  <1>4. \A d \in 0..MaxDepth : d \in S
    <2>1. 0 \in S
      BY <1>1, <1>2
    <2>2. \A d \in 0..MaxDepth : d + 1 \in 0..MaxDepth /\ d \in S => d + 1 \in S
      BY <1>3
    <2> HIDE DEF S
    <2> QED
      BY <2>1, <2>2, DepthInduction
  <1>5. ApplyIgnore = CHOOSE f : Is(f, MaxDepth)
    BY DEF ApplyIgnore, StruckBy, Nodes, Is
  <1>6. Is(ApplyIgnore, MaxDepth)
    BY <1>1, <1>4, <1>5
  <1> QED
    BY <1>6 DEF Is, Nodes

LEMMA StepsAre ==
    ASSUME NEW n
    PROVE  /\ IsObj(n) => \A s : s \in StepsOf(n)
                             <=> \E k \in Keys : n.members[k] # Absent /\ s = At(k, 0)
           /\ IsArr(n) => \A s : s \in StepsOf(n) <=> \E i \in DOMAIN n.elems : s = At(NoKey, i)
           /\ ~IsObj(n) /\ ~IsArr(n) => StepsOf(n) = {}
           /\ IsObj(n) => \A k : Child(n, At(k, 0)) = n.members[k]
           /\ IsArr(n) => \A i : Child(n, At(NoKey, i)) = n.elems[i]
  <1>1. ~(IsObj(n) /\ IsArr(n))
    BY DEF IsObj, IsArr
  <1>2. ASSUME IsObj(n)
        PROVE  /\ StepsOf(n) = {At(k, 0) : k \in {x \in Keys : n.members[x] # Absent}}
               /\ \A k : Child(n, At(k, 0)) = n.members[k]
    <2>1. \A k : At(k, 0).key = k
      BY DEF At
    <2> QED
      BY <1>2, <2>1 DEF StepsOf, Child
  <1>3. ASSUME IsArr(n)
        PROVE  /\ StepsOf(n) = {At(NoKey, i) : i \in DOMAIN n.elems}
               /\ \A i : Child(n, At(NoKey, i)) = n.elems[i]
    <2>1. \A i : At(NoKey, i).index = i
      BY DEF At
    <2> QED
      BY <1>1, <1>3, <2>1 DEF StepsOf, Child
  <1>4. ASSUME ~IsObj(n), ~IsArr(n)
        PROVE  StepsOf(n) = {}
    BY <1>4 DEF StepsOf
  <1> QED
    BY <1>2, <1>3, <1>4

LEMMA StepsBelow ==
    /\ \A n \in Scalars : StepsOf(n) = {}
    /\ \A d \in 0..MaxDepth : d + 1 \in 0..MaxDepth =>
          \A n \in Level[d + 1] : \A s \in StepsOf(n) : Child(n, s) \in Level[d]
  <1>1. ASSUME NEW n \in Scalars
        PROVE  StepsOf(n) = {}
    BY Kinds, StepsAre
  <1>2. ASSUME NEW d \in 0..MaxDepth, d + 1 \in 0..MaxDepth, NEW n \in Level[d + 1],
               NEW s \in StepsOf(n)
        PROVE  Child(n, s) \in Level[d]
    <2>1. CASE IsObj(n)
      <3>1. n.members \in [Keys -> Level[d] \cup {Absent}]
        BY <1>2, <2>1, ChildrenBelow
      <3>2. PICK k \in Keys : n.members[k] # Absent /\ s = At(k, 0)
        BY <2>1, StepsAre
      <3> QED
        BY <2>1, <3>1, <3>2, StepsAre
    <2>2. CASE IsArr(n)
      <3>1. \A i \in DOMAIN n.elems : n.elems[i] \in Level[d]
        BY <1>2, <2>2, ChildrenBelow
      <3>2. PICK i \in DOMAIN n.elems : s = At(NoKey, i)
        BY <2>2, StepsAre
      <3> QED
        BY <2>2, <3>1, <3>2, StepsAre
    <2> QED
      BY <2>1, <2>2, StepsAre
  <1> QED
    BY <1>1, <1>2

ContentBy(f, n) ==
    {<< <<>>, Label(n)>>}
    \cup UNION {ContentBehind(s, f[Child(n, s)]) : s \in StepsOf(n)}

LEMMA ContentDef == \A n \in Nodes : Content[n] = ContentBy(Content, n)
  <1> DEFINE Is(f, d) == f = [n \in Level[d] |-> ContentBy(f, n)]
             S == {d \in 0..MaxDepth : \E f : Is(f, d)}
  <1>1. MaxDepth \in Nat
    BY DepthAssumption
  <1>2. \E f : Is(f, 0)
    <2> DEFINE f == [n \in Level[0] |-> ContentBy(0, n)]
    <2>1. \A n \in Level[0] : ContentBy(f, n) = ContentBy(0, n)
      BY LevelDef, StepsBelow DEF ContentBy
    <2> QED
      BY <2>1
  <1>3. ASSUME NEW d \in 0..MaxDepth, d + 1 \in 0..MaxDepth, \E f : Is(f, d)
        PROVE  \E f : Is(f, d + 1)
    <2>1. PICK f : Is(f, d)
      BY <1>3
    <2> DEFINE g == [n \in Level[d + 1] |-> ContentBy(f, n)]
    <2>2. \A n \in Level[d] : g[n] = f[n]
      BY <1>3, <2>1, LevelsGrow
    <2> HIDE DEF g
    <2>3. ASSUME NEW n \in Level[d + 1]
          PROVE  ContentBy(g, n) = ContentBy(f, n)
      <3>1. \A s \in StepsOf(n) : g[Child(n, s)] = f[Child(n, s)]
        BY <1>3, <2>2, StepsBelow
      <3>2. UNION {ContentBehind(s, g[Child(n, s)]) : s \in StepsOf(n)}
            = UNION {ContentBehind(s, f[Child(n, s)]) : s \in StepsOf(n)}
        BY <3>1
      <3> QED
        BY <3>2 DEF ContentBy
    <2>4. Is(g, d + 1)
      BY <2>3 DEF g
    <2> QED
      BY <2>4
  <1> HIDE DEF Is
  <1>4. \A d \in 0..MaxDepth : d \in S
    <2>1. 0 \in S
      BY <1>1, <1>2
    <2>2. \A d \in 0..MaxDepth : d + 1 \in 0..MaxDepth /\ d \in S => d + 1 \in S
      BY <1>3
    <2> HIDE DEF S
    <2> QED
      BY <2>1, <2>2, DepthInduction
  <1>5. Content = CHOOSE f : Is(f, MaxDepth)
    BY DEF Content, ContentBy, Nodes, Is
  <1>6. Is(Content, MaxDepth)
    BY <1>1, <1>4, <1>5
  <1> QED
    BY <1>6 DEF Is, Nodes

DiffBy(f, a, b) ==
    IF (IsObj(a) /\ IsObj(b)) \/ (IsArr(a) /\ IsArr(b)) THEN
        UNION {Behind(s, f[ChildOrNil(a, s)][ChildOrNil(b, s)]) : s \in Branches(a, b)}
    ELSE IF JsonEqual(a, b) THEN {} ELSE {<<>>}

LEMMA DiffWalkDef ==
    \A a \in Nodes : \A b \in Nodes : DiffWalk[a][b] = DiffBy(DiffWalk, a, b)
  <1> DEFINE Diff(f, a) == [b \in Nodes |-> DiffBy(f, a, b)]
             Is(f, d) == f = [a \in Level[d] |-> Diff(f, a)]
             S == {d \in 0..MaxDepth : \E f : Is(f, d)}
  <1>1. MaxDepth \in Nat
    BY DepthAssumption
  <1>2. \E f : Is(f, 0)
    <2> DEFINE f == [a \in Level[0] |-> Diff(0, a)]
    <2>1. ASSUME NEW a \in Level[0]
          PROVE  Diff(f, a) = Diff(0, a)
      <3>1. ~IsObj(a) /\ ~IsArr(a)
        BY LevelDef, Kinds
      <3> QED
        BY <3>1 DEF DiffBy
    <2> HIDE DEF Diff
    <2> QED
      BY <2>1
  <1>3. ASSUME NEW d \in 0..MaxDepth, d + 1 \in 0..MaxDepth, \E f : Is(f, d)
        PROVE  \E f : Is(f, d + 1)
    <2>1. PICK f : Is(f, d)
      BY <1>3
    <2> DEFINE g == [a \in Level[d + 1] |-> Diff(f, a)]
    <2>2. \A a \in Level[d] : g[a] = f[a]
      <3> HIDE DEF Diff
      <3> QED
        BY <1>3, <2>1, LevelsGrow
    <2> HIDE DEF g
    <2>3. ASSUME NEW a \in Level[d + 1], NEW b \in Nodes
          PROVE  DiffBy(g, a, b) = DiffBy(f, a, b)
      <3>1. \A s : ChildOrNil(a, s) \in Level[d]
        BY <1>3, StepsBelow, LevelsGrow, Kinds DEF ChildOrNil
      <3>2. \A s : g[ChildOrNil(a, s)] = f[ChildOrNil(a, s)]
        BY <2>2, <3>1
      <3>3. UNION {Behind(s, g[ChildOrNil(a, s)][ChildOrNil(b, s)]) : s \in Branches(a, b)}
            = UNION {Behind(s, f[ChildOrNil(a, s)][ChildOrNil(b, s)]) : s \in Branches(a, b)}
        BY <3>2
      <3> QED
        BY <3>3 DEF DiffBy
    <2>4. \A a \in Level[d + 1] : Diff(g, a) = Diff(f, a)
      BY <2>3
    <2> HIDE DEF Diff
    <2>5. Is(g, d + 1)
      BY <2>4 DEF g
    <2> QED
      BY <2>5
  <1> HIDE DEF Is
  <1>4. \A d \in 0..MaxDepth : d \in S
    <2>1. 0 \in S
      BY <1>1, <1>2
    <2>2. \A d \in 0..MaxDepth : d + 1 \in 0..MaxDepth /\ d \in S => d + 1 \in S
      BY <1>3
    <2> HIDE DEF S
    <2> QED
      BY <2>1, <2>2, DepthInduction
  <1>5. DiffWalk = CHOOSE f : Is(f, MaxDepth)
    BY DEF DiffWalk, DiffBy, Nodes, Is
  <1>6. Is(DiffWalk, MaxDepth)
    BY <1>1, <1>4, <1>5
  <1> QED
    BY <1>6 DEF Is, Nodes

ValueBy(f, node, path) ==
    IF path = <<>> THEN node
    ELSE LET child == Below(node, Head(path))
         IN  IF child = Absent THEN Absent ELSE f[child][Tail(path)]

LEMMA ValueAtDef ==
    \A n \in Nodes : \A path \in Seq(Steps) : ValueAt[n][path] = ValueBy(ValueAt, n, path)
  <1> DEFINE Val(f, n) == [path \in Seq(Steps) |-> ValueBy(f, n, path)]
             Is(f, d) == f = [n \in Level[d] |-> Val(f, n)]
             S == {d \in 0..MaxDepth : \E f : Is(f, d)}
  <1>1. MaxDepth \in Nat
    BY DepthAssumption
  <1>2. \E f : Is(f, 0)
    <2> DEFINE f == [n \in Level[0] |-> Val(0, n)]
    <2>1. ASSUME NEW n \in Level[0]
          PROVE  Val(f, n) = Val(0, n)
      <3>1. ~IsObj(n) /\ ~IsArr(n)
        BY LevelDef, Kinds
      <3> QED
        BY <3>1 DEF ValueBy, Below
    <2> HIDE DEF Val
    <2> QED
      BY <2>1
  <1>3. ASSUME NEW d \in 0..MaxDepth, d + 1 \in 0..MaxDepth, \E f : Is(f, d)
        PROVE  \E f : Is(f, d + 1)
    <2>1. PICK f : Is(f, d)
      BY <1>3
    <2> DEFINE g == [n \in Level[d + 1] |-> Val(f, n)]
    <2>2. \A n \in Level[d] : g[n] = f[n]
      <3> HIDE DEF Val
      <3> QED
        BY <1>3, <2>1, LevelsGrow
    <2> HIDE DEF g
    <2>3. ASSUME NEW n \in Level[d + 1], NEW path \in Seq(Steps)
          PROVE  ValueBy(g, n, path) = ValueBy(f, n, path)
      <3> SUFFICES ASSUME path # <<>>, Below(n, Head(path)) # Absent
                   PROVE  g[Below(n, Head(path))] = f[Below(n, Head(path))]
        BY DEF ValueBy
      <3> DEFINE step == Head(path)
      <3>1. step.key \in Keys \cup {NoKey}
        <4>1. step \in Steps
          BY HeadTailProperties
        <4> HIDE DEF step
        <4> QED
          BY <4>1 DEF Steps
      <3>2. Below(n, step) \in Level[d]
        <4>1. Below(n, step) # Absent
          OBVIOUS
        <4> HIDE DEF step
        <4>2. CASE step.key # NoKey /\ IsObj(n)
          <5>1. n.members \in [Keys -> Level[d] \cup {Absent}]
            BY <1>3, <4>2, ChildrenBelow
          <5>2. Below(n, step) = n.members[step.key]
            BY <4>2 DEF Below
          <5> QED
            BY <3>1, <4>1, <4>2, <5>1, <5>2
        <4>3. CASE step.key = NoKey /\ IsArr(n) /\ step.index \in DOMAIN n.elems
          <5>1. \A i \in DOMAIN n.elems : n.elems[i] \in Level[d]
            BY <1>3, <4>3, ChildrenBelow
          <5>2. Below(n, step) = n.elems[step.index]
            BY <4>3 DEF Below
          <5> QED
            BY <4>3, <5>1, <5>2
        <4> QED
          BY <4>1, <4>2, <4>3 DEF Below
      <3> QED
        BY <2>2, <3>2
    <2>4. \A n \in Level[d + 1] : Val(g, n) = Val(f, n)
      BY <2>3
    <2> HIDE DEF Val
    <2>5. Is(g, d + 1)
      BY <2>4 DEF g
    <2> QED
      BY <2>5
  <1> HIDE DEF Is
  <1>4. \A d \in 0..MaxDepth : d \in S
    <2>1. 0 \in S
      BY <1>1, <1>2
    <2>2. \A d \in 0..MaxDepth : d + 1 \in 0..MaxDepth /\ d \in S => d + 1 \in S
      BY <1>3
    <2> HIDE DEF S
    <2> QED
      BY <2>1, <2>2, DepthInduction
  <1>5. ValueAt = CHOOSE f : Is(f, MaxDepth)
    BY DEF ValueAt, ValueBy, Nodes, Is
  <1>6. Is(ValueAt, MaxDepth)
    BY <1>1, <1>4, <1>5
  <1> QED
    BY <1>6 DEF Is, Nodes

-----------------------------------------------------------------------------
(* Induction over documents.                                               *)

LEMMA NodeShape ==
    ASSUME NEW n \in Nodes
    PROVE  /\ IsObj(n) => n = Obj(n.members) /\ n.members \in [Keys -> Nodes \cup {Absent}]
           /\ IsArr(n) => n = Arr(n.elems) /\ n.elems \in Seq(Nodes)
           /\ ~IsObj(n) /\ ~IsArr(n) => n \in Scalars
           /\ \A s \in StepsOf(n) : Child(n, s) \in Nodes
           /\ n # Absent /\ ~(IsObj(n) /\ IsArr(n))
  <1>1. MaxDepth \in 0..MaxDepth
    BY DepthAssumption
  <1>2. n # Absent /\ ~(IsObj(n) /\ IsArr(n))
    BY <1>1, LevelsGrow DEF Nodes, IsObj, IsArr
  <1>3. CASE MaxDepth = 0
    <2>1. n \in Scalars
      BY <1>1, <1>3, LevelDef DEF Nodes
    <2> QED
      BY <1>2, <2>1, Kinds, StepsBelow
  <1>4. CASE MaxDepth # 0
    <2> DEFINE d == MaxDepth - 1
    <2>1. d \in 0..MaxDepth /\ d + 1 \in 0..MaxDepth /\ d + 1 = MaxDepth
      BY <1>1, <1>4, DepthAssumption
    <2> HIDE DEF d
    <2>2. n \in Level[d + 1] /\ Level[d] \subseteq Nodes
      BY <2>1, LevelsGrow DEF Nodes
    <2>3. \A s \in StepsOf(n) : Child(n, s) \in Level[d]
      BY <2>1, <2>2, StepsBelow
    <2>4. \A e : e \in Seq(Level[d]) => e \in Seq(Nodes)
      BY <2>2
    <2> QED
      BY <1>2, <2>1, <2>2, <2>3, <2>4, ChildrenBelow
  <1> QED
    BY <1>3, <1>4

LEMMA NodeInduction ==
    ASSUME NEW S,
           \A n \in Nodes : (\A s \in StepsOf(n) : Child(n, s) \in S) => n \in S
    PROVE  \A n \in Nodes : n \in S
  <1> DEFINE T == {d \in 0..MaxDepth : Level[d] \subseteq S}
  <1>1. 0 \in 0..MaxDepth /\ MaxDepth \in 0..MaxDepth
    BY DepthAssumption
  <1>2. 0 \in T
    <2>1. \A n \in Level[0] : n \in Nodes /\ StepsOf(n) = {}
      BY <1>1, LevelDef, LevelsGrow, StepsBelow
    <2> QED
      BY <1>1, <2>1
  <1>3. ASSUME NEW d \in 0..MaxDepth, d + 1 \in 0..MaxDepth, d \in T
        PROVE  d + 1 \in T
    <2>1. Level[d + 1] \subseteq Nodes
      BY <1>3, LevelsGrow
    <2>2. \A n \in Level[d + 1] : \A s \in StepsOf(n) : Child(n, s) \in S
      BY <1>3, StepsBelow
    <2> QED
      BY <1>3, <2>1, <2>2
  <1> HIDE DEF T
  <1>4. MaxDepth \in T
    BY <1>1, <1>2, <1>3, DepthInduction
  <1> QED
    BY <1>4 DEF T, Nodes

\* A place is the root or lies behind a step.
LEMMA Places ==
    ASSUME NEW S
    PROVE  /\ \A s \in S : \A q \in Seq(S) :
                 /\ <<s>> \o q \in Seq(S) /\ <<s>> \o q # <<>>
                 /\ Head(<<s>> \o q) = s /\ Tail(<<s>> \o q) = q
           /\ \A p \in Seq(S) : p # <<>> => /\ Head(p) \in S /\ Tail(p) \in Seq(S)
                                            /\ p = <<Head(p)>> \o Tail(p)
           /\ <<>> \in Seq(S)
  <1>1. ASSUME NEW s \in S, NEW q \in Seq(S)
        PROVE  /\ <<s>> \o q \in Seq(S) /\ <<s>> \o q # <<>>
               /\ Head(<<s>> \o q) = s /\ Tail(<<s>> \o q) = q
    OBVIOUS
  <1>2. ASSUME NEW p \in Seq(S), p # <<>>
        PROVE  /\ Head(p) \in S /\ Tail(p) \in Seq(S)
               /\ p = <<Head(p)>> \o Tail(p)
    BY <1>2
  <1> QED
    BY <1>1, <1>2

-----------------------------------------------------------------------------
(* What stands in a document.                                              *)

Labels == Scalars \cup {[kind |-> "obj"], [kind |-> "arr"]}

LEMMA StepsTyped == \A n \in Nodes : StepsOf(n) \subseteq Steps
  <1> SUFFICES ASSUME NEW n \in Nodes, NEW s \in StepsOf(n)
               PROVE  s \in Steps
    OBVIOUS
  <1>1. CASE IsObj(n)
    <2>1. PICK k \in Keys : s = At(k, 0)
      BY <1>1, StepsAre
    <2> QED
      BY <2>1 DEF At, Steps
  <1>2. CASE IsArr(n)
    <2>1. PICK i \in DOMAIN n.elems : s = At(NoKey, i)
      BY <1>2, StepsAre
    <2>2. i \in Nat
      BY <1>2, NodeShape
    <2> QED
      BY <2>1, <2>2 DEF At, Steps
  <1> QED
    BY <1>1, <1>2, StepsAre

LEMMA LabelTyped == \A n \in Nodes : Label(n) \in Labels
  <1> SUFFICES ASSUME NEW n \in Nodes
               PROVE  Label(n) \in Labels
    OBVIOUS
  <1>1. CASE IsObj(n)
    BY <1>1 DEF Label, Labels, IsObj, IsNum
  <1>2. CASE IsArr(n)
    BY <1>2 DEF Label, Labels, IsArr, IsNum
  <1>3. CASE ~IsObj(n) /\ ~IsArr(n)
    <2>1. n \in Scalars
      BY <1>3, NodeShape
    <2>2. CASE IsNum(n)
      BY <2>1, <2>2 DEF Label, Labels
    <2>3. CASE ~IsNum(n)
      BY <2>1, <2>3, Kinds DEF Label, Labels, Null
    <2> QED
      BY <2>2, <2>3
  <1> QED
    BY <1>1, <1>2, <1>3

LEMMA ContentTyped == \A n \in Nodes : Content[n] \subseteq Seq(Steps) \X Labels
  <1> DEFINE S == {n \in Nodes : Content[n] \subseteq Seq(Steps) \X Labels}
  <1>1. ASSUME NEW n \in Nodes, \A s \in StepsOf(n) : Child(n, s) \in S
        PROVE  n \in S
    <2>1. Content[n] = ContentBy(Content, n)
      BY ContentDef
    <2>2. << <<>>, Label(n)>> \in Seq(Steps) \X Labels
      BY LabelTyped, Places
    <2>3. ASSUME NEW s \in StepsOf(n)
          PROVE  ContentBehind(s, Content[Child(n, s)]) \subseteq Seq(Steps) \X Labels
      <3>1. s \in Steps /\ Content[Child(n, s)] \subseteq Seq(Steps) \X Labels
        BY <1>1, StepsTyped
      <3>2. ASSUME NEW c \in Content[Child(n, s)]
            PROVE  << <<s>> \o c[1], c[2]>> \in Seq(Steps) \X Labels
        <4>1. c[1] \in Seq(Steps) /\ c[2] \in Labels
          BY <3>1
        <4> QED
          BY <3>1, <4>1, Places
      <3> QED
        BY <3>2 DEF ContentBehind
    <2> QED
      BY <2>1, <2>2, <2>3 DEF ContentBy
  <1> HIDE DEF S
  <1> QED
    BY <1>1, NodeInduction DEF S

LEMMA ContentIs ==
    ASSUME NEW n \in Nodes
    PROVE  /\ \A l : << <<>>, l>> \in Content[n] <=> l = Label(n)
           /\ \A s \in Steps : \A q \in Seq(Steps) : \A l :
                 << <<s>> \o q, l>> \in Content[n]
                 <=> s \in StepsOf(n) /\ <<q, l>> \in Content[Child(n, s)]
  <1>1. Content[n] = ContentBy(Content, n)
    BY ContentDef
  <1>2. ASSUME NEW x
        PROVE  x \in Content[n]
               <=> \/ x = << <<>>, Label(n)>>
                   \/ \E s \in StepsOf(n) : \E c \in Content[Child(n, s)] :
                         x = << <<s>> \o c[1], c[2]>>
    <2>1. \A s : \A content :
             x \in ContentBehind(s, content) <=> \E c \in content : x = << <<s>> \o c[1], c[2]>>
      BY DEF ContentBehind
    <2>2. x \in Content[n]
            <=> \/ x = << <<>>, Label(n)>>
                \/ \E s \in StepsOf(n) : x \in ContentBehind(s, Content[Child(n, s)])
      BY <1>1 DEF ContentBy
    <2> QED
      BY <2>1, <2>2
  <1>3. \A s \in StepsOf(n) :
           s \in Steps /\ Content[Child(n, s)] \subseteq Seq(Steps) \X Labels
    BY StepsTyped, NodeShape, ContentTyped
  <1>4. ASSUME NEW l
        PROVE  << <<>>, l>> \in Content[n] <=> l = Label(n)
    <2>1. \A s \in StepsOf(n) : \A c \in Content[Child(n, s)] : <<s>> \o c[1] # <<>>
      BY <1>3, Places
    <2>2. \A s \in StepsOf(n) : \A c \in Content[Child(n, s)] :
             << <<>>, l>> # << <<s>> \o c[1], c[2]>>
      BY <2>1
    <2>3. << <<>>, l>> = << <<>>, Label(n)>> <=> l = Label(n)
      OBVIOUS
    <2> QED
      BY <1>2, <2>2, <2>3
  <1>5. ASSUME NEW s \in Steps, NEW q \in Seq(Steps), NEW l
        PROVE  << <<s>> \o q, l>> \in Content[n]
               <=> s \in StepsOf(n) /\ <<q, l>> \in Content[Child(n, s)]
    <2>1. ASSUME s \in StepsOf(n), <<q, l>> \in Content[Child(n, s)]
          PROVE  << <<s>> \o q, l>> \in Content[n]
      BY <1>2, <2>1
    <2>2. ASSUME << <<s>> \o q, l>> \in Content[n]
          PROVE  s \in StepsOf(n) /\ <<q, l>> \in Content[Child(n, s)]
      <3>1. <<s>> \o q # <<>> /\ Head(<<s>> \o q) = s /\ Tail(<<s>> \o q) = q
        BY Places
      <3>2. PICK t \in StepsOf(n) : \E c \in Content[Child(n, t)] :
                    << <<s>> \o q, l>> = << <<t>> \o c[1], c[2]>>
        BY <1>2, <2>2, <3>1
      <3>. PICK c \in Content[Child(n, t)] : << <<s>> \o q, l>> = << <<t>> \o c[1], c[2]>>
        BY <3>2
      <3>3. t \in Steps /\ c[1] \in Seq(Steps) /\ c = <<c[1], c[2]>>
        BY <1>3
      <3>4. Head(<<t>> \o c[1]) = t /\ Tail(<<t>> \o c[1]) = c[1]
        BY <3>3, Places
      <3> QED
        BY <3>1, <3>2, <3>3, <3>4
    <2> QED
      BY <2>1, <2>2
  <1> QED
    BY <1>4, <1>5

LEMMA ContentEqual ==
    ASSUME NEW m \in Nodes, NEW n \in Nodes,
           \A q \in Seq(Steps) : \A l : <<q, l>> \in Content[m] <=> <<q, l>> \in Content[n]
    PROVE  Content[m] = Content[n]
  <1>1. ASSUME NEW x \in Nodes, NEW c \in Content[x]
        PROVE  c[1] \in Seq(Steps) /\ c = <<c[1], c[2]>>
    BY ContentTyped
  <1>2. \A c \in Content[m] : c \in Content[n]
    BY <1>1
  <1>3. \A c \in Content[n] : c \in Content[m]
    BY <1>1
  <1> QED
    BY <1>2, <1>3

\* Documents in which the same stands at every place are the same.
LEMMA SameContent ==
    ASSUME NEW m \in Nodes, NEW n \in Nodes, Content[m] = Content[n]
    PROVE  m = n
  <1> DEFINE S == {x \in Nodes : \A y \in Nodes : Content[x] = Content[y] => x = y}
  <1>1. ASSUME NEW x \in Nodes, \A s \in StepsOf(x) : Child(x, s) \in S
        PROVE  x \in S
    <2> SUFFICES ASSUME NEW y \in Nodes, Content[x] = Content[y]
                 PROVE  x = y
      OBVIOUS
    <2>1. Label(x) = Label(y)
      BY ContentIs
    <2>2. ASSUME NEW v \in Nodes, NEW w \in Nodes, Content[v] = Content[w], NEW s \in StepsOf(v)
          PROVE  s \in StepsOf(w)
      <3>1. s \in Steps /\ <<>> \in Seq(Steps) /\ Child(v, s) \in Nodes
        BY <2>2, StepsTyped, Places, NodeShape
      <3>2. << <<>>, Label(Child(v, s))>> \in Content[Child(v, s)]
        BY <3>1, ContentIs
      <3>3. << <<s>> \o <<>>, Label(Child(v, s))>> \in Content[w]
        BY <2>2, <3>1, <3>2, ContentIs
      <3> QED
        BY <3>1, <3>3, ContentIs
    <2>3. StepsOf(x) = StepsOf(y)
      <3>1. \A s \in StepsOf(x) : s \in StepsOf(y)
        BY <2>2
      <3>2. \A s \in StepsOf(y) : s \in StepsOf(x)
        BY <2>2
      <3> QED
        BY <3>1, <3>2
    <2>4. ASSUME NEW s \in StepsOf(x)
          PROVE  Child(x, s) = Child(y, s)
      <3>1. s \in Steps /\ Child(x, s) \in Nodes /\ Child(y, s) \in Nodes
        BY <2>3, StepsTyped, NodeShape
      <3>2. ASSUME NEW q \in Seq(Steps), NEW l
            PROVE  <<q, l>> \in Content[Child(x, s)] <=> <<q, l>> \in Content[Child(y, s)]
        <4>1. << <<s>> \o q, l>> \in Content[x] <=> <<q, l>> \in Content[Child(x, s)]
          BY <3>1, ContentIs
        <4>2. << <<s>> \o q, l>> \in Content[y] <=> <<q, l>> \in Content[Child(y, s)]
          BY <2>3, <3>1, ContentIs
        <4> QED
          BY <4>1, <4>2
      <3>3. Content[Child(x, s)] = Content[Child(y, s)]
        BY <3>1, <3>2, ContentEqual
      <3> QED
        BY <1>1, <3>1, <3>3
    <2>5. (IsObj(x) <=> IsObj(y)) /\ (IsArr(x) <=> IsArr(y))
      <3>1. x.kind = y.kind
        BY <2>1 DEF Label, IsNum
      <3> QED
        BY <3>1 DEF IsObj, IsArr
    <2>6. CASE IsObj(x)
      <3>1. /\ x = Obj(x.members) /\ x.members \in [Keys -> Nodes \cup {Absent}]
            /\ y = Obj(y.members) /\ y.members \in [Keys -> Nodes \cup {Absent}]
        BY <2>5, <2>6, NodeShape
      <3>2. ASSUME NEW k \in Keys
            PROVE  x.members[k] = y.members[k]
        <4>1. \A j, k1 : At(j, 0) = At(k1, 0) => j = k1
          BY DEF At
        <4>2. x.members[k] # Absent <=> At(k, 0) \in StepsOf(x)
          BY <2>6, <4>1, StepsAre
        <4>3. y.members[k] # Absent <=> At(k, 0) \in StepsOf(y)
          BY <2>5, <2>6, <4>1, StepsAre
        <4>4. At(k, 0) \in StepsOf(x) => x.members[k] = y.members[k]
          BY <2>4, <2>5, <2>6, StepsAre
        <4> QED
          BY <2>3, <4>2, <4>3, <4>4
      <3>3. x.members = y.members
        BY <3>1, <3>2
      <3> QED
        BY <3>1, <3>3
    <2>7. CASE IsArr(x)
      <3>1. /\ x = Arr(x.elems) /\ x.elems \in Seq(Nodes)
            /\ y = Arr(y.elems) /\ y.elems \in Seq(Nodes)
        BY <2>5, <2>7, NodeShape
      <3>2. ASSUME NEW i
            PROVE  /\ i \in DOMAIN x.elems <=> i \in DOMAIN y.elems
                   /\ i \in DOMAIN x.elems => x.elems[i] = y.elems[i]
        <4>1. \A j, i1 : At(NoKey, j) = At(NoKey, i1) => j = i1
          BY DEF At
        <4>2. /\ i \in DOMAIN x.elems <=> At(NoKey, i) \in StepsOf(x)
              /\ i \in DOMAIN y.elems <=> At(NoKey, i) \in StepsOf(y)
          BY <2>5, <2>7, <4>1, StepsAre
        <4>3. At(NoKey, i) \in StepsOf(x) => x.elems[i] = y.elems[i]
          BY <2>4, <2>5, <2>7, StepsAre
        <4> QED
          BY <2>3, <4>2, <4>3
      <3>3. x.elems = y.elems
        <4>1. DOMAIN x.elems = DOMAIN y.elems
          BY <3>2
        <4>2. Len(x.elems) = Len(y.elems)
          BY <3>1, <4>1
        <4> QED
          BY <3>1, <3>2, <4>2, SeqEqual
      <3> QED
        BY <3>1, <3>3
    <2>8. CASE ~IsObj(x) /\ ~IsArr(x)
      <3>1. x \in Scalars /\ y \in Scalars
        BY <2>5, <2>8, NodeShape
      <3>2. IsNum(x) <=> IsNum(y)
        BY <2>1 DEF Label, IsNum
      <3> QED
        BY <2>1, <3>1, <3>2, Kinds DEF Label
    <2> QED
      BY <2>6, <2>7, <2>8
  <1> HIDE DEF S
  <1>2. m \in S
    BY <1>1, NodeInduction
  <1> QED
    BY <1>2 DEF S

-----------------------------------------------------------------------------
(* What stands in a document when a path was ignored.                      *)

LEMMA IsSequence ==
    ASSUME NEW S, NEW n \in Nat, NEW e \in [1..n -> S]
    PROVE  e \in Seq(S) /\ Len(e) = n
  <1>1. e \in Seq(S)
    BY SeqDef
  <1>2. DOMAIN e = 1..Len(e) /\ Len(e) \in Nat
    BY <1>1, LenProperties
  <1> QED
    BY <1>1, <1>2

LEMMA SegmentsOf ==
    ASSUME NEW segs \in Patterns
    PROVE  /\ segs \in Seq(Segment) /\ segs # <<>>
           /\ Head(segs) \in Segment /\ Head(segs).isArray \in BOOLEAN
           /\ Tail(segs) # <<>> => Tail(segs) \in Patterns
  <1>1. segs \in Seq(Segment) /\ segs # <<>>
    BY DEF Patterns
  <1>2. Head(segs) \in Segment /\ Tail(segs) \in Seq(Segment)
    BY <1>1, HeadTailProperties
  <1>3. \A seg \in Segment : seg.isArray \in BOOLEAN
    BY DEF Segment
  <1> QED
    BY <1>1, <1>2, <1>3 DEF Patterns

LEMMA StruckTyped ==
    \A d \in 0..MaxDepth : \A n \in Level[d] : \A segs \in Patterns :
        ApplyIgnore[n][segs] \in Level[d]
  <1> DEFINE S == {d \in 0..MaxDepth : \A n \in Level[d] : \A segs \in Patterns :
                      ApplyIgnore[n][segs] \in Level[d]}
  <1>1. 0 \in S
    <2>1. 0 \in 0..MaxDepth
      BY DepthAssumption
    <2>2. ASSUME NEW n \in Level[0], NEW segs \in Patterns
          PROVE  ApplyIgnore[n][segs] \in Level[0]
      <3>1. ~IsObj(n) /\ ~IsArr(n) /\ n \in Nodes
        BY <2>1, LevelDef, LevelsGrow, Kinds
      <3>2. ApplyIgnore[n][segs] = n
        BY <3>1, ApplyIgnoreDef DEF StruckBy
      <3> QED
        BY <3>2
    <2> QED
      BY <2>1, <2>2
  <1>2. ASSUME NEW d \in 0..MaxDepth, d + 1 \in 0..MaxDepth, d \in S
        PROVE  d + 1 \in S
    <2> SUFFICES ASSUME NEW n \in Level[d + 1], NEW segs \in Patterns
                 PROVE  ApplyIgnore[n][segs] \in Level[d + 1]
      BY <1>2
    <2> DEFINE seg == Head(segs)
               rest == Tail(segs)
               Under(child, gone) == IF rest = <<>> THEN gone ELSE ApplyIgnore[child][rest]
    <2>1. ApplyIgnore[n][segs] = StruckBy(ApplyIgnore, n, segs)
      BY <1>2, LevelsGrow, ApplyIgnoreDef
    <2>2. rest # <<>> => rest \in Patterns
      BY SegmentsOf
    <2> HIDE DEF seg, rest
    <2>3. ASSUME NEW c \in Level[d], NEW gone \in Level[d] \cup {Absent}
          PROVE  Under(c, gone) \in Level[d] \cup {Absent}
      BY <1>2, <2>2, <2>3
    <2>4. ASSUME NEW c \in Level[d]
          PROVE  Under(c, Null) \in Level[d]
      BY <1>2, <2>2, <2>4, LevelsGrow, Kinds
    <2>5. StruckBy(ApplyIgnore, n, segs) =
            IF IsObj(n) /\ ~seg.isArray THEN
                Obj([k \in Keys |->
                        IF k = seg.key /\ n.members[k] # Absent
                        THEN Under(n.members[k], Absent) ELSE n.members[k]])
            ELSE IF IsArr(n) /\ seg.isArray THEN
                Arr([i \in DOMAIN n.elems |->
                        IF Hits(seg, i) THEN Under(n.elems[i], Null) ELSE n.elems[i]])
            ELSE n
      BY DEF StruckBy, seg, rest
    <2> HIDE DEF Under
    <2>6. CASE IsObj(n) /\ ~seg.isArray
      <3> DEFINE m == [k \in Keys |->
                          IF k = seg.key /\ n.members[k] # Absent
                          THEN Under(n.members[k], Absent) ELSE n.members[k]]
      <3>1. n.members \in [Keys -> Level[d] \cup {Absent}]
        BY <1>2, <2>6, ChildrenBelow
      <3>2. m \in [Keys -> Level[d] \cup {Absent}]
        BY <2>3, <3>1
      <3> HIDE DEF m
      <3>3. Obj(m) \in Level[d + 1]
        BY <1>2, <3>2, LevelUp
      <3> QED
        BY <2>1, <2>5, <2>6, <3>3 DEF m
    <2>7. CASE IsArr(n) /\ seg.isArray
      <3> DEFINE e == [i \in DOMAIN n.elems |->
                          IF Hits(seg, i) THEN Under(n.elems[i], Null) ELSE n.elems[i]]
      <3>1. n.elems \in Seq(Level[d]) /\ \A i \in DOMAIN n.elems : n.elems[i] \in Level[d]
        BY <1>2, <2>7, ChildrenBelow
      <3>2. \A i \in DOMAIN n.elems : e[i] \in Level[d]
        BY <2>4, <3>1
      <3>3. DOMAIN n.elems = 1..Len(n.elems) /\ Len(n.elems) \in Nat
        BY <3>1
      <3>4. e \in [1..Len(n.elems) -> Level[d]]
        BY <3>2, <3>3
      <3> HIDE DEF e
      <3>5. e \in Seq(Level[d])
        BY <3>3, <3>4, IsSequence
      <3>6. Arr(e) \in Level[d + 1]
        BY <1>2, <3>5, LevelUp
      <3>7. ~(IsObj(n) /\ ~seg.isArray)
        BY <2>7
      <3> QED
        BY <2>1, <2>5, <2>7, <3>6, <3>7 DEF e
    <2>8. CASE ~(IsObj(n) /\ ~seg.isArray) /\ ~(IsArr(n) /\ seg.isArray)
      BY <2>1, <2>5, <2>8
    <2> QED
      BY <2>6, <2>7, <2>8
  <1> HIDE DEF S
  <1>3. \A d \in 0..MaxDepth : d \in S
    BY <1>1, <1>2, DepthInduction
  <1> QED
    BY <1>3 DEF S

\* What the first segment of a path does at a node: nothing at the steps it
\* does not fit, and at the others it deletes, clears or leads further.
LEMMA StruckSteps ==
    ASSUME NEW n \in Nodes, NEW segs \in Patterns
    PROVE  LET r == ApplyIgnore[n][segs]
               seg == Head(segs)
               rest == Tail(segs)
           IN  /\ r \in Nodes /\ Label(r) = Label(n)
               /\ StepsOf(r) \subseteq StepsOf(n)
               /\ \A s \in StepsOf(n) :
                     /\ ~Fits(seg, s) => s \in StepsOf(r) /\ Child(r, s) = Child(n, s)
                     /\ Fits(seg, s) /\ rest # <<>> =>
                           s \in StepsOf(r) /\ Child(r, s) = ApplyIgnore[Child(n, s)][rest]
                     /\ Fits(seg, s) /\ rest = <<>> =>
                           IF s.index = 0 THEN s \notin StepsOf(r)
                           ELSE s \in StepsOf(r) /\ Child(r, s) = Null
  <1> DEFINE seg == Head(segs)
             rest == Tail(segs)
             r == ApplyIgnore[n][segs]
             Under(child, gone) == IF rest = <<>> THEN gone ELSE ApplyIgnore[child][rest]
  <1>1. r = StruckBy(ApplyIgnore, n, segs)
    BY ApplyIgnoreDef
  <1>2. r \in Nodes
    BY StruckTyped, DepthAssumption DEF Nodes
  <1>3. seg.isArray \in BOOLEAN /\ (rest # <<>> => rest \in Patterns)
    BY SegmentsOf
  <1> HIDE DEF seg, rest, r
  <1>4. r = IF IsObj(n) /\ ~seg.isArray THEN
                Obj([k \in Keys |->
                        IF k = seg.key /\ n.members[k] # Absent
                        THEN Under(n.members[k], Absent) ELSE n.members[k]])
            ELSE IF IsArr(n) /\ seg.isArray THEN
                Arr([i \in DOMAIN n.elems |->
                        IF Hits(seg, i) THEN Under(n.elems[i], Null) ELSE n.elems[i]])
            ELSE n
    BY <1>1 DEF StruckBy, seg, rest
  <1>5. \A k, i : At(k, i).key = k /\ At(k, i).index = i
    BY DEF At
  <1>6. \A c \in Nodes : rest # <<>> => ApplyIgnore[c][rest] # Absent
    BY <1>3, StruckTyped, LevelsGrow, DepthAssumption DEF Nodes
  <1> HIDE DEF Under
  <1>7. CASE IsObj(n) /\ ~seg.isArray
    <2> DEFINE m == [k \in Keys |->
                        IF k = seg.key /\ n.members[k] # Absent
                        THEN Under(n.members[k], Absent) ELSE n.members[k]]
    <2>1. r = Obj(m)
      BY <1>4, <1>7
    <2>2. \A k \in Keys : m[k] = IF k = seg.key /\ n.members[k] # Absent
                                 THEN Under(n.members[k], Absent) ELSE n.members[k]
      OBVIOUS
    <2> HIDE DEF m
    <2>3. IsObj(r) /\ r.members = m /\ Label(r) = Label(n)
      <3>1. IsObj(r) /\ r.members = m
        BY <2>1, Kinds
      <3>2. ~IsNum(r) /\ ~IsNum(n) /\ r.kind = n.kind
        BY <1>7, <3>1 DEF IsObj, IsNum
      <3> QED
        BY <3>1, <3>2 DEF Label
    <2>4. ASSUME NEW s \in StepsOf(r)
          PROVE  s \in StepsOf(n)
      <3>1. PICK k \in Keys : m[k] # Absent /\ s = At(k, 0)
        BY <2>3, StepsAre
      <3>2. n.members[k] # Absent
        BY <2>2, <3>1
      <3> QED
        BY <1>7, <3>1, <3>2, StepsAre
    <2>5. ASSUME NEW s \in StepsOf(n)
          PROVE  /\ ~Fits(seg, s) => s \in StepsOf(r) /\ Child(r, s) = Child(n, s)
                 /\ Fits(seg, s) /\ rest # <<>> =>
                       s \in StepsOf(r) /\ Child(r, s) = ApplyIgnore[Child(n, s)][rest]
                 /\ Fits(seg, s) /\ rest = <<>> => s.index = 0 /\ s \notin StepsOf(r)
      <3>1. PICK k \in Keys : n.members[k] # Absent /\ s = At(k, 0)
        BY <1>7, StepsAre
      <3>2. Fits(seg, s) <=> k = seg.key
        BY <1>5, <1>7, <3>1 DEF Fits
      <3>3. n.members[k] \in Nodes
        BY <1>7, <3>1, NodeShape
      <3>4. s.index = 0 /\ Child(n, s) = n.members[k] /\ Child(r, s) = m[k]
        BY <1>5, <1>7, <2>3, <3>1, StepsAre
      <3>5. s \in StepsOf(r) <=> m[k] # Absent
        BY <1>5, <2>3, <3>1, StepsAre
      <3>6. CASE ~Fits(seg, s)
        BY <2>2, <3>1, <3>2, <3>4, <3>5, <3>6
      <3>7. CASE Fits(seg, s) /\ rest # <<>>
        <4>1. m[k] = ApplyIgnore[n.members[k]][rest]
          BY <2>2, <3>1, <3>2, <3>7 DEF Under
        <4> QED
          BY <1>6, <3>3, <3>4, <3>5, <3>7, <4>1
      <3>8. CASE Fits(seg, s) /\ rest = <<>>
        <4>1. m[k] = Absent
          BY <2>2, <3>1, <3>2, <3>8 DEF Under
        <4> QED
          BY <3>4, <3>5, <3>8, <4>1
      <3> QED
        BY <3>6, <3>7, <3>8
    <2> QED
      BY <1>2, <2>3, <2>4, <2>5 DEF r, seg, rest
  <1>8. CASE IsArr(n) /\ seg.isArray
    <2> DEFINE e == [i \in DOMAIN n.elems |->
                        IF Hits(seg, i) THEN Under(n.elems[i], Null) ELSE n.elems[i]]
    <2>1. r = Arr(e)
      BY <1>4, <1>8
    <2>2. /\ DOMAIN e = DOMAIN n.elems
          /\ \A i \in DOMAIN n.elems :
                e[i] = IF Hits(seg, i) THEN Under(n.elems[i], Null) ELSE n.elems[i]
      OBVIOUS
    <2> HIDE DEF e
    <2>3. IsArr(r) /\ r.elems = e /\ Label(r) = Label(n)
      <3>1. IsArr(r) /\ r.elems = e
        BY <2>1, Kinds
      <3>2. ~IsNum(r) /\ ~IsNum(n) /\ r.kind = n.kind
        BY <1>8, <3>1 DEF IsArr, IsNum
      <3> QED
        BY <3>1, <3>2 DEF Label
    <2>4. \A s : s \in StepsOf(r) <=> s \in StepsOf(n)
      BY <1>8, <2>2, <2>3, StepsAre
    <2>5. ASSUME NEW s \in StepsOf(n)
          PROVE  /\ s.index # 0
                 /\ ~Fits(seg, s) => Child(r, s) = Child(n, s)
                 /\ Fits(seg, s) /\ rest # <<>> => Child(r, s) = ApplyIgnore[Child(n, s)][rest]
                 /\ Fits(seg, s) /\ rest = <<>> => Child(r, s) = Null
      <3>1. PICK i \in DOMAIN n.elems : s = At(NoKey, i)
        BY <1>8, StepsAre
      <3>2. i \in Nat /\ i > 0
        BY <1>8, NodeShape
      <3>3. Fits(seg, s) <=> Hits(seg, i)
        BY <1>5, <1>8, <3>1, <3>2 DEF Fits, Hits
      <3>4. s.index # 0 /\ Child(n, s) = n.elems[i] /\ Child(r, s) = e[i]
        BY <1>5, <1>8, <2>3, <3>1, <3>2, StepsAre
      <3> QED
        BY <2>2, <3>1, <3>3, <3>4 DEF Under
    <2> QED
      BY <1>2, <2>3, <2>4, <2>5 DEF r, seg, rest
  <1>9. CASE ~(IsObj(n) /\ ~seg.isArray) /\ ~(IsArr(n) /\ seg.isArray)
    <2>1. r = n
      BY <1>4, <1>9
    <2>2. ASSUME NEW s \in StepsOf(n)
          PROVE  ~Fits(seg, s)
      <3>1. CASE IsObj(n)
        <4>1. s.index = 0 /\ seg.isArray
          BY <1>5, <1>9, <3>1, StepsAre
        <4> QED
          BY <4>1 DEF Fits
      <3>2. CASE IsArr(n)
        <4>1. PICK i \in DOMAIN n.elems : s = At(NoKey, i)
          BY <3>2, StepsAre
        <4>2. i \in Nat /\ i > 0
          BY <3>2, NodeShape
        <4>3. s.index # 0 /\ ~seg.isArray
          BY <1>5, <1>9, <3>2, <4>1, <4>2
        <4> QED
          BY <1>5, <4>3 DEF Fits
      <3> QED
        BY <3>1, <3>2, StepsAre
    <2> QED
      BY <1>2, <2>1, <2>2 DEF r, seg, rest
  <1> QED
    BY <1>7, <1>8, <1>9

\* The path names a place at or above this one.
Leads(segs, place) ==
    Len(segs) <= Len(place) /\ \A i \in 1..Len(segs) : Fits(segs[i], place[i])

\* The place of an element.
IsElement(place) == place # <<>> /\ place[Len(place)].index # 0

LEMMA LeadsOn ==
    ASSUME NEW segs \in Patterns
    PROVE  /\ ~Leads(segs, <<>>) /\ ~Matches(segs, <<>>)
           /\ \A s \in Steps : \A q \in Seq(Steps) :
                 /\ Leads(segs, <<s>> \o q) <=>
                      Fits(Head(segs), s) /\ (Tail(segs) = <<>> \/ Leads(Tail(segs), q))
                 /\ Matches(segs, <<s>> \o q) <=>
                      /\ Fits(Head(segs), s)
                      /\ IF Tail(segs) = <<>> THEN q = <<>> ELSE Matches(Tail(segs), q)
                 /\ IsElement(<<s>> \o q) <=> IF q = <<>> THEN s.index # 0 ELSE IsElement(q)
  <1> DEFINE rest == Tail(segs)
             n == Len(segs)
  <1>1. /\ segs \in Seq(Segment) /\ n \in Nat /\ n > 0
        /\ Head(segs) = segs[1] /\ rest \in Seq(Segment)
        /\ Len(rest) = n - 1 /\ \A i \in 1..Len(rest) : rest[i] = segs[i + 1]
    <2>1. segs \in Seq(Segment) /\ segs # <<>>
      BY SegmentsOf
    <2> QED
      BY <2>1, HeadTailProperties, LenProperties
  <1> HIDE DEF rest, n
  <1>2. rest = <<>> <=> n = 1
    BY <1>1, EmptySeq
  <1>3. ~Leads(segs, <<>>) /\ ~Matches(segs, <<>>)
    BY <1>1 DEF Leads, Matches, n
  <1>4. ASSUME NEW s \in Steps, NEW q \in Seq(Steps)
        PROVE  /\ Leads(segs, <<s>> \o q) <=>
                    Fits(Head(segs), s) /\ (rest = <<>> \/ Leads(rest, q))
               /\ Matches(segs, <<s>> \o q) <=>
                    /\ Fits(Head(segs), s)
                    /\ IF rest = <<>> THEN q = <<>> ELSE Matches(rest, q)
               /\ IsElement(<<s>> \o q) <=> IF q = <<>> THEN s.index # 0 ELSE IsElement(q)
    <2> DEFINE p == <<s>> \o q
               m == Len(q)
    <2>1. /\ p \in Seq(Steps) /\ Len(p) = m + 1 /\ m \in Nat /\ p # <<>>
          /\ p[1] = s /\ \A i \in 1..m : p[i + 1] = q[i]
      OBVIOUS
    <2>2. q = <<>> <=> m = 0
      OBVIOUS
    <2>3. DOMAIN p = 1..(m + 1) /\ DOMAIN q = 1..m
      BY <2>1, LenProperties
    <2> HIDE DEF p, m
    <2>4. ASSUME NEW k \in Nat, k <= n, k <= m + 1, k > 0
          PROVE  (\A i \in 1..k : Fits(segs[i], p[i]))
                 <=> Fits(Head(segs), s) /\ \A i \in 1..(k - 1) : Fits(rest[i], q[i])
      <3>1. ASSUME \A i \in 1..k : Fits(segs[i], p[i]), NEW j \in 1..(k - 1)
            PROVE  Fits(rest[j], q[j])
        <4>1. j + 1 \in 1..k /\ rest[j] = segs[j + 1] /\ p[j + 1] = q[j]
          BY <1>1, <2>1, <2>4
        <4> QED
          BY <3>1, <4>1
      <3>2. ASSUME Fits(Head(segs), s), \A i \in 1..(k - 1) : Fits(rest[i], q[i]),
                   NEW j \in 1..k
            PROVE  Fits(segs[j], p[j])
        <4>1. CASE j = 1
          BY <1>1, <2>1, <3>2, <4>1
        <4>2. CASE j # 1
          <5> DEFINE i == j - 1
          <5>1. i \in 1..(k - 1) /\ i + 1 = j
            BY <2>4, <4>2
          <5> HIDE DEF i
          <5>2. rest[i] = segs[i + 1] /\ p[i + 1] = q[i]
            BY <1>1, <2>1, <2>4, <5>1
          <5> QED
            BY <3>2, <5>1, <5>2
        <4> QED
          BY <4>1, <4>2
      <3>3. 1 \in 1..k /\ Head(segs) = segs[1] /\ p[1] = s
        BY <1>1, <2>1, <2>4
      <3> QED
        BY <3>1, <3>2, <3>3
    <2>5. Leads(segs, p) <=> Fits(Head(segs), s) /\ (rest = <<>> \/ Leads(rest, q))
      <3>1. Leads(segs, p) <=> n <= m + 1 /\ \A i \in 1..n : Fits(segs[i], p[i])
        BY <2>1 DEF Leads, n
      <3>2. Leads(rest, q) <=> n - 1 <= m /\ \A i \in 1..(n - 1) : Fits(rest[i], q[i])
        BY <1>1 DEF Leads, m
      <3>3. n <= m + 1 => ((\A i \in 1..n : Fits(segs[i], p[i]))
                 <=> Fits(Head(segs), s) /\ \A i \in 1..(n - 1) : Fits(rest[i], q[i]))
        <4>1. n \in Nat /\ n <= n /\ n > 0
          BY <1>1
        <4> QED
          BY <2>4, <4>1, Zenon
      <3> QED
        BY <1>1, <1>2, <2>1, <3>1, <3>2, <3>3
    <2>6. Matches(segs, p) <=> /\ Fits(Head(segs), s)
                               /\ IF rest = <<>> THEN q = <<>> ELSE Matches(rest, q)
      <3>1. Matches(segs, p) <=> n = m + 1 /\ \A i \in 1..n : Fits(segs[i], p[i])
        BY <2>1, <2>3 DEF Matches, n
      <3>2. Matches(rest, q) <=> n - 1 = m /\ \A i \in 1..(n - 1) : Fits(rest[i], q[i])
        BY <1>1, <2>3 DEF Matches, m
      <3>3. n = m + 1 => ((\A i \in 1..n : Fits(segs[i], p[i]))
                 <=> Fits(Head(segs), s) /\ \A i \in 1..(n - 1) : Fits(rest[i], q[i]))
        <4>1. n \in Nat /\ n <= n /\ n > 0 /\ (n = m + 1 => n <= m + 1)
          BY <1>1, <2>1
        <4> QED
          BY <2>4, <4>1, Zenon
      <3> QED
        BY <1>1, <1>2, <2>1, <2>2, <3>1, <3>2, <3>3
    <2>7. IsElement(p) <=> IF q = <<>> THEN s.index # 0 ELSE IsElement(q)
      <3>1. q = <<>> => p[Len(p)] = s
        BY <2>1, <2>2
      <3>2. q # <<>> => p[Len(p)] = q[Len(q)]
        <4>1. q # <<>> => m \in 1..m
          BY <2>1, <2>2
        <4> QED
          BY <2>1, <4>1 DEF m
      <3> QED
        BY <2>1, <3>1, <3>2 DEF IsElement
    <2> QED
      BY <2>5, <2>6, <2>7 DEF p
  <1> QED
    BY <1>3, <1>4 DEF rest

Present(n, place) == \E l : <<place, l>> \in Content[n]

\* What is at or below a place that the path names is gone, but an element
\* itself becomes null.
LEMMA StruckContent ==
    ASSUME NEW n \in Nodes, NEW segs \in Patterns
    PROVE  /\ ApplyIgnore[n][segs] \in Nodes
           /\ \A p \in Seq(Steps) : \A l :
                 <<p, l>> \in Content[ApplyIgnore[n][segs]]
                 <=> \/ ~Leads(segs, p) /\ <<p, l>> \in Content[n]
                     \/ Matches(segs, p) /\ IsElement(p) /\ l = Null /\ Present(n, p)
  <1> DEFINE Is(m, path) ==
               \A p \in Seq(Steps) : \A l :
                  <<p, l>> \in Content[ApplyIgnore[m][path]]
                  <=> \/ ~Leads(path, p) /\ <<p, l>> \in Content[m]
                      \/ Matches(path, p) /\ IsElement(p) /\ l = Null /\ Present(m, p)
             S == {m \in Nodes : \A path \in Patterns : Is(m, path)}
  <1>1. ASSUME NEW m \in Nodes, \A s \in StepsOf(m) : Child(m, s) \in S,
               NEW path \in Patterns, NEW p \in Seq(Steps), NEW l
        PROVE  <<p, l>> \in Content[ApplyIgnore[m][path]]
               <=> \/ ~Leads(path, p) /\ <<p, l>> \in Content[m]
                   \/ Matches(path, p) /\ IsElement(p) /\ l = Null /\ Present(m, p)
    <2> DEFINE r == ApplyIgnore[m][path]
               seg == Head(path)
               rest == Tail(path)
    <2>1. /\ r \in Nodes /\ Label(r) = Label(m)
          /\ StepsOf(r) \subseteq StepsOf(m)
          /\ \A s \in StepsOf(m) :
                /\ ~Fits(seg, s) => s \in StepsOf(r) /\ Child(r, s) = Child(m, s)
                /\ Fits(seg, s) /\ rest # <<>> =>
                      s \in StepsOf(r) /\ Child(r, s) = ApplyIgnore[Child(m, s)][rest]
                /\ Fits(seg, s) /\ rest = <<>> =>
                      IF s.index = 0 THEN s \notin StepsOf(r)
                      ELSE s \in StepsOf(r) /\ Child(r, s) = Null
      BY StruckSteps
    <2>2. rest # <<>> => rest \in Patterns
      BY SegmentsOf
    <2>3. CASE p = <<>>
      <3>1. ~Leads(path, p) /\ ~Matches(path, p)
        BY <2>3, LeadsOn
      <3> QED
        BY <2>1, <2>3, <3>1, ContentIs
    <2>4. CASE p # <<>>
      <3> DEFINE s == Head(p)
                 q == Tail(p)
                 c == Child(m, s)
      <3>1. s \in Steps /\ q \in Seq(Steps) /\ p = <<s>> \o q
        BY <2>4, Places
      <3> HIDE DEF s, q
      <3>2. /\ Leads(path, p) <=> Fits(seg, s) /\ (rest = <<>> \/ Leads(rest, q))
            /\ Matches(path, p) <=>
                 Fits(seg, s) /\ IF rest = <<>> THEN q = <<>> ELSE Matches(rest, q)
            /\ IsElement(p) <=> IF q = <<>> THEN s.index # 0 ELSE IsElement(q)
        BY <3>1, LeadsOn
      <3>3. \A x : /\ <<p, x>> \in Content[m] <=> s \in StepsOf(m) /\ <<q, x>> \in Content[c]
                   /\ <<p, x>> \in Content[r]
                      <=> s \in StepsOf(r) /\ <<q, x>> \in Content[Child(r, s)]
        BY <2>1, <3>1, ContentIs
      <3> HIDE DEF r, seg, rest, c
      <3>4. CASE s \notin StepsOf(m)
        BY <2>1, <3>3, <3>4 DEF Present, r
      <3>5. CASE s \in StepsOf(m) /\ ~Fits(seg, s)
        <4>1. s \in StepsOf(r) /\ Child(r, s) = c
          BY <2>1, <3>5 DEF c
        <4> QED
          BY <3>2, <3>3, <3>5, <4>1 DEF r
      <3>6. CASE s \in StepsOf(m) /\ Fits(seg, s) /\ rest # <<>>
        <4>1. s \in StepsOf(r) /\ Child(r, s) = ApplyIgnore[c][rest] /\ c \in S
          BY <1>1, <2>1, <3>6 DEF c
        <4>2. <<q, l>> \in Content[ApplyIgnore[c][rest]]
              <=> \/ ~Leads(rest, q) /\ <<q, l>> \in Content[c]
                  \/ Matches(rest, q) /\ IsElement(q) /\ l = Null /\ Present(c, q)
          BY <2>2, <3>1, <3>6, <4>1
        <4>3. q = <<>> => ~Matches(rest, q)
          BY <2>2, <3>6, LeadsOn
        <4>4. Present(m, p) <=> Present(c, q)
          BY <3>3, <3>6 DEF Present
        <4> HIDE DEF Is, S
        <4>5. <<p, l>> \in Content[r] <=> <<q, l>> \in Content[ApplyIgnore[c][rest]]
          BY <3>3, <4>1
        <4> QED
          BY <3>2, <3>3, <3>6, <4>2, <4>3, <4>4, <4>5 DEF r
      <3>7. CASE s \in StepsOf(m) /\ Fits(seg, s) /\ rest = <<>>
        <4>1. c \in Nodes
          BY <3>7, NodeShape DEF c
        <4>2. IF s.index = 0 THEN s \notin StepsOf(r)
              ELSE s \in StepsOf(r) /\ Child(r, s) = Null
          BY <2>1, <3>7
        <4>3. <<q, l>> \in Content[Null] <=> q = <<>> /\ l = Null
          <5>1. Null \in Nodes /\ StepsOf(Null) = {} /\ Label(Null) = Null
            <6>1. Null \in Nodes
              BY LevelsGrow, Kinds, DepthAssumption
            <6> QED
              BY <6>1, Kinds, StepsBelow DEF Label, Null
          <5>2. CASE q = <<>>
            BY <5>1, <5>2, ContentIs
          <5>3. CASE q # <<>>
            <6>1. Head(q) \in Steps /\ Tail(q) \in Seq(Steps) /\ q = <<Head(q)>> \o Tail(q)
              BY <3>1, <5>3, Places
            <6> QED
              BY <5>1, <5>3, <6>1, ContentIs
          <5> QED
            BY <5>2, <5>3
        <4>4. q = <<>> => Present(m, p)
          BY <3>3, <3>7, <4>1, ContentIs DEF Present
        <4> HIDE DEF Is, S
        <4>5. <<p, l>> \in Content[r] <=> s.index # 0 /\ q = <<>> /\ l = Null
          BY <3>3, <4>2, <4>3
        <4>6. Matches(path, p) /\ IsElement(p) <=> q = <<>> /\ s.index # 0
          BY <3>2, <3>7
        <4>7. Leads(path, p)
          BY <3>2, <3>7
        <4> QED
          BY <4>4, <4>5, <4>6, <4>7 DEF r
      <3> QED
        BY <3>4, <3>5, <3>6, <3>7
    <2> QED
      BY <2>3, <2>4
  <1>2. ASSUME NEW m \in Nodes, \A s \in StepsOf(m) : Child(m, s) \in S
        PROVE  m \in S
    <2>1. ASSUME NEW path \in Patterns
          PROVE  Is(m, path)
      <3> HIDE DEF S, Is
      <3>1. ASSUME NEW p \in Seq(Steps), NEW l
            PROVE  <<p, l>> \in Content[ApplyIgnore[m][path]]
                   <=> \/ ~Leads(path, p) /\ <<p, l>> \in Content[m]
                       \/ Matches(path, p) /\ IsElement(p) /\ l = Null /\ Present(m, p)
        BY <1>1, <1>2
      <3> QED
        BY <3>1, Zenon DEF Is
    <2> HIDE DEF Is
    <2> QED
      BY <2>1
  <1> HIDE DEF S
  <1>3. n \in S
    BY <1>2, NodeInduction
  <1>4. ApplyIgnore[n][segs] \in Nodes
    BY StruckSteps
  <1> QED
    BY <1>3, <1>4 DEF S, Is

-----------------------------------------------------------------------------
(* What Prepare does to what a tree says.                                  *)

LEMMA PreparedTyped == \A d \in 0..MaxDepth : \A n \in Level[d] : Prepare[n] \in Level[d]
  <1> DEFINE S == {d \in 0..MaxDepth : \A n \in Level[d] : Prepare[n] \in Level[d]}
  <1>1. ASSUME NEW d \in 0..MaxDepth, NEW n \in Level[d], n \in Scalars
        PROVE  Prepare[n] \in Level[d]
    <2>1. n \in Nodes
      BY LevelsGrow
    <2>2. CASE IsNum(n)
      <3>1. n.lit \in JSONNumbers /\ ~IsObj(n) /\ ~IsArr(n)
        BY <1>1, <2>2, Kinds
      <3>2. Prepare[n] = Num(CanonicalNumber(n.lit))
        BY <2>1, <2>2, <3>1, PrepareDef DEF PreparedBy
      <3>3. Prepare[n] \in Scalars
        BY <3>1, <3>2, FormKeepsNumber, Kinds
      <3> QED
        BY <3>3, LevelsGrow
    <2>3. CASE ~IsNum(n)
      <3>1. ~IsObj(n) /\ ~IsArr(n)
        BY <1>1, Kinds
      <3> QED
        BY <2>1, <2>3, <3>1, PrepareDef DEF PreparedBy
    <2> QED
      BY <2>2, <2>3
  <1>2. 0 \in S
    BY <1>1, DepthAssumption, LevelDef
  <1>3. ASSUME NEW d \in 0..MaxDepth, d + 1 \in 0..MaxDepth, d \in S
        PROVE  d + 1 \in S
    <2> SUFFICES ASSUME NEW n \in Level[d + 1]
                 PROVE  Prepare[n] \in Level[d + 1]
      BY <1>3
    <2>1. Prepare[n] = PreparedBy(Prepare, n)
      BY <1>3, LevelsGrow, PrepareDef
    <2>2. CASE IsObj(n)
      <3> DEFINE m == [k \in Keys |-> IF k \in Volatile \/ n.members[k] = Absent
                                      THEN Absent ELSE Prepare[n.members[k]]]
      <3>1. n.members \in [Keys -> Level[d] \cup {Absent}]
        BY <1>3, <2>2, ChildrenBelow
      <3>2. m \in [Keys -> Level[d] \cup {Absent}]
        BY <1>3, <3>1
      <3>3. PreparedBy(Prepare, n) = Obj(m)
        BY <2>2 DEF PreparedBy, IsObj, IsArr, IsNum
      <3> HIDE DEF m
      <3> QED
        BY <1>3, <2>1, <3>2, <3>3, LevelUp
    <2>3. CASE IsArr(n)
      <3> DEFINE e == [i \in DOMAIN n.elems |-> Prepare[n.elems[i]]]
      <3>1. n.elems \in Seq(Level[d]) /\ \A i \in DOMAIN n.elems : n.elems[i] \in Level[d]
        BY <1>3, <2>3, ChildrenBelow
      <3>2. DOMAIN n.elems = 1..Len(n.elems) /\ Len(n.elems) \in Nat
        BY <3>1
      <3>3. e \in [1..Len(n.elems) -> Level[d]]
        BY <1>3, <3>1, <3>2
      <3>4. PreparedBy(Prepare, n) = Arr(e)
        BY <2>3 DEF PreparedBy, IsObj, IsArr, IsNum
      <3> HIDE DEF e
      <3>5. e \in Seq(Level[d])
        BY <3>2, <3>3, IsSequence
      <3> QED
        BY <1>3, <2>1, <3>4, <3>5, LevelUp
    <2>4. CASE ~IsObj(n) /\ ~IsArr(n)
      BY <1>1, <1>3, <2>4, ChildrenBelow
    <2> QED
      BY <2>2, <2>3, <2>4
  <1> HIDE DEF S
  <1>4. \A d \in 0..MaxDepth : d \in S
    BY <1>2, <1>3, DepthInduction
  <1> QED
    BY <1>4 DEF S

VolatileStep(s) == s.index = 0 /\ s.key \in Volatile

\* The form of what stands at a place.
Canon(label) == IF IsNum(label) THEN Num(CanonicalNumber(label.lit)) ELSE label

LEMMA PreparedSteps ==
    ASSUME NEW n \in Nodes
    PROVE  LET r == Prepare[n]
           IN  /\ r \in Nodes /\ Label(r) = Canon(Label(n))
               /\ \A s : s \in StepsOf(r) <=> s \in StepsOf(n) /\ ~VolatileStep(s)
               /\ \A s \in StepsOf(r) : Child(r, s) = Prepare[Child(n, s)]
  <1> DEFINE r == Prepare[n]
  <1>1. r = PreparedBy(Prepare, n)
    BY PrepareDef
  <1>2. r \in Nodes
    BY PreparedTyped, DepthAssumption DEF Nodes
  <1>3. \A k, i : At(k, i).key = k /\ At(k, i).index = i
    BY DEF At
  <1>4. \A c \in Nodes : Prepare[c] # Absent
    BY PreparedTyped, LevelsGrow, DepthAssumption DEF Nodes
  <1> HIDE DEF r
  <1>5. CASE IsObj(n)
    <2> DEFINE m == [k \in Keys |-> IF k \in Volatile \/ n.members[k] = Absent
                                    THEN Absent ELSE Prepare[n.members[k]]]
    <2>1. r = Obj(m)
      BY <1>1, <1>5 DEF PreparedBy, IsObj, IsArr, IsNum
    <2>2. \A k \in Keys : m[k] = IF k \in Volatile \/ n.members[k] = Absent
                                 THEN Absent ELSE Prepare[n.members[k]]
      OBVIOUS
    <2> HIDE DEF m
    <2>3. IsObj(r) /\ r.members = m
      BY <2>1, Kinds
    <2>4. Label(r) = Canon(Label(n))
      <3>1. ~IsNum(r) /\ ~IsNum(n) /\ r.kind = n.kind
        BY <1>5, <2>3 DEF IsObj, IsNum
      <3> QED
        BY <3>1 DEF Label, Canon, IsNum
    <2>5. \A k \in Keys : n.members[k] # Absent => n.members[k] \in Nodes
      BY <1>5, NodeShape
    <2>6. \A k \in Keys : m[k] # Absent <=> n.members[k] # Absent /\ k \notin Volatile
      BY <1>4, <2>2, <2>5
    <2>7. ASSUME NEW s
          PROVE  s \in StepsOf(r) <=> s \in StepsOf(n) /\ ~VolatileStep(s)
      <3>1. s \in StepsOf(r) <=> \E k \in Keys : m[k] # Absent /\ s = At(k, 0)
        BY <2>3, StepsAre
      <3>2. s \in StepsOf(n) <=> \E k \in Keys : n.members[k] # Absent /\ s = At(k, 0)
        BY <1>5, StepsAre
      <3>3. \A k : s = At(k, 0) => s.key = k /\ s.index = 0
        BY <1>3
      <3> QED
        BY <2>6, <3>1, <3>2, <3>3 DEF VolatileStep
    <2>8. ASSUME NEW s \in StepsOf(r)
          PROVE  Child(r, s) = Prepare[Child(n, s)]
      <3>1. PICK k \in Keys : m[k] # Absent /\ s = At(k, 0)
        BY <2>3, StepsAre
      <3>2. Child(r, s) = m[k] /\ Child(n, s) = n.members[k]
        BY <1>5, <2>3, <3>1, StepsAre
      <3> QED
        BY <2>2, <3>1, <3>2
    <2> QED
      BY <1>2, <2>4, <2>7, <2>8 DEF r
  <1>6. CASE IsArr(n)
    <2> DEFINE e == [i \in DOMAIN n.elems |-> Prepare[n.elems[i]]]
    <2>1. r = Arr(e)
      BY <1>1, <1>6 DEF PreparedBy, IsObj, IsArr, IsNum
    <2>2. /\ DOMAIN e = DOMAIN n.elems
          /\ \A i \in DOMAIN n.elems : e[i] = Prepare[n.elems[i]]
      OBVIOUS
    <2> HIDE DEF e
    <2>3. IsArr(r) /\ r.elems = e
      BY <2>1, Kinds
    <2>4. Label(r) = Canon(Label(n))
      <3>1. ~IsNum(r) /\ ~IsNum(n) /\ r.kind = n.kind
        BY <1>6, <2>3 DEF IsArr, IsNum
      <3> QED
        BY <3>1 DEF Label, Canon, IsNum
    <2>5. \A s : s \in StepsOf(r) <=> s \in StepsOf(n)
      BY <1>6, <2>2, <2>3, StepsAre
    <2>6. ASSUME NEW s \in StepsOf(n)
          PROVE  ~VolatileStep(s) /\ Child(r, s) = Prepare[Child(n, s)]
      <3>1. PICK i \in DOMAIN n.elems : s = At(NoKey, i)
        BY <1>6, StepsAre
      <3>2. i \in Nat /\ i > 0
        BY <1>6, NodeShape
      <3>3. s.index # 0
        BY <1>3, <3>1, <3>2
      <3>4. Child(r, s) = e[i] /\ Child(n, s) = n.elems[i]
        BY <1>6, <2>3, <3>1, StepsAre
      <3> QED
        BY <2>2, <3>1, <3>3, <3>4 DEF VolatileStep
    <2> QED
      BY <1>2, <2>4, <2>5, <2>6 DEF r
  <1>7. CASE ~IsObj(n) /\ ~IsArr(n)
    <2>1. n \in Scalars /\ StepsOf(n) = {}
      BY <1>7, NodeShape, StepsAre
    <2>2. CASE IsNum(n)
      <3>1. r = Num(CanonicalNumber(n.lit))
        BY <1>1, <1>7, <2>2 DEF PreparedBy
      <3>2. IsNum(r) /\ Label(n) = n /\ Label(r) = r
        BY <2>2, <3>1, Kinds DEF Label
      <3>3. ~IsObj(r) /\ ~IsArr(r)
        BY <3>2 DEF IsNum, IsObj, IsArr
      <3>4. StepsOf(r) = {}
        BY <3>3, StepsAre
      <3> QED
        BY <1>2, <2>1, <2>2, <3>1, <3>2, <3>4 DEF r, Canon
    <2>3. CASE ~IsNum(n)
      <3>1. r = n /\ n = Null
        BY <1>1, <1>7, <2>1, <2>3, Kinds DEF PreparedBy
      <3>2. ~IsNum(Label(n)) /\ Label(r) = Label(n)
        BY <2>3, <3>1 DEF Label, IsNum
      <3> QED
        BY <1>2, <2>1, <3>1, <3>2 DEF r, Canon
    <2> QED
      BY <2>2, <2>3
  <1> QED
    BY <1>5, <1>6, <1>7

\* The place is at or below a volatile key.
Unseen(place) == \E i \in DOMAIN place : VolatileStep(place[i])

LEMMA UnseenOn ==
    /\ ~Unseen(<<>>)
    /\ \A s \in Steps : \A q \in Seq(Steps) :
          Unseen(<<s>> \o q) <=> VolatileStep(s) \/ Unseen(q)
  <1>1. ASSUME NEW s \in Steps, NEW q \in Seq(Steps)
        PROVE  Unseen(<<s>> \o q) <=> VolatileStep(s) \/ Unseen(q)
    <2> DEFINE p == <<s>> \o q
    <2>1. /\ Len(q) \in Nat /\ DOMAIN q = 1..Len(q) /\ DOMAIN p = 1..(Len(q) + 1)
          /\ p[1] = s /\ \A i \in 1..Len(q) : p[i + 1] = q[i]
      OBVIOUS
    <2> HIDE DEF p
    <2>2. \A i \in DOMAIN p : i = 1 \/ (i - 1 \in 1..Len(q) /\ p[i] = q[i - 1])
      <3>1. \A i \in DOMAIN p : i # 1 => i - 1 \in 1..Len(q) /\ (i - 1) + 1 = i
        BY <2>1
      <3> QED
        BY <2>1, <3>1
    <2>3. 1 \in DOMAIN p /\ \A i \in DOMAIN q : i + 1 \in DOMAIN p
      BY <2>1
    <2>4. ASSUME Unseen(p)
          PROVE  VolatileStep(s) \/ Unseen(q)
      <3>1. PICK i \in DOMAIN p : VolatileStep(p[i])
        BY <2>4 DEF Unseen
      <3> QED
        BY <2>1, <2>2, <3>1 DEF Unseen
    <2>5. ASSUME VolatileStep(s) \/ Unseen(q)
          PROVE  Unseen(p)
      BY <2>1, <2>3, <2>5 DEF Unseen
    <2> QED
      BY <2>4, <2>5 DEF p
  <1>2. ~Unseen(<<>>)
    BY DEF Unseen
  <1> QED
    BY <1>1, <1>2

\* What stands at a place, as a form.
FormAt(n, place, l) == \E x : <<place, x>> \in Content[n] /\ l = Canon(x)

\* A prepared tree says the forms of what the tree says outside volatile keys.
LEMMA PreparedContent ==
    ASSUME NEW n \in Nodes
    PROVE  /\ Prepare[n] \in Nodes
           /\ \A p \in Seq(Steps) : \A l :
                 <<p, l>> \in Content[Prepare[n]]
                 <=> ~Unseen(p) /\ FormAt(n, p, l)
  <1> DEFINE Is(m) == \A p \in Seq(Steps) : \A l :
                         <<p, l>> \in Content[Prepare[m]]
                         <=> ~Unseen(p) /\ FormAt(m, p, l)
             S == {m \in Nodes : Is(m)}
  <1>1. ASSUME NEW m \in Nodes, \A s \in StepsOf(m) : Child(m, s) \in S,
               NEW p \in Seq(Steps), NEW l
        PROVE  <<p, l>> \in Content[Prepare[m]]
               <=> ~Unseen(p) /\ FormAt(m, p, l)
    <2> DEFINE r == Prepare[m]
    <2>1. /\ r \in Nodes /\ Label(r) = Canon(Label(m))
          /\ \A s : s \in StepsOf(r) <=> s \in StepsOf(m) /\ ~VolatileStep(s)
          /\ \A s \in StepsOf(r) : Child(r, s) = Prepare[Child(m, s)]
      BY PreparedSteps
    <2> HIDE DEF r
    <2>2. CASE p = <<>>
      <3>1. ASSUME NEW x
            PROVE  /\ <<p, x>> \in Content[r] <=> x = Label(r)
                   /\ <<p, x>> \in Content[m] <=> x = Label(m)
        BY <2>1, <2>2, ContentIs
      <3>2. FormAt(m, p, l) <=> l = Canon(Label(m))
        BY <3>1 DEF FormAt
      <3>3. ~Unseen(p)
        BY <2>2, UnseenOn
      <3> QED
        BY <2>1, <3>1, <3>2, <3>3 DEF r
    <2>3. CASE p # <<>>
      <3> DEFINE s == Head(p)
                 q == Tail(p)
                 c == Child(m, s)
      <3>1. s \in Steps /\ q \in Seq(Steps) /\ p = <<s>> \o q
        BY <2>3, Places
      <3> HIDE DEF s, q
      <3>2. Unseen(p) <=> VolatileStep(s) \/ Unseen(q)
        BY <3>1, UnseenOn
      <3>3. \A x : /\ <<p, x>> \in Content[m] <=> s \in StepsOf(m) /\ <<q, x>> \in Content[c]
                   /\ <<p, x>> \in Content[r]
                      <=> s \in StepsOf(r) /\ <<q, x>> \in Content[Child(r, s)]
        BY <2>1, <3>1, ContentIs
      <3> HIDE DEF c
      <3>4. CASE s \notin StepsOf(r)
        BY <2>1, <3>2, <3>3, <3>4 DEF FormAt, r
      <3>5. CASE s \in StepsOf(r)
        <4>1. s \in StepsOf(m) /\ ~VolatileStep(s) /\ Child(r, s) = Prepare[c]
          BY <2>1, <3>5 DEF c
        <4>2. c \in S
          BY <1>1, <4>1 DEF c
        <4>3. <<q, l>> \in Content[Prepare[c]]
              <=> ~Unseen(q) /\ FormAt(c, q, l)
          BY <3>1, <4>2
        <4>4. FormAt(m, p, l) <=> FormAt(c, q, l)
          BY <3>3, <4>1 DEF FormAt
        <4> HIDE DEF Is, S
        <4> QED
          BY <3>2, <3>3, <3>5, <4>1, <4>3, <4>4 DEF r
      <3> QED
        BY <3>4, <3>5
    <2> QED
      BY <2>2, <2>3
  <1>2. ASSUME NEW m \in Nodes, \A s \in StepsOf(m) : Child(m, s) \in S
        PROVE  m \in S
    <2> HIDE DEF S, Is
    <2>1. ASSUME NEW p \in Seq(Steps), NEW l
          PROVE  <<p, l>> \in Content[Prepare[m]]
                 <=> ~Unseen(p) /\ FormAt(m, p, l)
      BY <1>1, <1>2
    <2>2. Is(m)
      BY <2>1, Zenon DEF Is
    <2> QED
      BY <2>2 DEF S
  <1> HIDE DEF S
  <1>3. n \in S
    BY <1>2, NodeInduction
  <1>4. Prepare[n] \in Nodes
    BY PreparedSteps
  <1> QED
    BY <1>3, <1>4, Zenon DEF S, Is

-----------------------------------------------------------------------------
(* Ignore paths and diff paths, put together from their parts.             *)

UpTo(f, parts, i) == IF i = 0 THEN <<>> ELSE f[i - 1] \o parts[i]

LEMMA AppendedUpTo ==
    ASSUME NEW T, NEW parts \in Seq(T)
    PROVE  \E f : /\ f[0] = <<>>
                  /\ \A i \in 1..Len(parts) : f[i] = f[i - 1] \o parts[i]
                  /\ Appended(parts) = f[Len(parts)]
  <1> DEFINE n == Len(parts)
             Def(f, d) == [i \in 0..d |-> UpTo(f, parts, i)]
             Is(f, d) == f = Def(f, d)
             S == {d \in Nat : \E f : Is(f, d)}
  <1>1. 0 \in S
    <2> DEFINE f == [i \in 0..0 |-> <<>>]
    <2>1. f = Def(f, 0)
      BY DEF UpTo
    <2> QED
      BY <2>1
  <1>2. ASSUME NEW d \in Nat, d \in S
        PROVE  d + 1 \in S
    <2>1. PICK f : f = Def(f, d)
      BY <1>2
    <2> DEFINE g == [i \in 0..(d + 1) |-> UpTo(f, parts, i)]
    <2>2. ASSUME NEW i \in 0..d
          PROVE  g[i] = f[i]
      BY <2>1
    <2>3. ASSUME NEW i \in 0..(d + 1)
          PROVE  UpTo(f, parts, i) = UpTo(g, parts, i)
      <3>1. i # 0 => i - 1 \in 0..d
        OBVIOUS
      <3> HIDE DEF g
      <3> QED
        BY <2>2, <3>1 DEF UpTo
    <2>4. g = Def(g, d + 1)
      BY <2>3
    <2> HIDE DEF g
    <2>5. \E f1 : Is(f1, d + 1)
      BY <2>4
    <2> HIDE DEF Is
    <2> QED
      BY <2>5
  <1> HIDE DEF S
  <1>3. n \in S
    BY <1>1, <1>2, NatSets
  <1> DEFINE g == CHOOSE f : Is(f, n)
  <1>4. Appended(parts) = g[n]
    BY DEF Appended, UpTo
  <1>5. \E f : Is(f, n)
    BY <1>3 DEF S
  <1> HIDE DEF Is
  <1>6. Is(g, n)
    BY <1>5
  <1> HIDE DEF g
  <1>7. g = Def(g, n)
    BY <1>6 DEF Is
  <1>8. \A i \in 0..n : g[i] = UpTo(g, parts, i)
    BY <1>7
  <1>9. g[0] = <<>>
    <2>1. n \in Nat /\ 0 \in 0..n
      BY LenProperties
    <2> QED
      BY <1>8, <2>1 DEF UpTo
  <1>10. ASSUME NEW i \in 1..n
         PROVE  g[i] = g[i - 1] \o parts[i]
    <2>1. i \in 0..n /\ i # 0
      OBVIOUS
    <2> QED
      BY <1>8, <2>1 DEF UpTo
  <1> QED
    BY <1>4, <1>9, <1>10

LEMMA AppendedTyped ==
    ASSUME NEW T, NEW parts \in Seq(Seq(T))
    PROVE  Appended(parts) \in Seq(T)
  <1>1. PICK f : /\ f[0] = <<>>
                 /\ \A i \in 1..Len(parts) : f[i] = f[i - 1] \o parts[i]
                 /\ Appended(parts) = f[Len(parts)]
    BY AppendedUpTo
  <1> DEFINE S == {i \in Nat : i <= Len(parts) => f[i] \in Seq(T)}
  <1>2. 0 \in S
    <2>1. <<>> \in Seq(T)
      OBVIOUS
    <2> QED
      BY <1>1, <2>1
  <1>3. ASSUME NEW i \in Nat, i \in S
        PROVE  i + 1 \in S
    <2>1. ASSUME i + 1 <= Len(parts)
          PROVE  f[i + 1] \in Seq(T)
      <3>1. i + 1 \in 1..Len(parts) /\ (i + 1) - 1 = i
        BY <2>1
      <3>2. f[i] \in Seq(T) /\ parts[i + 1] \in Seq(T)
        BY <1>3, <2>1, <3>1
      <3>3. f[i + 1] = f[i] \o parts[i + 1]
        BY <1>1, <3>1
      <3> QED
        BY <3>2, <3>3
    <2> QED
      BY <2>1
  <1> HIDE DEF S
  <1>4. Len(parts) \in S
    BY <1>2, <1>3, NatSets
  <1> QED
    BY <1>1, <1>4 DEF S

\* One part after another, each of one item.
LEMMA AppendedItems ==
    ASSUME NEW T, NEW p \in Seq(T), NEW parts \in Seq(Seq(T)), Len(parts) = Len(p),
           \A i \in 1..Len(p) : parts[i] = <<p[i]>>
    PROVE  Appended(parts) = p
  <1>1. PICK f : /\ f[0] = <<>>
                 /\ \A i \in 1..Len(p) : f[i] = f[i - 1] \o <<p[i]>>
                 /\ Appended(parts) = f[Len(p)]
    <2>1. PICK f : /\ f[0] = <<>>
                   /\ \A i \in 1..Len(parts) : f[i] = f[i - 1] \o parts[i]
                   /\ Appended(parts) = f[Len(parts)]
      BY AppendedUpTo
    <2>2. \A i \in 1..Len(p) : f[i] = f[i - 1] \o <<p[i]>>
      BY <2>1
    <2> QED
      BY <2>1, <2>2
  <1> DEFINE S == {i \in Nat : i <= Len(p) => /\ f[i] \in Seq(T) /\ Len(f[i]) = i
                                               /\ \A j \in 1..i : f[i][j] = p[j]}
  <1>2. 0 \in S
    <2>1. <<>> \in Seq(T) /\ Len(<<>>) = 0
      OBVIOUS
    <2>2. /\ f[0] \in Seq(T) /\ Len(f[0]) = 0
          /\ \A j \in 1..0 : f[0][j] = p[j]
      BY <1>1, <2>1
    <2> QED
      BY <2>2
  <1>3. ASSUME NEW i \in Nat, i \in S
        PROVE  i + 1 \in S
    <2>1. ASSUME i + 1 <= Len(p)
          PROVE  /\ f[i + 1] \in Seq(T) /\ Len(f[i + 1]) = i + 1
                 /\ \A j \in 1..(i + 1) : f[i + 1][j] = p[j]
      <3>1. i + 1 \in 1..Len(p) /\ (i + 1) - 1 = i
        BY <2>1, LenProperties
      <3>2. f[i] \in Seq(T) /\ Len(f[i]) = i /\ \A j \in 1..i : f[i][j] = p[j]
        BY <1>3, <2>1, LenProperties
      <3>3. f[i + 1] = f[i] \o <<p[i + 1]>>
        BY <1>1, <3>1
      <3>4. p[i + 1] \in T
        BY <3>1
      <3> DEFINE u == f[i]
                 x == p[i + 1]
      <3>5. /\ u \o <<x>> \in Seq(T) /\ Len(u \o <<x>>) = i + 1
            /\ \A j \in 1..(i + 1) : (u \o <<x>>)[j] = IF j <= i THEN u[j] ELSE x
        <4>1. u \in Seq(T) /\ Len(u) = i /\ x \in T
          BY <3>2, <3>4
        <4> HIDE DEF u, x
        <4> QED
          BY <4>1
      <3>6. \A j \in 1..(i + 1) : j <= i \/ j = i + 1
        OBVIOUS
      <3> QED
        BY <3>2, <3>3, <3>5, <3>6
    <2> QED
      BY <2>1
  <1> HIDE DEF S
  <1>4. Len(p) \in S
    <2>1. Len(p) \in Nat
      BY LenProperties
    <2> QED
      BY <1>2, <1>3, <2>1, NatSets
  <1>5. /\ Appended(parts) \in Seq(T) /\ Len(Appended(parts)) = Len(p)
        /\ \A j \in 1..Len(p) : Appended(parts)[j] = p[j]
    <2>1. Len(p) \in Nat
      BY LenProperties
    <2> QED
      BY <1>1, <1>4, <2>1 DEF S
  <1> QED
    BY <1>5, SeqEqual

\* No part, or a single one.
LEMMA AppendedFew ==
    ASSUME NEW T, NEW parts \in Seq(Seq(T)), Len(parts) <= 1
    PROVE  Appended(parts) = IF Len(parts) = 0 THEN <<>> ELSE parts[1]
  <1>1. PICK f : /\ f[0] = <<>>
                 /\ \A i \in 1..Len(parts) : f[i] = f[i - 1] \o parts[i]
                 /\ Appended(parts) = f[Len(parts)]
    BY AppendedUpTo
  <1>2. CASE Len(parts) = 0
    BY <1>1, <1>2
  <1>3. CASE Len(parts) = 1
    <2>1. 1 \in 1..Len(parts) /\ 1 - 1 = 0
      BY <1>3
    <2>2. parts[1] \in Seq(T)
      BY <2>1
    <2>3. f[1] = <<>> \o parts[1]
      BY <1>1, <2>1
    <2>4. <<>> \o parts[1] = parts[1]
      BY <2>2
    <2> QED
      BY <1>1, <1>3, <2>3, <2>4
  <1>4. Len(parts) = 0 \/ Len(parts) = 1
    <2>1. Len(parts) \in Nat
      BY LenProperties
    <2>2. \A k \in Nat : k <= 1 => k = 0 \/ k = 1
      OBVIOUS
    <2> QED
      BY <2>1, <2>2
  <1> QED
    BY <1>2, <1>3, <1>4

LEMMA SegmentsTyped ==
    ASSUME NEW tok \in Tokens
    PROVE  /\ KeySegment(tok.name) \in Seq(Segment)
           /\ \A i \in Int : IndexSegment(i) \in Seq(Segment)
           /\ tok.indexes \in Seq(Int)
           /\ Segments(tok) \in Seq(Segment)
  <1>1. tok.name \in Keys \cup {NoKey} /\ tok.indexes \in Seq(Int)
    BY DEF Tokens
  <1>2. KeySegment(tok.name) \in Seq(Segment)
    <2>1. ASSUME tok.name # NoKey
          PROVE  [isArray |-> FALSE, key |-> tok.name, index |-> 0] \in Segment
      BY <1>1, <2>1 DEF Segment
    <2> QED
      BY <2>1 DEF KeySegment
  <1>3. ASSUME NEW i \in Int
        PROVE  IndexSegment(i) \in Seq(Segment)
    <2>1. [isArray |-> TRUE, key |-> NoKey, index |-> i] \in Segment
      BY DEF Segment
    <2> QED
      BY <2>1 DEF IndexSegment
  <1>4. Segments(tok) \in Seq(Segment)
    <2>1. CASE tok.indexes = <<>>
      <3>1. Segments(tok) = KeySegment(tok.name) \o <<>>
        BY <2>1 DEF Segments
      <3> QED
        BY <1>2, <3>1
    <2>2. CASE tok.indexes # <<>>
      <3>1. tok.indexes[1] \in Int
        BY <1>1, <2>2, HeadTailProperties
      <3>2. Segments(tok) = KeySegment(tok.name) \o IndexSegment(tok.indexes[1])
        BY <2>2 DEF Segments
      <3>3. IndexSegment(tok.indexes[1]) \in Seq(Segment)
        BY <1>3, <3>1
      <3> QED
        BY <1>2, <3>2, <3>3
    <2> QED
      BY <2>1, <2>2
  <1> QED
    BY <1>1, <1>2, <1>3, <1>4

\* The reader of a path and the code agree where no token has two indexes.
LEMMA ReadsAre ==
    ASSUME NEW tok \in Tokens, Len(tok.indexes) <= 1
    PROVE  Reads(tok) = Segments(tok)
  <1> DEFINE ix == tok.indexes
             parts == [i \in DOMAIN ix |-> IndexSegment(ix[i])]
  <1>1. ix \in Seq(Int)
    BY SegmentsTyped
  <1>2. Len(ix) \in Nat /\ DOMAIN ix = 1..Len(ix) /\ (ix = <<>> <=> Len(ix) = 0)
    BY <1>1, LenProperties, EmptySeq
  <1>4. Len(ix) <= 1
    OBVIOUS
  <1> HIDE DEF ix
  <1>3. \A i \in DOMAIN ix : IndexSegment(ix[i]) \in Seq(Segment)
    <2>1. \A i \in DOMAIN ix : ix[i] \in Int
      BY <1>1
    <2> QED
      BY <2>1, SegmentsTyped
  <1>5. parts \in [1..Len(ix) -> Seq(Segment)]
    BY <1>2, <1>3
  <1>6. ix # <<>> => parts[1] = IndexSegment(ix[1])
    BY <1>2, <1>4
  <1>7. Reads(tok) = KeySegment(tok.name) \o Appended(parts)
    BY DEF Reads, ix
  <1>8. Segments(tok) = KeySegment(tok.name)
                        \o (IF ix = <<>> THEN <<>> ELSE IndexSegment(ix[1]))
    BY DEF Segments, ix
  <1> HIDE DEF parts
  <1>9. parts \in Seq(Seq(Segment)) /\ Len(parts) = Len(ix)
    BY <1>2, <1>5, IsSequence
  <1>10. Appended(parts) = IF Len(parts) = 0 THEN <<>> ELSE parts[1]
    BY <1>4, <1>9, AppendedFew
  <1> QED
    BY <1>2, <1>6, <1>7, <1>8, <1>9, <1>10

LEMMA CompiledTyped ==
    ASSUME NEW path \in Seq(Tokens), WellFormed(path)
    PROVE  CompilePattern(path) \in Patterns
  <1> DEFINE parts == [i \in DOMAIN path |-> Segments(path[i])]
  <1>1. Len(path) \in Nat /\ DOMAIN path = 1..Len(path)
    BY LenProperties
  <1>2. \A i \in DOMAIN path : Segments(path[i]) \in Seq(Segment)
    BY SegmentsTyped
  <1>3. parts \in [1..Len(path) -> Seq(Segment)]
    BY <1>1, <1>2
  <1>4. CompilePattern(path) = Appended(parts)
    BY DEF CompilePattern
  <1> HIDE DEF parts
  <1>5. parts \in Seq(Seq(Segment))
    BY <1>1, <1>3, IsSequence
  <1>6. CompilePattern(path) \in Seq(Segment)
    BY <1>4, <1>5, AppendedTyped
  <1>7. CompilePattern(path) # <<>>
    BY DEF WellFormed
  <1> QED
    BY <1>6, <1>7 DEF Patterns

LEMMA CompiledReads ==
    ASSUME NEW path \in Seq(Tokens), \A j \in DOMAIN path : Len(path[j].indexes) <= 1
    PROVE  Appended([j \in DOMAIN path |-> Reads(path[j])]) = CompilePattern(path)
  <1>1. ASSUME NEW j \in DOMAIN path
        PROVE  Reads(path[j]) = Segments(path[j])
    <2>1. path[j] \in Tokens
      OBVIOUS
    <2> QED
      BY <2>1, ReadsAre
  <1>2. [j \in DOMAIN path |-> Reads(path[j])] = [j \in DOMAIN path |-> Segments(path[j])]
    BY <1>1
  <1> QED
    BY <1>2 DEF CompilePattern

\* A place whose keys are written as themselves reads back as itself.
LEMMA ReadPlain ==
    ASSUME NEW p \in Seq(Steps),
           \A i \in DOMAIN p : p[i].index = 0 => Written[p[i].key] = <<p[i]>>
    PROVE  Read(p) = p
  <1> DEFINE parts == [i \in DOMAIN p |-> IF p[i].index = 0 THEN Written[p[i].key] ELSE <<p[i]>>]
  <1>1. Len(p) \in Nat /\ DOMAIN p = 1..Len(p)
    BY LenProperties
  <1>2. \A i \in DOMAIN p : parts[i] = <<p[i]>>
    OBVIOUS
  <1>3. \A i \in DOMAIN p : <<p[i]>> \in Seq(Steps)
    OBVIOUS
  <1>4. DOMAIN parts = DOMAIN p /\ parts = [i \in DOMAIN p |-> parts[i]]
    OBVIOUS
  <1>5. Read(p) = Appended(parts)
    BY DEF Read
  <1> HIDE DEF parts
  <1>6. parts \in [1..Len(p) -> Seq(Steps)]
    <2>1. \A i \in 1..Len(p) : parts[i] \in Seq(Steps)
      BY <1>1, <1>2, <1>3
    <2> QED
      BY <1>1, <1>4, <2>1
  <1>7. parts \in Seq(Seq(Steps)) /\ Len(parts) = Len(p)
    BY <1>1, <1>6, IsSequence
  <1> QED
    BY <1>1, <1>2, <1>5, <1>7, AppendedItems

-----------------------------------------------------------------------------
(* The walk over two trees finds the places nearest to the root at which   *)
(* the forms differ.                                                       *)

DiffersAt(a, b, place) ==
    \E l : l # Null /\ ~(FormAt(a, place, l) <=> FormAt(b, place, l))

FirstDiffersAt(a, b, place) ==
    /\ DiffersAt(a, b, place)
    /\ \A i \in 0..(Len(place) - 1) : ~DiffersAt(a, b, SubSeq(place, 1, i))

LEMMA NullNode == Null \in Nodes /\ StepsOf(Null) = {} /\ Label(Null) = Null
  <1>1. Null \in Nodes
    BY LevelsGrow, Kinds, DepthAssumption
  <1> QED
    BY <1>1, Kinds, StepsBelow DEF Label, Null

LEMMA ChildOrNilTyped ==
    ASSUME NEW n \in Nodes, NEW s
    PROVE  ChildOrNil(n, s) \in Nodes
  BY NodeShape, NullNode DEF ChildOrNil

LEMMA FormsAre ==
    ASSUME NEW n \in Nodes, NEW l
    PROVE  /\ FormAt(n, <<>>, l) <=> l = Canon(Label(n))
           /\ \A s \in Steps : \A q \in Seq(Steps) :
                 /\ FormAt(n, <<s>> \o q, l) <=> s \in StepsOf(n) /\ FormAt(Child(n, s), q, l)
                 /\ l # Null => (FormAt(n, <<s>> \o q, l) <=> FormAt(ChildOrNil(n, s), q, l))
  <1>1. FormAt(n, <<>>, l) <=> l = Canon(Label(n))
    <2>1. ASSUME NEW x
          PROVE  << <<>>, x>> \in Content[n] <=> x = Label(n)
      BY ContentIs
    <2> QED
      BY <2>1 DEF FormAt
  <1>2. ASSUME NEW s \in Steps, NEW q \in Seq(Steps)
        PROVE  FormAt(n, <<s>> \o q, l) <=> s \in StepsOf(n) /\ FormAt(Child(n, s), q, l)
    <2>1. ASSUME NEW x
          PROVE  << <<s>> \o q, x>> \in Content[n]
                 <=> s \in StepsOf(n) /\ <<q, x>> \in Content[Child(n, s)]
      BY ContentIs
    <2> QED
      BY <2>1 DEF FormAt
  <1>3. ASSUME NEW s \in Steps, NEW q \in Seq(Steps), l # Null
        PROVE  FormAt(n, <<s>> \o q, l) <=> FormAt(ChildOrNil(n, s), q, l)
    <2>1. CASE s \in StepsOf(n)
      BY <1>2, <2>1 DEF ChildOrNil
    <2>2. CASE s \notin StepsOf(n)
      <3>1. ASSUME NEW x, <<q, x>> \in Content[Null]
            PROVE  x = Null
        <4>1. CASE q = <<>>
          BY <3>1, <4>1, NullNode, ContentIs
        <4>2. CASE q # <<>>
          <5>1. Head(q) \in Steps /\ Tail(q) \in Seq(Steps) /\ q = <<Head(q)>> \o Tail(q)
            BY <4>2, Places
          <5> QED
            BY <3>1, <5>1, NullNode, ContentIs
        <4> QED
          BY <4>1, <4>2
      <3>2. Canon(Null) = Null
        BY Kinds DEF Canon
      <3>3. ~FormAt(Null, q, l)
        BY <1>3, <3>1, <3>2 DEF FormAt
      <3> QED
        BY <1>2, <2>2, <3>3 DEF ChildOrNil
    <2> QED
      BY <2>1, <2>2
  <1> QED
    BY <1>1, <1>2, <1>3

LEMMA DiffersOn ==
    ASSUME NEW a \in Nodes, NEW b \in Nodes
    PROVE  /\ DiffersAt(a, b, <<>>) <=> Canon(Label(a)) # Canon(Label(b))
           /\ \A s \in Steps : \A q \in Seq(Steps) :
                 /\ DiffersAt(a, b, <<s>> \o q)
                    <=> DiffersAt(ChildOrNil(a, s), ChildOrNil(b, s), q)
                 /\ DiffersAt(a, b, <<s>> \o q) => s \in Branches(a, b)
  <1>1. DiffersAt(a, b, <<>>) <=> Canon(Label(a)) # Canon(Label(b))
    <2>1. \A l : /\ FormAt(a, <<>>, l) <=> l = Canon(Label(a))
                 /\ FormAt(b, <<>>, l) <=> l = Canon(Label(b))
      BY FormsAre
    <2>2. ASSUME DiffersAt(a, b, <<>>)
          PROVE  Canon(Label(a)) # Canon(Label(b))
      BY <2>1, <2>2 DEF DiffersAt
    <2>3. ASSUME Canon(Label(a)) # Canon(Label(b))
          PROVE  DiffersAt(a, b, <<>>)
      <3>1. PICK l : l # Null /\ (l = Canon(Label(a)) \/ l = Canon(Label(b)))
        BY <2>3
      <3>2. ~(FormAt(a, <<>>, l) <=> FormAt(b, <<>>, l))
        BY <2>1, <2>3, <3>1
      <3> QED
        BY <3>1, <3>2 DEF DiffersAt
    <2> QED
      BY <2>2, <2>3
  <1>2. ASSUME NEW s \in Steps, NEW q \in Seq(Steps)
        PROVE  /\ DiffersAt(a, b, <<s>> \o q)
                  <=> DiffersAt(ChildOrNil(a, s), ChildOrNil(b, s), q)
               /\ DiffersAt(a, b, <<s>> \o q) => s \in Branches(a, b)
    <2>1. ASSUME NEW l, l # Null
          PROVE  /\ FormAt(a, <<s>> \o q, l) <=> FormAt(ChildOrNil(a, s), q, l)
                 /\ FormAt(b, <<s>> \o q, l) <=> FormAt(ChildOrNil(b, s), q, l)
                 /\ FormAt(a, <<s>> \o q, l) \/ FormAt(b, <<s>> \o q, l)
                       => s \in Branches(a, b)
      BY <2>1, FormsAre DEF Branches
    <2> QED
      BY <2>1 DEF DiffersAt
  <1> QED
    BY <1>1, <1>2

LEMMA FirstDiffersOn ==
    ASSUME NEW a \in Nodes, NEW b \in Nodes
    PROVE  /\ FirstDiffersAt(a, b, <<>>) <=> DiffersAt(a, b, <<>>)
           /\ \A s \in Steps : \A q \in Seq(Steps) :
                 FirstDiffersAt(a, b, <<s>> \o q)
                 <=> /\ ~DiffersAt(a, b, <<>>)
                     /\ FirstDiffersAt(ChildOrNil(a, s), ChildOrNil(b, s), q)
  <1>1. FirstDiffersAt(a, b, <<>>) <=> DiffersAt(a, b, <<>>)
    <2>1. 0..(Len(<<>>) - 1) = {}
      OBVIOUS
    <2> QED
      BY <2>1 DEF FirstDiffersAt
  <1>2. ASSUME NEW s \in Steps, NEW q \in Seq(Steps)
        PROVE  FirstDiffersAt(a, b, <<s>> \o q)
               <=> /\ ~DiffersAt(a, b, <<>>)
                   /\ FirstDiffersAt(ChildOrNil(a, s), ChildOrNil(b, s), q)
    <2> DEFINE p == <<s>> \o q
               m == Len(q)
    <2>1. m \in Nat /\ Len(p) = m + 1 /\ p \in Seq(Steps)
      BY LenProperties
    <2>2. SubSeq(p, 1, 0) = <<>>
      OBVIOUS
    <2>3. ASSUME NEW j \in 0..(m - 1)
          PROVE  /\ SubSeq(p, 1, j + 1) = <<s>> \o SubSeq(q, 1, j)
                 /\ SubSeq(q, 1, j) \in Seq(Steps)
      <3>1. SubSeq(q, 1, j) \in Seq(Steps) /\ Len(SubSeq(q, 1, j)) = j
            /\ \A i \in 1..j : SubSeq(q, 1, j)[i] = q[i]
        BY <2>1, SubSeqProperties
      <3>2. SubSeq(p, 1, j + 1) \in Seq(Steps) /\ Len(SubSeq(p, 1, j + 1)) = j + 1
            /\ \A i \in 1..(j + 1) : SubSeq(p, 1, j + 1)[i] = p[i]
        BY <2>1, SubSeqProperties
      <3>3. p[1] = s /\ \A i \in 1..m : p[i + 1] = q[i]
        OBVIOUS
      <3> DEFINE u == SubSeq(q, 1, j)
                 v == SubSeq(p, 1, j + 1)
      <3> HIDE DEF p, m, u, v
      <3>4. /\ <<s>> \o u \in Seq(Steps) /\ Len(<<s>> \o u) = j + 1
            /\ \A i \in 1..(j + 1) : (<<s>> \o u)[i] = IF i = 1 THEN s ELSE u[i - 1]
        BY <3>1 DEF u
      <3>5. \A i \in 1..(j + 1) : v[i] = (<<s>> \o u)[i]
        <4> SUFFICES ASSUME NEW i \in 1..(j + 1)
                     PROVE  v[i] = (<<s>> \o u)[i]
          OBVIOUS
        <4>1. CASE i = 1
          BY <3>2, <3>3, <3>4, <4>1 DEF v
        <4>2. CASE i # 1
          <5>1. i - 1 \in 1..j /\ i - 1 \in 1..m /\ (i - 1) + 1 = i
            BY <2>1, <4>2
          <5> QED
            BY <3>1, <3>2, <3>3, <3>4, <4>2, <5>1 DEF u, v
        <4> QED
          BY <4>1, <4>2
      <3>6. v \in Seq(Steps) /\ Len(v) = j + 1
        BY <3>2 DEF v
      <3>7. v = <<s>> \o u
        BY <3>4, <3>5, <3>6, SeqEqual
      <3> QED
        BY <3>1, <3>7 DEF u, v
    <2> DEFINE c == ChildOrNil(a, s)
               d == ChildOrNil(b, s)
    <2>4. DiffersAt(a, b, p) <=> DiffersAt(c, d, q)
      BY DiffersOn
    <2>5. ASSUME NEW j \in 0..(m - 1)
          PROVE  DiffersAt(a, b, SubSeq(p, 1, j + 1)) <=> DiffersAt(c, d, SubSeq(q, 1, j))
      <3> DEFINE u == SubSeq(q, 1, j)
      <3>1. SubSeq(p, 1, j + 1) = <<s>> \o u /\ u \in Seq(Steps)
        BY <2>3
      <3> HIDE DEF p, m, u
      <3>2. DiffersAt(a, b, <<s>> \o u) <=> DiffersAt(c, d, u)
        BY <3>1, DiffersOn
      <3> QED
        BY <3>1, <3>2 DEF u
    <2> HIDE DEF p, m, c, d
    <2>6. (\A i \in 0..(Len(p) - 1) : ~DiffersAt(a, b, SubSeq(p, 1, i)))
          <=> /\ ~DiffersAt(a, b, <<>>)
              /\ \A j \in 0..(m - 1) : ~DiffersAt(c, d, SubSeq(q, 1, j))
      <3>1. /\ 0 \in 0..(Len(p) - 1)
            /\ \A j \in 0..(m - 1) : j + 1 \in 0..(Len(p) - 1)
            /\ \A i \in 0..(Len(p) - 1) : i = 0 \/ (i - 1 \in 0..(m - 1) /\ (i - 1) + 1 = i)
        BY <2>1
      <3> DEFINE E(i) == DiffersAt(a, b, SubSeq(p, 1, i))
                 F(j) == DiffersAt(c, d, SubSeq(q, 1, j))
      <3>2. (E(0) <=> DiffersAt(a, b, <<>>)) /\ \A j \in 0..(m - 1) : E(j + 1) <=> F(j)
        BY <2>2, <2>5
      <3> HIDE DEF E, F
      <3>3. (\A i \in 0..(Len(p) - 1) : ~E(i)) <=> ~E(0) /\ \A j \in 0..(m - 1) : ~F(j)
        BY <3>1, <3>2
      <3> QED
        BY <3>2, <3>3 DEF E, F
    <2> QED
      BY <2>4, <2>6 DEF FirstDiffersAt, p, m, c, d
  <1> QED
    BY <1>1, <1>2

\* Two objects, or two arrays.
Alike(a, b) == (IsObj(a) /\ IsObj(b)) \/ (IsArr(a) /\ IsArr(b))

LEMMA WalkOn ==
    ASSUME NEW a \in Nodes, NEW b \in Nodes
    PROVE  /\ Alike(a, b) =>
                 /\ Label(a) = Label(b)
                 /\ \A p : p \in DiffWalk[a][b]
                       <=> \E s \in Branches(a, b) :
                              \E q \in DiffWalk[ChildOrNil(a, s)][ChildOrNil(b, s)] :
                                 p = <<s>> \o q
           /\ ~Alike(a, b) =>
                 /\ \A p : p \in DiffWalk[a][b] <=> p = <<>> /\ ~JsonEqual(a, b)
                 /\ JsonEqual(a, b) => a = b \/ (IsNum(a) /\ IsNum(b))
                 /\ JsonEqual(a, b) <=> Canon(Label(a)) = Canon(Label(b))
                 /\ JsonEqual(a, b) => StepsOf(a) = {} /\ StepsOf(b) = {}
  <1>1. DiffWalk[a][b] = DiffBy(DiffWalk, a, b)
    BY DiffWalkDef
  <1>2. CASE Alike(a, b)
    <2>1. ASSUME NEW p
          PROVE  p \in DiffWalk[a][b]
                 <=> \E s \in Branches(a, b) :
                        \E q \in DiffWalk[ChildOrNil(a, s)][ChildOrNil(b, s)] : p = <<s>> \o q
      <3>1. DiffWalk[a][b] = UNION {Behind(s, DiffWalk[ChildOrNil(a, s)][ChildOrNil(b, s)]) :
                                       s \in Branches(a, b)}
        BY <1>1, <1>2 DEF DiffBy, Alike
      <3>2. p \in DiffWalk[a][b]
            <=> \E s \in Branches(a, b) :
                   p \in Behind(s, DiffWalk[ChildOrNil(a, s)][ChildOrNil(b, s)])
        BY <3>1
      <3>3. \A s : p \in Behind(s, DiffWalk[ChildOrNil(a, s)][ChildOrNil(b, s)])
                   <=> \E q \in DiffWalk[ChildOrNil(a, s)][ChildOrNil(b, s)] : p = <<s>> \o q
        BY DEF Behind
      <3> QED
        BY <3>2, <3>3
    <2>2. Label(a) = Label(b)
      BY <1>2 DEF Alike, IsObj, IsArr, IsNum, Label
    <2> QED
      BY <1>2, <2>1, <2>2
  <1>3. CASE ~Alike(a, b)
    <2>1. DiffWalk[a][b] = IF JsonEqual(a, b) THEN {} ELSE {<<>>}
      BY <1>1, <1>3 DEF DiffBy, Alike
    <2>2. \A p : p \in DiffWalk[a][b] <=> p = <<>> /\ ~JsonEqual(a, b)
      BY <2>1
    <2>3. JsonEqual(a, b) => a = b \/ (IsNum(a) /\ IsNum(b))
      BY DEF JsonEqual
    <2>4. JsonEqual(a, b) => ~IsObj(a) /\ ~IsArr(a) /\ ~IsObj(b) /\ ~IsArr(b)
      BY <1>3, <2>3 DEF Alike, IsObj, IsArr, IsNum
    <2>5. JsonEqual(a, b) => StepsOf(a) = {} /\ StepsOf(b) = {}
      BY <2>4, StepsAre
    <2>6. \A n \in Nodes : /\ IsNum(n) => Label(n) = n /\ Canon(n) = Num(CanonicalNumber(n.lit))
                                          /\ Canon(n).lit = CanonicalNumber(n.lit)
                                          /\ Canon(n).kind = "num"
                           /\ ~IsNum(n) => /\ Label(n) = [kind |-> n.kind]
                                           /\ Canon(Label(n)) = [kind |-> n.kind]
                                           /\ Canon(Label(n)).kind = n.kind
      BY DEF Label, Canon, IsNum, Num
    <2>7. CASE IsNum(a) /\ IsNum(b)
      <3>1. JsonEqual(a, b) <=> CanonicalNumber(a.lit) = CanonicalNumber(b.lit)
        BY <2>7 DEF JsonEqual
      <3>2. CanonicalNumber(a.lit) = CanonicalNumber(b.lit) <=> Canon(Label(a)) = Canon(Label(b))
        BY <2>6, <2>7
      <3> QED
        BY <1>3, <2>2, <2>3, <2>5, <3>1, <3>2
    <2>8. CASE ~(IsNum(a) /\ IsNum(b))
      <3>1. JsonEqual(a, b) <=> a = b
        BY <2>8 DEF JsonEqual
      <3>2. Canon(Label(a)) = Canon(Label(b)) => a.kind = b.kind
        BY <2>6 DEF IsNum
      <3>3. a.kind = b.kind => ~IsObj(a) /\ ~IsArr(a) /\ ~IsNum(a) /\ ~IsObj(b) /\ ~IsArr(b) /\ ~IsNum(b)
        BY <1>3, <2>8 DEF Alike, IsObj, IsArr, IsNum
      <3>4. a.kind = b.kind => a = Null /\ b = Null
        BY <3>3, NodeShape, Kinds
      <3> QED
        BY <1>3, <2>2, <2>3, <2>5, <3>1, <3>2, <3>4
    <2> QED
      BY <2>7, <2>8
  <1> QED
    BY <1>2, <1>3

\* DiffPaths names the places nearest to the root at which the forms differ.
LEMMA WalkFinds ==
    ASSUME NEW a \in Nodes, NEW b \in Nodes
    PROVE  /\ DiffWalk[a][b] \subseteq Seq(Steps)
           /\ \A p \in Seq(Steps) : p \in DiffWalk[a][b] <=> FirstDiffersAt(a, b, p)
  <1> DEFINE Finds(m, n) ==
               /\ DiffWalk[m][n] \subseteq Seq(Steps)
               /\ \A p \in Seq(Steps) : p \in DiffWalk[m][n] <=> FirstDiffersAt(m, n, p)
             S == {m \in Nodes : \A n \in Nodes : Finds(m, n)}
  <1>1. ASSUME NEW m \in Nodes, NEW n \in Nodes, ~Alike(m, n)
        PROVE  Finds(m, n)
    <2>1. \A p : p \in DiffWalk[m][n] <=> p = <<>> /\ ~JsonEqual(m, n)
      BY <1>1, WalkOn
    <2>2. /\ JsonEqual(m, n) <=> ~DiffersAt(m, n, <<>>)
          /\ JsonEqual(m, n) => StepsOf(m) = {} /\ StepsOf(n) = {}
      BY <1>1, WalkOn, DiffersOn
    <2>3. <<>> \in Seq(Steps)
      OBVIOUS
    <2>4. ASSUME NEW p \in Seq(Steps)
          PROVE  p \in DiffWalk[m][n] <=> FirstDiffersAt(m, n, p)
      <3>1. CASE p = <<>>
        BY <2>1, <2>2, <3>1, FirstDiffersOn
      <3>2. CASE p # <<>>
        <4> DEFINE s == Head(p)
                   q == Tail(p)
        <4>1. s \in Steps /\ q \in Seq(Steps) /\ p = <<s>> \o q
          BY <3>2, Places
        <4> HIDE DEF s, q
        <4>2. FirstDiffersAt(m, n, p) => ~DiffersAt(m, n, <<>>)
          BY <4>1, FirstDiffersOn
        <4>3. FirstDiffersAt(m, n, p) => DiffersAt(m, n, p)
          BY DEF FirstDiffersAt
        <4>4. DiffersAt(m, n, p) => s \in StepsOf(m) \cup StepsOf(n)
          BY <4>1, DiffersOn DEF Branches
        <4>5. ~FirstDiffersAt(m, n, p)
          BY <2>2, <4>2, <4>3, <4>4
        <4> QED
          BY <2>1, <3>2, <4>5
      <3> QED
        BY <3>1, <3>2
    <2> QED
      BY <2>1, <2>3, <2>4
  <1>2. ASSUME NEW m \in Nodes, \A s \in StepsOf(m) : Child(m, s) \in S
        PROVE  m \in S
    <2> SUFFICES ASSUME NEW n \in Nodes
                 PROVE  Finds(m, n)
      OBVIOUS
    <2>1. CASE ~Alike(m, n)
      BY <1>1, <2>1
    <2>2. CASE Alike(m, n)
      <3> DEFINE c(s) == ChildOrNil(m, s)
                 d(s) == ChildOrNil(n, s)
      <3>1. \A p : p \in DiffWalk[m][n]
                   <=> \E s \in Branches(m, n) : \E q \in DiffWalk[c(s)][d(s)] : p = <<s>> \o q
        BY <2>2, WalkOn
      <3>2. ~DiffersAt(m, n, <<>>)
        BY <2>2, WalkOn, DiffersOn
      <3>3. Branches(m, n) \subseteq Steps
        BY StepsTyped DEF Branches
      <3>4. ASSUME NEW s
            PROVE  Finds(c(s), d(s))
        <4>1. c(s) \in Nodes /\ d(s) \in Nodes
          BY ChildOrNilTyped
        <4>2. CASE s \in StepsOf(m)
          <5>1. c(s) = Child(m, s)
            BY <4>2 DEF ChildOrNil
          <5> HIDE DEF Finds
          <5> QED
            BY <1>2, <4>1, <4>2, <5>1
        <4>3. CASE s \notin StepsOf(m)
          <5>1. c(s) = Null
            BY <4>3 DEF ChildOrNil
          <5>2. ~Alike(c(s), d(s))
            BY <5>1 DEF Alike, Null, IsObj, IsArr
          <5> HIDE DEF Finds, c, d
          <5> QED
            BY <1>1, <4>1, <5>2
        <4> QED
          BY <4>2, <4>3
      <3> HIDE DEF c, d
      <3>5. DiffWalk[m][n] \subseteq Seq(Steps)
        <4> SUFFICES ASSUME NEW p \in DiffWalk[m][n]
                     PROVE  p \in Seq(Steps)
          OBVIOUS
        <4>1. PICK s \in Branches(m, n) : \E q \in DiffWalk[c(s)][d(s)] : p = <<s>> \o q
          BY <3>1
        <4> QED
          BY <3>3, <3>4, <4>1, Places
      <3>6. ASSUME NEW p \in Seq(Steps)
            PROVE  p \in DiffWalk[m][n] <=> FirstDiffersAt(m, n, p)
        <4>1. CASE p = <<>>
          <5>1. \A s \in Steps : \A q \in Seq(Steps) : <<s>> \o q # <<>>
            BY Places
          <5>2. ASSUME p \in DiffWalk[m][n]
                PROVE  FALSE
            <6>1. PICK s \in Branches(m, n) : \E q \in DiffWalk[c(s)][d(s)] : p = <<s>> \o q
              BY <3>1, <5>2
            <6> QED
              BY <3>3, <3>4, <4>1, <5>1, <6>1
          <5>3. ~FirstDiffersAt(m, n, p)
            BY <3>2, <4>1, FirstDiffersOn
          <5> QED
            BY <5>2, <5>3
        <4>2. CASE p # <<>>
          <5> DEFINE s == Head(p)
                     q == Tail(p)
          <5>1. s \in Steps /\ q \in Seq(Steps) /\ p = <<s>> \o q
            BY <4>2, Places
          <5> HIDE DEF s, q
          <5>2. FirstDiffersAt(m, n, p) <=> FirstDiffersAt(c(s), d(s), q)
            BY <3>2, <5>1, FirstDiffersOn DEF c, d
          <5>3. FirstDiffersAt(m, n, p) => s \in Branches(m, n)
            BY <5>1, DiffersOn DEF FirstDiffersAt
          <5>4. q \in DiffWalk[c(s)][d(s)] <=> FirstDiffersAt(c(s), d(s), q)
            BY <3>4, <5>1
          <5>5. p \in DiffWalk[m][n] => s \in Branches(m, n) /\ q \in DiffWalk[c(s)][d(s)]
            <6> SUFFICES ASSUME p \in DiffWalk[m][n]
                         PROVE  s \in Branches(m, n) /\ q \in DiffWalk[c(s)][d(s)]
              OBVIOUS
            <6>1. PICK s1 \in Branches(m, n) : \E q1 \in DiffWalk[c(s1)][d(s1)] : p = <<s1>> \o q1
              BY <3>1
            <6>2. PICK q1 \in DiffWalk[c(s1)][d(s1)] : p = <<s1>> \o q1
              BY <6>1
            <6>3. s1 \in Steps /\ q1 \in Seq(Steps)
              BY <3>3, <3>4, <6>2
            <6>4. Head(<<s1>> \o q1) = s1 /\ Tail(<<s1>> \o q1) = q1
              BY <6>3, Places
            <6>5. s1 = s /\ q1 = q
              BY <6>2, <6>4 DEF s, q
            <6> QED
              BY <6>2, <6>5
          <5>6. s \in Branches(m, n) /\ q \in DiffWalk[c(s)][d(s)] => p \in DiffWalk[m][n]
            BY <3>1, <5>1
          <5> QED
            BY <5>2, <5>3, <5>4, <5>5, <5>6
        <4> QED
          BY <4>1, <4>2
      <3> QED
        BY <3>5, <3>6
    <2> QED
      BY <2>1, <2>2
  <1> HIDE DEF S
  <1>3. a \in S
    BY <1>2, NodeInduction
  <1> QED
    BY <1>3 DEF S

LEMMA ValuesBelow ==
    ASSUME NEW n \in Nodes, NEW x \in Nodes, NEW s \in StepsOf(x), s # At(NoKey, 0),
           NEW q \in Seq(Steps)
    PROVE  ValueAt[n][<<s>> \o q] = IF s \in StepsOf(n) THEN ValueAt[Child(n, s)][q] ELSE Absent
  <1>1. s \in Steps
    BY StepsTyped
  <1>2. <<s>> \o q \in Seq(Steps) /\ <<s>> \o q # <<>> /\ Head(<<s>> \o q) = s /\ Tail(<<s>> \o q) = q
    BY <1>1, Places
  <1>3. ValueAt[n][<<s>> \o q] = IF Below(n, s) = Absent THEN Absent ELSE ValueAt[Below(n, s)][q]
    <2> DEFINE p == <<s>> \o q
    <2>1. p \in Seq(Steps) /\ p # <<>> /\ Head(p) = s /\ Tail(p) = q
      BY <1>2
    <2> HIDE DEF p
    <2>2. ValueAt[n][p] = ValueBy(ValueAt, n, p)
      BY <2>1, ValueAtDef
    <2> QED
      BY <2>1, <2>2 DEF ValueBy, p
  <1>4. \/ \E k \in Keys : s = At(k, 0) /\ k # NoKey
        \/ \E i \in Nat : s = At(NoKey, i) /\ i # 0
    <2>1. CASE IsObj(x)
      BY <2>1, StepsAre
    <2>2. CASE IsArr(x)
      <3>1. PICK i \in DOMAIN x.elems : s = At(NoKey, i)
        BY <2>2, StepsAre
      <3>2. i \in Nat /\ i > 0
        BY <2>2, NodeShape
      <3> QED
        BY <3>1, <3>2
    <2> QED
      BY <2>1, <2>2, StepsAre
  <1>5. \A k, i : At(k, i).key = k /\ At(k, i).index = i
    BY DEF At
  <1>6. n # Absent /\ ~(IsObj(n) /\ IsArr(n)) /\ \A t \in StepsOf(n) : Child(n, t) # Absent
    BY NodeShape
  <1>7. Below(n, s) = IF s \in StepsOf(n) THEN Child(n, s) ELSE Absent
    <2>1. CASE \E k \in Keys : s = At(k, 0) /\ k # NoKey
      <3>1. PICK k \in Keys : s = At(k, 0) /\ k # NoKey
        BY <2>1
      <3>2. Below(n, s) = IF IsObj(n) THEN n.members[k] ELSE Absent
        BY <1>5, <3>1 DEF Below
      <3>3. IsObj(n) => (s \in StepsOf(n) <=> n.members[k] # Absent) /\ Child(n, s) = n.members[k]
        BY <1>5, <3>1, StepsAre
      <3>4. ~IsObj(n) => s \notin StepsOf(n)
        BY <1>5, <3>1, StepsAre
      <3> QED
        BY <3>2, <3>3, <3>4
    <2>2. CASE \E i \in Nat : s = At(NoKey, i) /\ i # 0
      <3>1. PICK i \in Nat : s = At(NoKey, i) /\ i # 0
        BY <2>2
      <3>2. Below(n, s) = IF IsArr(n) /\ i \in DOMAIN n.elems THEN n.elems[i] ELSE Absent
        BY <1>5, <3>1 DEF Below
      <3>3. IsArr(n) => (s \in StepsOf(n) <=> i \in DOMAIN n.elems) /\ Child(n, s) = n.elems[i]
        BY <1>5, <3>1, StepsAre
      <3>4. ~IsArr(n) => s \notin StepsOf(n)
        BY <1>5, <3>1, StepsAre
      <3> QED
        BY <3>2, <3>3, <3>4
    <2> QED
      BY <1>4, <2>1, <2>2
  <1> QED
    BY <1>3, <1>6, <1>7

\* The values at a place that the walk finds are different, unless a key on
\* the way has no name.
LEMMA WalkValues ==
    ASSUME NEW a \in Nodes, NEW b \in Nodes, NEW p \in DiffWalk[a][b],
           \A i \in DOMAIN p : p[i] # At(NoKey, 0)
    PROVE  ValueAt[a][p] # ValueAt[b][p]
  <1> DEFINE Named(q) == \A i \in DOMAIN q : q[i] # At(NoKey, 0)
             Shows(m, n) == \A q \in DiffWalk[m][n] : Named(q) => ValueAt[m][q] # ValueAt[n][q]
             S == {m \in Nodes : \A n \in Nodes : Shows(m, n)}
  <1>1. <<>> \in Seq(Steps) /\ \A n \in Nodes : ValueAt[n][<<>>] = n
    BY ValueAtDef, Places DEF ValueBy
  <1>2. ASSUME NEW m \in Nodes, \A s \in StepsOf(m) : Child(m, s) \in S,
               NEW n \in Nodes, NEW q \in DiffWalk[m][n], Named(q)
        PROVE  ValueAt[m][q] # ValueAt[n][q]
    <2>1. CASE ~Alike(m, n)
      <3>1. q = <<>> /\ ~JsonEqual(m, n)
        BY <2>1, WalkOn
      <3>2. m # n
        BY <3>1 DEF JsonEqual
      <3> QED
        BY <1>1, <3>1, <3>2
    <2>2. CASE Alike(m, n)
      <3>1. PICK s \in Branches(m, n) :
               \E t \in DiffWalk[ChildOrNil(m, s)][ChildOrNil(n, s)] : q = <<s>> \o t
        BY <2>2, WalkOn
      <3>2. PICK t \in DiffWalk[ChildOrNil(m, s)][ChildOrNil(n, s)] : q = <<s>> \o t
        BY <3>1
      <3>3. /\ s \in Steps /\ s \in StepsOf(m) \cup StepsOf(n)
            /\ ChildOrNil(m, s) \in Nodes /\ ChildOrNil(n, s) \in Nodes
        BY StepsTyped, ChildOrNilTyped DEF Branches
      <3>4. t \in Seq(Steps)
        BY <3>3, WalkFinds
      <3>5. s # At(NoKey, 0) /\ Named(t)
        <4>1. /\ q[1] = s /\ 1 \in DOMAIN q
              /\ \A i \in DOMAIN t : i + 1 \in DOMAIN q /\ q[i + 1] = t[i]
          BY <3>2, <3>3, <3>4
        <4> QED
          BY <1>2, <4>1
      <3>6. /\ ValueAt[m][q] = IF s \in StepsOf(m) THEN ValueAt[Child(m, s)][t] ELSE Absent
            /\ ValueAt[n][q] = IF s \in StepsOf(n) THEN ValueAt[Child(n, s)][t] ELSE Absent
        <4> HIDE DEF Named
        <4> QED
          BY <3>2, <3>3, <3>4, <3>5, ValuesBelow
      <3> HIDE DEF Named
      <3>7. CASE s \in StepsOf(m) /\ s \in StepsOf(n)
        <4>1. ChildOrNil(m, s) = Child(m, s) /\ ChildOrNil(n, s) = Child(n, s)
          BY <3>7 DEF ChildOrNil
        <4>2. Shows(Child(m, s), Child(n, s))
          <5>1. Child(m, s) \in S /\ Child(n, s) \in Nodes
            BY <1>2, <3>7, NodeShape
          <5> HIDE DEF Shows
          <5> QED
            BY <5>1
        <4> QED
          BY <3>5, <3>6, <3>7, <4>1, <4>2
      <3>8. CASE ~(s \in StepsOf(m) /\ s \in StepsOf(n))
        <4>1. ChildOrNil(m, s) = Null \/ ChildOrNil(n, s) = Null
          BY <3>8 DEF ChildOrNil
        <4>2. ~Alike(ChildOrNil(m, s), ChildOrNil(n, s))
          BY <4>1 DEF Alike, Null, IsObj, IsArr
        <4>3. t = <<>>
          BY <3>3, <4>2, WalkOn
        <4>4. /\ s \in StepsOf(m) => ValueAt[Child(m, s)][t] # Absent
              /\ s \in StepsOf(n) => ValueAt[Child(n, s)][t] # Absent
          BY <1>1, <4>3, NodeShape
        <4> QED
          BY <3>3, <3>6, <3>8, <4>4
      <3> QED
        BY <3>7, <3>8
    <2> QED
      BY <2>1, <2>2
  <1>3. ASSUME NEW m \in Nodes, \A s \in StepsOf(m) : Child(m, s) \in S
        PROVE  m \in S
    <2>1. ASSUME NEW n \in Nodes
          PROVE  Shows(m, n)
      <3> HIDE DEF S, Named
      <3> QED
        BY <1>2, <1>3
    <2> HIDE DEF Shows
    <2> QED
      BY <2>1
  <1> HIDE DEF S
  <1>4. a \in S
    BY <1>3, NodeInduction
  <1>5. Named(p)
    OBVIOUS
  <1> HIDE DEF Named
  <1> QED
    BY <1>4, <1>5 DEF S

-----------------------------------------------------------------------------
(* What is left of a document after its first ignore paths.                *)

Path(ps, i) == CompilePattern(ps[i])

Struck(ps, k, place) == \E i \in 1..k : Matches(Path(ps, i), place)
Cut(ps, k, place) ==
    \E i \in 1..k : /\ Leads(Path(ps, i), place)
                    /\ ~(Matches(Path(ps, i), place) /\ IsElement(place))

Left(ps, k, n) ==
    {<<c[1], IF Struck(ps, k, c[1]) THEN Null ELSE c[2]>> :
        c \in {x \in Content[n] : ~Cut(ps, k, x[1])}}

\* And what of that is not at or below a volatile key.
Seen(ps, n) == {c \in Left(ps, Len(ps), n) : ~Unseen(c[1])}

FormsOf(S) == {<<c[1], Canon(c[2])>> : c \in S}
FactsOf(S) == {<<c[1], Fact(c[2])>> : c \in S}

LEMMA LeftIs ==
    ASSUME NEW n \in Nodes, NEW ps, NEW k
    PROVE  /\ \A c \in Left(ps, k, n) : c = <<c[1], c[2]>> /\ c[1] \in Seq(Steps) /\ c[2] \in Labels
           /\ \A p \in Seq(Steps) : \A l :
                 <<p, l>> \in Left(ps, k, n)
                 <=> /\ ~Cut(ps, k, p)
                     /\ IF Struck(ps, k, p) THEN l = Null /\ Present(n, p)
                        ELSE <<p, l>> \in Content[n]
  <1>1. \A c \in Content[n] : c = <<c[1], c[2]>> /\ c[1] \in Seq(Steps) /\ c[2] \in Labels
    BY ContentTyped
  <1>2. Null \in Labels
    BY Kinds DEF Labels
  <1>3. ASSUME NEW c \in Left(ps, k, n)
        PROVE  \E x \in Content[n] : /\ ~Cut(ps, k, x[1])
                                     /\ c = <<x[1], IF Struck(ps, k, x[1]) THEN Null ELSE x[2]>>
    BY <1>3 DEF Left
  <1>4. ASSUME NEW p \in Seq(Steps), NEW l, <<p, l>> \in Left(ps, k, n)
        PROVE  /\ ~Cut(ps, k, p)
               /\ IF Struck(ps, k, p) THEN l = Null /\ Present(n, p) ELSE <<p, l>> \in Content[n]
    <2>1. PICK x \in Content[n] : /\ ~Cut(ps, k, x[1])
                                  /\ <<p, l>> = <<x[1], IF Struck(ps, k, x[1]) THEN Null ELSE x[2]>>
      BY <1>3, <1>4
    <2>2. x = <<p, x[2]>> /\ l = IF Struck(ps, k, p) THEN Null ELSE x[2]
      BY <1>1, <2>1
    <2> QED
      BY <2>1, <2>2 DEF Present
  <1>5. ASSUME NEW p \in Seq(Steps), NEW l, ~Cut(ps, k, p),
               IF Struck(ps, k, p) THEN l = Null /\ Present(n, p) ELSE <<p, l>> \in Content[n]
        PROVE  <<p, l>> \in Left(ps, k, n)
    <2>1. PICK y : <<p, y>> \in Content[n] /\ l = IF Struck(ps, k, p) THEN Null ELSE y
      BY <1>5 DEF Present
    <2> DEFINE x == <<p, y>>
    <2>2. x \in Content[n] /\ x[1] = p /\ x[2] = y
      BY <2>1
    <2> HIDE DEF x
    <2>3. <<x[1], IF Struck(ps, k, x[1]) THEN Null ELSE x[2]>> \in Left(ps, k, n)
      BY <1>5, <2>2 DEF Left
    <2> QED
      BY <2>1, <2>2, <2>3
  <1>6. ASSUME NEW c \in Left(ps, k, n)
        PROVE  c = <<c[1], c[2]>> /\ c[1] \in Seq(Steps) /\ c[2] \in Labels
    BY <1>1, <1>2, <1>3
  <1> QED
    BY <1>4, <1>5, <1>6

\* Contents are equal that have the same members.
LEMMA PairsEqual ==
    ASSUME NEW S, \A c \in S : c = <<c[1], c[2]>> /\ c[1] \in Seq(Steps),
           NEW T, \A c \in T : c = <<c[1], c[2]>> /\ c[1] \in Seq(Steps),
           \A p \in Seq(Steps) : \A l : <<p, l>> \in S <=> <<p, l>> \in T
    PROVE  S = T
  <1>1. ASSUME NEW c \in S
        PROVE  c \in T
    <2>1. c = <<c[1], c[2]>> /\ c[1] \in Seq(Steps)
      OBVIOUS
    <2>2. <<c[1], c[2]>> \in S <=> <<c[1], c[2]>> \in T
      BY <2>1
    <2> QED
      BY <2>1, <2>2
  <1>2. ASSUME NEW c \in T
        PROVE  c \in S
    <2>1. c = <<c[1], c[2]>> /\ c[1] \in Seq(Steps)
      OBVIOUS
    <2>2. <<c[1], c[2]>> \in S <=> <<c[1], c[2]>> \in T
      BY <2>1
    <2> QED
      BY <2>1, <2>2
  <1> QED
    BY <1>1, <1>2

LEMMA LeftStarts ==
    ASSUME NEW n \in Nodes, NEW ps
    PROVE  Content[n] = Left(ps, 0, n)
  <1>1. \A p : ~Cut(ps, 0, p) /\ ~Struck(ps, 0, p)
    BY DEF Cut, Struck
  <1>2. ASSUME NEW p \in Seq(Steps), NEW l
        PROVE  <<p, l>> \in Content[n] <=> <<p, l>> \in Left(ps, 0, n)
    BY <1>1, LeftIs
  <1>3. \A c \in Content[n] : c = <<c[1], c[2]>> /\ c[1] \in Seq(Steps)
    BY ContentTyped
  <1>4. \A c \in Left(ps, 0, n) : c = <<c[1], c[2]>> /\ c[1] \in Seq(Steps)
    BY LeftIs
  <1> QED
    BY <1>2, <1>3, <1>4, PairsEqual

LEMMA LeftOn ==
    ASSUME NEW n \in Nodes, NEW m \in Nodes, NEW ps, NEW k \in Nat,
           Path(ps, k + 1) \in Patterns, Content[m] = Left(ps, k, n)
    PROVE  /\ ApplyIgnore[m][Path(ps, k + 1)] \in Nodes
           /\ Content[ApplyIgnore[m][Path(ps, k + 1)]] = Left(ps, k + 1, n)
  <1> DEFINE segs == Path(ps, k + 1)
             r == ApplyIgnore[m][segs]
  <1>1. segs \in Patterns
    OBVIOUS
  <1>2. \A p : /\ Struck(ps, k + 1, p) <=> Struck(ps, k, p) \/ Matches(segs, p)
               /\ Cut(ps, k + 1, p) <=> \/ Cut(ps, k, p)
                                        \/ Leads(segs, p) /\ ~(Matches(segs, p) /\ IsElement(p))
    <2>1. 1..(k + 1) = (1..k) \cup {k + 1}
      OBVIOUS
    <2> QED
      BY <2>1 DEF Struck, Cut
  <1> HIDE DEF segs, r
  <1>3. r \in Nodes
    BY <1>1, StruckContent DEF r
  <1>4. ASSUME NEW p \in Seq(Steps), NEW l
        PROVE  <<p, l>> \in Content[r] <=> <<p, l>> \in Left(ps, k + 1, n)
    <2>1. <<p, l>> \in Content[r]
          <=> \/ ~Leads(segs, p) /\ <<p, l>> \in Content[m]
              \/ Matches(segs, p) /\ IsElement(p) /\ l = Null /\ Present(m, p)
      BY <1>1, StruckContent DEF r
    <2>2. \A x : <<p, x>> \in Content[m]
                 <=> /\ ~Cut(ps, k, p)
                     /\ IF Struck(ps, k, p) THEN x = Null /\ Present(n, p)
                        ELSE <<p, x>> \in Content[n]
      BY LeftIs
    <2>3. Present(m, p) <=> ~Cut(ps, k, p) /\ Present(n, p)
      BY <2>2 DEF Present
    <2>4. <<p, l>> \in Left(ps, k + 1, n)
          <=> /\ ~Cut(ps, k + 1, p)
              /\ IF Struck(ps, k + 1, p) THEN l = Null /\ Present(n, p)
                 ELSE <<p, l>> \in Content[n]
      BY LeftIs
    <2>5. Matches(segs, p) => Leads(segs, p)
      <3>1. segs \in Seq(Segment)
        BY <1>1, SegmentsOf
      <3> QED
        BY <3>1, LenProperties DEF Matches, Leads
    <2> QED
      BY <1>2, <2>1, <2>2, <2>3, <2>4, <2>5
  <1>5. \A c \in Content[r] : c = <<c[1], c[2]>> /\ c[1] \in Seq(Steps)
    BY <1>3, ContentTyped
  <1>6. \A c \in Left(ps, k + 1, n) : c = <<c[1], c[2]>> /\ c[1] \in Seq(Steps)
    BY LeftIs
  <1>7. Content[r] = Left(ps, k + 1, n)
    BY <1>4, <1>5, <1>6, PairsEqual
  <1> QED
    BY <1>3, <1>7 DEF r, segs

LEMMA PreparedIs ==
    ASSUME NEW n \in Nodes, NEW m \in Nodes, NEW ps, Content[m] = Left(ps, Len(ps), n)
    PROVE  /\ Prepare[m] \in Nodes
           /\ Content[Prepare[m]] = FormsOf(Seen(ps, n))
  <1>1. Prepare[m] \in Nodes
    BY PreparedContent
  <1>2. \A c \in Seen(ps, n) : c = <<c[1], c[2]>> /\ c[1] \in Seq(Steps)
    BY LeftIs DEF Seen
  <1>3. ASSUME NEW p \in Seq(Steps), NEW l
        PROVE  <<p, l>> \in Content[Prepare[m]] <=> <<p, l>> \in FormsOf(Seen(ps, n))
    <2>1. <<p, l>> \in Content[Prepare[m]]
          <=> ~Unseen(p) /\ \E x : <<p, x>> \in Content[m] /\ l = Canon(x)
      <3>1. <<p, l>> \in Content[Prepare[m]] <=> ~Unseen(p) /\ FormAt(m, p, l)
        BY PreparedContent
      <3>2. FormAt(m, p, l) <=> \E x : <<p, x>> \in Content[m] /\ l = Canon(x)
        BY DEF FormAt
      <3> QED
        BY <3>1, <3>2
    <2>2. \A x : <<p, x>> \in Seen(ps, n) <=> ~Unseen(p) /\ <<p, x>> \in Content[m]
      BY DEF Seen
    <2>3. <<p, l>> \in FormsOf(Seen(ps, n)) <=> \E x : <<p, x>> \in Seen(ps, n) /\ l = Canon(x)
      <3>1. ASSUME <<p, l>> \in FormsOf(Seen(ps, n))
            PROVE  \E x : <<p, x>> \in Seen(ps, n) /\ l = Canon(x)
        <4>1. PICK c \in Seen(ps, n) : <<p, l>> = <<c[1], Canon(c[2])>>
          BY <3>1 DEF FormsOf
        <4> QED
          BY <1>2, <4>1
      <3>2. ASSUME NEW x, <<p, x>> \in Seen(ps, n), l = Canon(x)
            PROVE  <<p, l>> \in FormsOf(Seen(ps, n))
        <4> DEFINE c == <<p, x>>
        <4>1. c \in Seen(ps, n) /\ c[1] = p /\ c[2] = x
          BY <3>2
        <4> HIDE DEF c
        <4>2. <<c[1], Canon(c[2])>> \in FormsOf(Seen(ps, n))
          BY <4>1 DEF FormsOf
        <4> QED
          BY <3>2, <4>1, <4>2
      <3> QED
        BY <3>1, <3>2
    <2> QED
      BY <2>1, <2>2, <2>3
  <1>4. \A c \in Content[Prepare[m]] : c = <<c[1], c[2]>> /\ c[1] \in Seq(Steps)
    BY <1>1, ContentTyped
  <1>5. \A c \in FormsOf(Seen(ps, n)) : c = <<c[1], c[2]>> /\ c[1] \in Seq(Steps)
    BY <1>2 DEF FormsOf
  <1>6. Content[Prepare[m]] = FormsOf(Seen(ps, n))
    BY <1>3, <1>4, <1>5, PairsEqual
  <1> QED
    BY <1>1, <1>6

-----------------------------------------------------------------------------
(* What a body says, by definition, is what is left of its document: the   *)
(* places that the code cuts are those that the definition calls gone.     *)

LEMMA LeadsAt ==
    ASSUME NEW segs \in Patterns, NEW p \in Seq(Steps)
    PROVE  /\ Leads(segs, p) <=> \E j \in DOMAIN p : Matches(segs, SubSeq(p, 1, j))
           /\ \A j \in DOMAIN p : Matches(segs, SubSeq(p, 1, j)) =>
                 (Matches(segs, p) <=> j = Len(p))
           /\ ~Matches(segs, <<>>)
  <1>1. segs \in Seq(Segment) /\ segs # <<>>
    BY SegmentsOf
  <1>2. Len(segs) \in Nat /\ Len(segs) # 0 /\ DOMAIN segs = 1..Len(segs)
    BY <1>1, LenProperties, EmptySeq
  <1>3. Len(p) \in Nat /\ DOMAIN p = 1..Len(p)
    BY LenProperties
  <1>4. ASSUME NEW j \in DOMAIN p
        PROVE  /\ Len(SubSeq(p, 1, j)) = j
               /\ DOMAIN SubSeq(p, 1, j) = 1..j /\ \A i \in 1..j : SubSeq(p, 1, j)[i] = p[i]
    <2>1. SubSeq(p, 1, j) \in Seq(Steps) /\ Len(SubSeq(p, 1, j)) = j
          /\ \A i \in 1..j : SubSeq(p, 1, j)[i] = p[i]
      BY <1>3, SubSeqProperties
    <2> QED
      BY <2>1, LenProperties
  <1>5. ASSUME NEW j \in DOMAIN p
        PROVE  Matches(segs, SubSeq(p, 1, j))
               <=> Len(segs) = j /\ \A i \in 1..j : Fits(segs[i], p[i])
    BY <1>4 DEF Matches
  <1>6. Matches(segs, p) <=> Len(segs) = Len(p) /\ \A i \in 1..Len(p) : Fits(segs[i], p[i])
    BY <1>3 DEF Matches
  <1>7. Leads(segs, p) <=> \E j \in DOMAIN p : Matches(segs, SubSeq(p, 1, j))
    <2>1. Leads(segs, p) <=> Len(segs) \in DOMAIN p /\ \A i \in 1..Len(segs) : Fits(segs[i], p[i])
      BY <1>2, <1>3 DEF Leads
    <2> QED
      BY <1>5, <2>1
  <1>8. ~Matches(segs, <<>>)
    BY LeadsOn
  <1>9. ASSUME NEW j \in DOMAIN p, Matches(segs, SubSeq(p, 1, j))
        PROVE  Matches(segs, p) <=> j = Len(p)
    BY <1>5, <1>6, <1>9
  <1> QED
    BY <1>7, <1>8, <1>9

LEMMA IgnoredIs ==
    ASSUME paths \in Seq(Seq(Tokens)), \A i \in DOMAIN paths : WellFormed(paths[i]),
           ~SomePathIsShortened, NEW p \in Seq(Steps)
    PROVE  /\ Ignored(p) <=> Struck(paths, Len(paths), p)
           /\ ~Ignored(<<>>)
           /\ Gone(p) <=> Unseen(p) \/ Cut(paths, Len(paths), p)
  <1> DEFINE n == Len(paths)
  <1>1. n \in Nat /\ DOMAIN paths = 1..n
    BY LenProperties
  <1>2. ASSUME NEW i \in 1..n
        PROVE  /\ Path(paths, i) \in Patterns
               /\ Appended([j \in DOMAIN paths[i] |-> Reads(paths[i][j])]) = Path(paths, i)
    <2>1. i \in DOMAIN paths /\ paths[i] \in Seq(Tokens) /\ WellFormed(paths[i])
      <3>1. i \in DOMAIN paths
        BY <1>1
      <3>2. paths[i] \in Seq(Tokens)
        BY <1>1, ElementOfSeq
      <3> QED
        BY <3>1, <3>2
    <2>2. DOMAIN paths[i] = 1..Len(paths[i]) /\ \A j \in DOMAIN paths[i] : paths[i][j] \in Tokens
      BY <2>1
    <2>3. \A j \in DOMAIN paths[i] : Len(paths[i][j].indexes) <= 1
      <3> SUFFICES ASSUME NEW j \in DOMAIN paths[i]
                   PROVE  Len(paths[i][j].indexes) <= 1
        OBVIOUS
      <3>1. ~(Len(paths[i][j].indexes) > 1)
        BY <1>1 DEF SomePathIsShortened
      <3>2. paths[i][j].indexes \in Seq(Int)
        BY <2>2, SegmentsTyped
      <3>3. Len(paths[i][j].indexes) \in Nat
        BY <3>2, LenProperties
      <3> QED
        BY <3>1, <3>3
    <2> QED
      BY <2>1, <2>3, CompiledTyped, CompiledReads DEF Path
  <1>3. ASSUME NEW q
        PROVE  Ignored(q) <=> Struck(paths, n, q)
    BY <1>1, <1>2 DEF Ignored, Struck
  <1>4. ~Ignored(<<>>)
    BY <1>2, <1>3, LeadsAt DEF Struck
  <1>5. Len(p) \in Nat /\ DOMAIN p = 1..Len(p)
    BY LenProperties
  <1>6. Cut(paths, n, p)
        <=> \E j \in DOMAIN p : Ignored(SubSeq(p, 1, j)) /\ (j < Len(p) \/ p[j].index = 0)
    <2>1. ASSUME NEW i \in 1..n
          PROVE  Leads(Path(paths, i), p) /\ ~(Matches(Path(paths, i), p) /\ IsElement(p))
                 <=> \E j \in DOMAIN p :
                        Matches(Path(paths, i), SubSeq(p, 1, j)) /\ (j < Len(p) \/ p[j].index = 0)
      <3> DEFINE segs == Path(paths, i)
      <3>1. segs \in Patterns
        BY <1>2
      <3> HIDE DEF segs
      <3>2. ASSUME NEW j \in DOMAIN p, Matches(segs, SubSeq(p, 1, j))
            PROVE  Matches(segs, p) <=> j = Len(p)
        BY <3>1, <3>2, LeadsAt
      <3>3. Leads(segs, p) <=> \E j \in DOMAIN p : Matches(segs, SubSeq(p, 1, j))
        BY <3>1, LeadsAt
      <3>4. \A j \in DOMAIN p : p # <<>> /\ (j < Len(p) <=> j # Len(p))
        BY <1>5
      <3>5. ASSUME NEW j \in DOMAIN p, Matches(segs, SubSeq(p, 1, j))
            PROVE  Matches(segs, p) /\ IsElement(p) <=> ~(j < Len(p) \/ p[j].index = 0)
        BY <3>2, <3>4, <3>5 DEF IsElement
      <3> QED
        BY <3>3, <3>5 DEF segs
    <2>2. Cut(paths, n, p)
          <=> \E i \in 1..n : \E j \in DOMAIN p :
                 Matches(Path(paths, i), SubSeq(p, 1, j)) /\ (j < Len(p) \/ p[j].index = 0)
      BY <2>1 DEF Cut
    <2> QED
      BY <1>3, <2>2 DEF Struck
  <1>7. Gone(p) <=> Unseen(p) \/ Cut(paths, n, p)
    BY <1>6 DEF Gone, Unseen, VolatileStep
  <1> QED
    BY <1>3, <1>4, <1>7

LEMMA FactsAre ==
    ASSUME paths \in Seq(Seq(Tokens)), \A i \in DOMAIN paths : WellFormed(paths[i]),
           ~SomePathIsShortened, NEW n \in Nodes
    PROVE  Facts(n) = FactsOf(Seen(paths, n))
  <1> DEFINE k == Len(paths)
             At1(c) == <<c[1], IF Struck(paths, k, c[1]) THEN Null ELSE c[2]>>
             Kept1 == {x \in Content[n] : ~Cut(paths, k, x[1])}
             Known == {x \in Content[n] : ~Gone(x[1])}
  <1>1. ASSUME NEW c \in Content[n]
        PROVE  /\ Ignored(c[1]) <=> Struck(paths, k, c[1])
               /\ Gone(c[1]) <=> Unseen(c[1]) \/ Cut(paths, k, c[1])
    <2>1. c[1] \in Seq(Steps)
      BY ContentTyped
    <2> QED
      BY <2>1, IgnoredIs
  <1>2. Fact(Null) = Null
    BY Kinds DEF Fact
  <1>3. ASSUME NEW c \in Content[n]
        PROVE  <<c[1], IF Ignored(c[1]) THEN Null ELSE Fact(c[2])>> = <<At1(c)[1], Fact(At1(c)[2])>>
    BY <1>1, <1>2
  <1>4. \A c : At1(c)[1] = c[1]
    OBVIOUS
  <1>5. Left(paths, k, n) = {At1(c) : c \in Kept1}
    BY DEF Left
  <1>6. Facts(n) = {<<c[1], IF Ignored(c[1]) THEN Null ELSE Fact(c[2])>> : c \in Known}
    BY DEF Facts
  <1>7. Known = {x \in Kept1 : ~Unseen(x[1])}
    BY <1>1
  <1>8. Kept1 \subseteq Content[n]
    OBVIOUS
  <1> HIDE DEF Known, Kept1, At1
  <1>9. Seen(paths, n) = {At1(c) : c \in Known}
    <2>1. Seen(paths, n) = {d \in {At1(c) : c \in Kept1} : ~Unseen(d[1])}
      BY <1>5 DEF Seen
    <2> QED
      BY <1>4, <1>7, <2>1
  <1>10. ASSUME NEW f \in Facts(n)
         PROVE  f \in FactsOf(Seen(paths, n))
    <2>1. PICK c \in Known : f = <<c[1], IF Ignored(c[1]) THEN Null ELSE Fact(c[2])>>
      BY <1>6
    <2>2. f = <<At1(c)[1], Fact(At1(c)[2])>>
      BY <1>3, <1>7, <1>8, <2>1
    <2>3. At1(c) \in Seen(paths, n)
      BY <1>9
    <2> QED
      BY <2>2, <2>3 DEF FactsOf
  <1>11. ASSUME NEW f \in FactsOf(Seen(paths, n))
         PROVE  f \in Facts(n)
    <2>1. PICK d \in Seen(paths, n) : f = <<d[1], Fact(d[2])>>
      BY DEF FactsOf
    <2>2. PICK c \in Known : d = At1(c)
      BY <1>9
    <2>3. f = <<c[1], IF Ignored(c[1]) THEN Null ELSE Fact(c[2])>>
      BY <1>3, <1>7, <1>8, <2>1, <2>2
    <2> QED
      BY <1>6, <2>3
  <1> QED
    BY <1>10, <1>11

Uncapped(label) == IsNum(label) => ~Verbatim(label.lit)

\* Two labels have one form just when they are one fact, unless a cap is met.
LEMMA OneFormOneFact ==
    ASSUME NEW x \in Labels, NEW y \in Labels
    PROVE  /\ Canon(x) \in Labels
           /\ Canon(x) = Canon(y) => Fact(x) = Fact(y)
           /\ Canon(Canon(x)) = Canon(Canon(y)) => Fact(x) = Fact(y)
           /\ Fact(x) = Fact(y) /\ Uncapped(x) /\ Uncapped(y) => Canon(x) = Canon(y)
           /\ (Fact(x) = Null <=> x = Null) /\ (Canon(x) = Null <=> x = Null)
  <1>1. ASSUME NEW z \in Labels
        PROVE  /\ IsNum(z) => /\ z.lit \in JSONNumbers /\ z # Null
                              /\ CanonicalNumber(z.lit) \in JSONNumbers
                              /\ Canon(z) = Num(CanonicalNumber(z.lit))
                              /\ IsNum(Canon(z)) /\ Canon(z).lit = CanonicalNumber(z.lit)
                              /\ Fact(z) = [kind |-> "num", value |-> Value(z.lit)]
               /\ ~IsNum(z) => Canon(z) = z /\ Fact(z) = z
               /\ Canon(z) \in Labels
    <2>1. IsNum(z) => z \in Scalars
      BY DEF Labels, IsNum
    <2>2. IsNum(z) => z.lit \in JSONNumbers /\ z # Null
      BY <2>1, Kinds
    <2>3. IsNum(z) => CanonicalNumber(z.lit) \in JSONNumbers
      BY <2>2, FormKeepsNumber
    <2>4. IsNum(z) => Canon(z) = Num(CanonicalNumber(z.lit))
      BY DEF Canon
    <2>5. IsNum(z) => IsNum(Canon(z)) /\ Canon(z).lit = CanonicalNumber(z.lit)
      BY <2>4, Kinds
    <2>6. IsNum(z) => Canon(z) \in Scalars
      BY <2>3, <2>4, Kinds
    <2>7. ~IsNum(z) => Canon(z) = z /\ Fact(z) = z
      BY DEF Canon, Fact
    <2>8. IsNum(z) => Fact(z) = [kind |-> "num", value |-> Value(z.lit)]
      BY DEF Fact
    <2> QED
      BY <2>2, <2>3, <2>4, <2>5, <2>6, <2>7, <2>8 DEF Labels
  <1>2. ASSUME NEW z \in Labels, NEW u \in Labels, Canon(z) = Canon(u)
        PROVE  Fact(z) = Fact(u)
    <2>1. CASE IsNum(z) /\ IsNum(u)
      <3>1. CanonicalNumber(z.lit) = CanonicalNumber(u.lit)
        BY <1>1, <1>2, <2>1
      <3>2. SameNumber(z.lit, u.lit)
        BY <1>1, <2>1, <3>1, EqualFormsEqualNumbers
      <3>3. Value(z.lit) = Value(u.lit)
        BY <1>1, <2>1, <3>2, ValueIsNumber
      <3> QED
        BY <1>1, <2>1, <3>3
    <2>2. CASE ~(IsNum(z) /\ IsNum(u))
      <3>1. ~IsNum(z) /\ ~IsNum(u)
        BY <1>1, <1>2, <2>2
      <3> QED
        BY <1>1, <1>2, <3>1
    <2> QED
      BY <2>1, <2>2
  <1>3. ASSUME NEW z \in Labels
        PROVE  IsNum(z) => Value(Canon(z).lit) = Value(z.lit)
    <2> SUFFICES ASSUME IsNum(z)
                 PROVE  Value(Canon(z).lit) = Value(z.lit)
      OBVIOUS
    <2>1. z.lit \in JSONNumbers /\ CanonicalNumber(z.lit) \in JSONNumbers
      BY <1>1
    <2>2. SameNumber(z.lit, CanonicalNumber(z.lit))
      BY <2>1, FormKeepsNumber
    <2> QED
      BY <1>1, <2>1, <2>2, ValueIsNumber
  <1>4. ASSUME NEW z \in Labels
        PROVE  Fact(Canon(z)) = Fact(z)
    <2>1. CASE IsNum(z)
      BY <1>1, <1>3, <2>1
    <2>2. CASE ~IsNum(z)
      BY <1>1, <2>2
    <2> QED
      BY <2>1, <2>2
  <1>5. Canon(Canon(x)) = Canon(Canon(y)) => Fact(x) = Fact(y)
    BY <1>1, <1>2, <1>4
  <1>6. ASSUME Fact(x) = Fact(y), Uncapped(x), Uncapped(y)
        PROVE  Canon(x) = Canon(y)
    <2>1. CASE IsNum(x) /\ IsNum(y)
      <3>1. Value(x.lit) = Value(y.lit)
        BY <1>1, <1>6, <2>1
      <3>2. SameNumber(x.lit, y.lit)
        BY <1>1, <2>1, <3>1, ValueIsNumber
      <3>3. CanonicalNumber(x.lit) = CanonicalNumber(y.lit)
        BY <1>1, <1>6, <2>1, <3>2, EqualNumbersEqualForms DEF Uncapped
      <3> QED
        BY <1>1, <2>1, <3>3
    <2>2. CASE ~(IsNum(x) /\ IsNum(y))
      <3>1. \A z \in Labels : IsNum(z) => Fact(z).kind = "num"
        BY <1>1
      <3>2. ~IsNum(x) /\ ~IsNum(y)
        BY <1>1, <1>6, <2>2, <3>1 DEF IsNum
      <3> QED
        BY <1>1, <1>6, <3>2
    <2> QED
      BY <2>1, <2>2
  <1>7. (Fact(x) = Null <=> x = Null) /\ (Canon(x) = Null <=> x = Null)
    <2>1. CASE IsNum(x)
      <3>1. Fact(x).kind = "num" /\ Null.kind # "num"
        BY <1>1, <2>1 DEF Null
      <3>2. Canon(x) # Null /\ x # Null
        BY <1>1, <2>1, Kinds
      <3> QED
        BY <3>1, <3>2
    <2>2. CASE ~IsNum(x)
      BY <1>1, <2>2
    <2> QED
      BY <2>1, <2>2
  <1> QED
    BY <1>1, <1>2, <1>5, <1>6, <1>7

LEMMA OneFormOneContent ==
    ASSUME NEW S, \A c \in S : c[2] \in Labels, NEW T, \A c \in T : c[2] \in Labels
    PROVE  /\ FormsOf(S) = FormsOf(T) => FactsOf(S) = FactsOf(T)
           /\ FactsOf(S) = FactsOf(T) /\ (\A c \in S \cup T : Uncapped(c[2]))
                 => FormsOf(S) = FormsOf(T)
  <1>1. ASSUME NEW U, \A c \in U : c[2] \in Labels, NEW V, \A c \in V : c[2] \in Labels,
               FormsOf(U) \subseteq FormsOf(V)
        PROVE  FactsOf(U) \subseteq FactsOf(V)
    <2> SUFFICES ASSUME NEW c \in U
                 PROVE  <<c[1], Fact(c[2])>> \in FactsOf(V)
      BY DEF FactsOf
    <2>1. <<c[1], Canon(c[2])>> \in FormsOf(V)
      BY <1>1 DEF FormsOf
    <2>2. PICK d \in V : <<c[1], Canon(c[2])>> = <<d[1], Canon(d[2])>>
      BY <2>1 DEF FormsOf
    <2>3. c[1] = d[1] /\ Fact(c[2]) = Fact(d[2])
      BY <1>1, <2>2, OneFormOneFact
    <2> QED
      BY <2>3 DEF FactsOf
  <1>2. ASSUME NEW U, \A c \in U : c[2] \in Labels, NEW V, \A c \in V : c[2] \in Labels,
               FactsOf(U) \subseteq FactsOf(V), \A c \in U \cup V : Uncapped(c[2])
        PROVE  FormsOf(U) \subseteq FormsOf(V)
    <2> SUFFICES ASSUME NEW c \in U
                 PROVE  <<c[1], Canon(c[2])>> \in FormsOf(V)
      BY DEF FormsOf
    <2>1. <<c[1], Fact(c[2])>> \in FactsOf(V)
      BY <1>2 DEF FactsOf
    <2>2. PICK d \in V : <<c[1], Fact(c[2])>> = <<d[1], Fact(d[2])>>
      BY <2>1 DEF FactsOf
    <2>3. c[1] = d[1] /\ Canon(c[2]) = Canon(d[2])
      BY <1>2, <2>2, OneFormOneFact
    <2> QED
      BY <2>3 DEF FormsOf
  <1>3. ASSUME FormsOf(S) = FormsOf(T)
        PROVE  FactsOf(S) = FactsOf(T)
    <2>1. FormsOf(S) \subseteq FormsOf(T) /\ FormsOf(T) \subseteq FormsOf(S)
      BY <1>3
    <2>2. FactsOf(S) \subseteq FactsOf(T)
      BY <1>1, <2>1
    <2>3. FactsOf(T) \subseteq FactsOf(S)
      BY <1>1, <2>1
    <2> QED
      BY <2>2, <2>3
  <1>4. ASSUME FactsOf(S) = FactsOf(T), \A c \in S \cup T : Uncapped(c[2])
        PROVE  FormsOf(S) = FormsOf(T)
    <2>1. FactsOf(S) \subseteq FactsOf(T) /\ FactsOf(T) \subseteq FactsOf(S)
      BY <1>4
    <2>2. FormsOf(S) \subseteq FormsOf(T)
      BY <1>2, <1>4, <2>1
    <2>3. \A c \in T \cup S : Uncapped(c[2])
      BY <1>4
    <2>4. FormsOf(T) \subseteq FormsOf(S)
      BY <1>2, <2>1, <2>3
    <2> QED
      BY <2>2, <2>4
  <1> QED
    BY <1>3, <1>4

-----------------------------------------------------------------------------
(* The inductive invariant.  Its heart is Stripped: after every ignore     *)
(* path, what a body still says is what the paths so far leave of its      *)
(* document, which no intermediate tree has to be known for.               *)

Typed ==
    /\ response \in [Sides -> Responses(Documents, Packings, STRING)]
    /\ paths \in Seq(Seq(Tokens))
    /\ pc \in {"receive", "compile", "parse", "ignore", "compare", "done",
               "oversize", "rejected"}
    /\ next \in 1..(Len(paths) + 1)
    /\ pc \in {"receive", "compile", "parse"} => next = 1
    /\ same \in BOOLEAN

Received ==
    /\ pc \notin {"receive", "oversize"} => \A s \in Sides : bytes[s] = Whole(response[s])
    /\ pc = "oversize" =>
          \E t \in Sides : Wire(response[t]).len > MaxBody \/ Whole(response[t]).len > MaxBody

Compiled ==
    pc \in {"parse", "ignore", "compare", "done"} => \A i \in DOMAIN paths : WellFormed(paths[i])

Tree(t) == [isJSON |-> TRUE, tree |-> t]
Raw(b) == [isJSON |-> FALSE, raw |-> b]

Parsed ==
    \A s \in Sides :
        IF pc \in {"ignore", "compare", "done"} /\ Parses(Whole(response[s]))
        THEN body[s] = Tree(body[s].tree) /\ body[s].tree \in Nodes
        ELSE /\ body[s].isJSON = FALSE
             /\ pc \in {"ignore", "compare", "done"} => body[s] = Raw(Whole(response[s]))

SameTreated == Whole(response["A"]) = Whole(response["B"]) => body["A"] = body["B"]

Stripped ==
    \A s \in Sides :
        Parses(Whole(response[s])) =>
            /\ pc = "ignore" =>
                  Content[body[s].tree] = Left(paths, next - 1, response[s].doc.tree)
            /\ pc \in {"compare", "done"} =>
                  Content[body[s].tree] = FormsOf(Seen(paths, response[s].doc.tree))

Compared ==
    /\ pc # "done" => fields = {}
    /\ pc = "done" =>
          /\ same = (body["A"] = body["B"])
          /\ fields = IF body["A"].isJSON /\ body["B"].isJSON
                      THEN {Read(p) : p \in DiffWalk[body["A"].tree][body["B"].tree]}
                      ELSE {}
          /\ \A s \in Sides :
                evidence[s] = {e \in {<<p, ValueAt[body[s].tree][p]>> : p \in fields} :
                                  e[2] # Absent}

Inv == Typed /\ Received /\ Compiled /\ Parsed /\ SameTreated /\ Stripped /\ Compared

LEMMA SidesAre == \A s \in Sides : s = "A" \/ s = "B"
  BY DEF Sides

LEMMA BodiesAre ==
    /\ \A t : Tree(t).isJSON = TRUE /\ Tree(t).tree = t
    /\ \A b : Raw(b).isJSON = FALSE
    /\ \A t, x : [Tree(t) EXCEPT !.tree = x] = Tree(x)
  <1>1. ASSUME NEW j, NEW t, NEW x
        PROVE  [[isJSON |-> j, tree |-> t] EXCEPT !.tree = x] = [isJSON |-> j, tree |-> x]
    OBVIOUS
  <1> QED
    BY <1>1 DEF Tree, Raw

LEMMA DocumentsParsed ==
    ASSUME NEW r \in Responses(Documents, Packings, STRING)
    PROVE  /\ Whole(r).doc = r.doc
           /\ Parses(Whole(r)) => /\ r.doc.form = "doc" /\ r.doc.tree \in Nodes
                                  /\ IsObj(r.doc.tree) \/ IsArr(r.doc.tree)
  <1>1. r.doc \in Documents
    BY DEF Responses
  <1>2. Whole(r).doc = r.doc
    BY DEF Whole, Unpacked, Wire
  <1>3. r.doc.form = "doc" => r.doc.tree \in Nodes
    BY <1>1 DEF Documents
  <1> QED
    BY <1>2, <1>3 DEF Parses

LEMMA InvStarts == Init => Inv
  <1> SUFFICES ASSUME Init
               PROVE  Inv
    OBVIOUS
  <1>1. PICK c \in Cases : response \in [Sides -> c.responses] /\ paths \in c.paths
    BY DEF Init, Both
  <1>2. /\ c.responses \subseteq Responses(Documents, Packings, STRING)
        /\ c.paths \subseteq Seq(Seq(Tokens))
    BY CasesAssumption DEF CasesAssumption
  <1>3. response \in [Sides -> Responses(Documents, Packings, STRING)] /\ paths \in Seq(Seq(Tokens))
    BY <1>1, <1>2
  <1>4. /\ pc = "receive" /\ next = 1 /\ same = FALSE /\ fields = {}
        /\ body["A"] = NoBody /\ body["B"] = NoBody
    BY DEF Init, Both, Sides
  <1>5. Typed
    <2>1. Len(paths) \in Nat
      BY <1>3, LenProperties
    <2>2. next \in 1..(Len(paths) + 1)
      BY <1>4, <2>1
    <2>3. same \in BOOLEAN
      BY <1>4
    <2> QED
      BY <1>3, <1>4, <2>2, <2>3 DEF Typed
  <1>6. Received /\ Compiled /\ SameTreated /\ Stripped /\ Compared
    BY <1>4 DEF Received, Compiled, SameTreated, Stripped, Compared
  <1>7. Parsed
    BY <1>4, SidesAre DEF Parsed, NoBody
  <1> QED
    BY <1>5, <1>6, <1>7 DEF Inv

LEMMA ReceiveKeeps ==
    ASSUME Inv, Receive
    PROVE  Inv'
  <1>1. Typed /\ Parsed /\ SameTreated /\ Compared
    BY DEF Inv
  <1>2. /\ pc = "receive" /\ pc' \in {"oversize", "compile"}
        /\ response' = response /\ paths' = paths /\ next' = next /\ body' = body
        /\ same' = same /\ fields' = fields
    BY DEF Receive
  <1>3. Typed'
    BY <1>1, <1>2 DEF Typed
  <1>4. Received'
    <2>1. \A s \in Sides : response[s] \in Responses(Documents, Packings, STRING)
      BY <1>1 DEF Typed
    <2>2. CASE \E s \in Sides : Oversize(response[s])
      <3>1. pc' = "oversize"
        BY <2>2 DEF Receive
      <3>2. \E t \in Sides : Wire(response[t]).len > MaxBody \/ Whole(response[t]).len > MaxBody
        BY <2>1, <2>2, KeptIsWhole
      <3> QED
        BY <1>2, <3>1, <3>2 DEF Received
    <2>3. CASE ~\E s \in Sides : Oversize(response[s])
      <3>1. pc' = "compile" /\ bytes' = [s \in Sides |-> Kept(response[s])]
        BY <2>3 DEF Receive, Both
      <3>2. \A s \in Sides : Kept(response[s]) = Whole(response[s])
        BY <2>1, <2>3, KeptIsWhole
      <3> QED
        BY <1>2, <3>1, <3>2 DEF Received
    <2> QED
      BY <2>2, <2>3
  <1>5. Compiled' /\ SameTreated' /\ Stripped' /\ Compared'
    BY <1>1, <1>2 DEF Compiled, SameTreated, Stripped, Compared
  <1>6. Parsed'
    BY <1>1, <1>2 DEF Parsed
  <1> QED
    BY <1>3, <1>4, <1>5, <1>6 DEF Inv

LEMMA CompileKeeps ==
    ASSUME Inv, Compile
    PROVE  Inv'
  <1>1. Typed /\ Received /\ Parsed /\ SameTreated /\ Compared
    BY DEF Inv
  <1>2. /\ pc = "compile" /\ pc' \in {"parse", "rejected"}
        /\ pc' = "parse" => \A i \in DOMAIN paths : WellFormed(paths[i])
        /\ response' = response /\ paths' = paths /\ next' = next /\ body' = body
        /\ same' = same /\ fields' = fields /\ bytes' = bytes
    BY DEF Compile
  <1>3. Typed'
    BY <1>1, <1>2 DEF Typed
  <1>4. Received'
    BY <1>1, <1>2 DEF Received
  <1>5. Compiled'
    BY <1>2 DEF Compiled
  <1>6. SameTreated' /\ Stripped' /\ Compared'
    BY <1>1, <1>2 DEF SameTreated, Stripped, Compared
  <1>7. Parsed'
    BY <1>1, <1>2 DEF Parsed
  <1> QED
    BY <1>3, <1>4, <1>5, <1>6, <1>7 DEF Inv

LEMMA ParseKeeps ==
    ASSUME Inv, Parse
    PROVE  Inv'
  <1>1. Typed /\ Received /\ Compiled /\ Compared
    BY DEF Inv
  <1>2. /\ pc = "parse" /\ pc' = "ignore"
        /\ response' = response /\ paths' = paths /\ next' = next
        /\ same' = same /\ fields' = fields /\ bytes' = bytes
    BY DEF Parse, Both
  <1> DEFINE w(s) == Whole(response[s])
  <1>3. \A s \in Sides : body'[s] = IF Parses(w(s)) THEN Tree(response[s].doc.tree) ELSE Raw(w(s))
    <2>1. \A s \in Sides : bytes[s] = w(s)
      BY <1>1, <1>2 DEF Received
    <2>2. \A s \in Sides : body'[s] = IF Parses(bytes[s]) THEN Tree(bytes[s].doc.tree)
                                      ELSE Raw(bytes[s])
      BY DEF Parse, Both, Tree, Raw
    <2>3. \A s \in Sides : w(s).doc = response[s].doc
      BY <1>1, DocumentsParsed DEF Typed
    <2> QED
      BY <2>1, <2>2, <2>3
  <1>4. \A s \in Sides : Parses(w(s)) => response[s].doc.tree \in Nodes
    BY <1>1, DocumentsParsed DEF Typed
  <1> HIDE DEF w
  <1>5. Typed' /\ Received' /\ Compiled' /\ Compared'
    BY <1>1, <1>2 DEF Typed, Received, Compiled, Compared
  <1>6. Parsed'
    BY <1>2, <1>3, <1>4, BodiesAre DEF Parsed, w
  <1>7. SameTreated'
    <2>1. w("A") = w("B") => (Parses(w("A")) => response["A"].doc.tree = response["B"].doc.tree)
      <3>1. w("A").doc = response["A"].doc /\ w("B").doc = response["B"].doc
        BY <1>1, DocumentsParsed DEF Typed, w, Sides
      <3> QED
        BY <3>1
    <2>2. w("A") = w("B") => body'["A"] = body'["B"]
      BY <1>3, <2>1 DEF Sides
    <2> QED
      BY <1>2, <2>2 DEF SameTreated, w
  <1>8. Stripped'
    <2>1. ASSUME NEW s \in Sides, Parses(w(s))
          PROVE  Content[body'[s].tree] = Left(paths, 0, response[s].doc.tree)
      <3>1. body'[s].tree = response[s].doc.tree
        BY <1>3, <2>1, BodiesAre
      <3> QED
        BY <1>4, <2>1, <3>1, LeftStarts
    <2>2. next' - 1 = 0
      BY <1>1, <1>2 DEF Typed
    <2> QED
      BY <1>2, <2>1, <2>2 DEF Stripped, w
  <1> QED
    BY <1>5, <1>6, <1>7, <1>8 DEF Inv

LEMMA IgnoreKeeps ==
    ASSUME Inv, Ignore
    PROVE  Inv'
  <1>1. Typed /\ Received /\ Compiled /\ Parsed /\ SameTreated /\ Stripped /\ Compared
    BY DEF Inv
  <1> DEFINE segs == CompilePattern(paths[next])
             new(s) == IF body[s].isJSON THEN Tree(ApplyIgnore[body[s].tree][segs]) ELSE body[s]
  <1>2. /\ pc = "ignore" /\ next <= Len(paths) /\ next' = next + 1
        /\ response' = response /\ paths' = paths /\ pc' = pc /\ bytes' = bytes
        /\ same' = same /\ fields' = fields
    BY DEF Ignore, Both
  <1>3. next \in Nat /\ next # 0 /\ Len(paths) \in Nat
    BY <1>1, LenProperties DEF Typed
  <1>4. segs \in Patterns /\ segs = Path(paths, (next - 1) + 1)
    <2>1. next \in 1..Len(paths) /\ (next - 1) + 1 = next
      BY <1>2, <1>3
    <2>2. paths \in Seq(Seq(Tokens)) /\ DOMAIN paths = 1..Len(paths)
      BY <1>1, LenProperties DEF Typed
    <2>3. paths[next] \in Seq(Tokens)
      BY <2>1, <2>2, ElementOfSeq
    <2>4. WellFormed(paths[next])
      BY <1>1, <1>2, <2>1, <2>2 DEF Compiled
    <2> QED
      BY <2>1, <2>3, <2>4, CompiledTyped DEF Path
  <1>5. ASSUME NEW s \in Sides
        PROVE  body'[s] = new(s)
    <2>1. body'[s] = IF body[s].isJSON THEN [body[s] EXCEPT !.tree = ApplyIgnore[@][segs]]
                     ELSE body[s]
      BY DEF Ignore, Both, OnTree
    <2>2. body[s].isJSON => body[s] = Tree(body[s].tree)
      BY <1>1, <1>2 DEF Parsed
    <2>3. \A t, x : [Tree(t) EXCEPT !.tree = x] = Tree(x)
      BY BodiesAre
    <2> QED
      BY <2>1, <2>2, <2>3
  <1> HIDE DEF segs
  <1>6. Typed' /\ Received' /\ Compiled' /\ Compared'
    <2>1. next' \in 1..(Len(paths) + 1)
      BY <1>2, <1>3
    <2>2. Typed'
      BY <1>1, <1>2, <2>1 DEF Typed
    <2>3. Received' /\ Compiled' /\ Compared'
      BY <1>1, <1>2 DEF Received, Compiled, Compared
    <2> QED
      BY <2>2, <2>3
  <1>7. SameTreated'
    <2>1. body["A"] = body["B"] => new("A") = new("B")
      OBVIOUS
    <2> HIDE DEF new
    <2> QED
      BY <1>1, <1>2, <1>5, <2>1 DEF SameTreated, Sides
  <1>8. ASSUME NEW s \in Sides, Parses(Whole(response[s]))
        PROVE  LET t == ApplyIgnore[body[s].tree][segs]
               IN  /\ t \in Nodes /\ body'[s] = Tree(t) /\ body'[s].tree = t
                   /\ Content[t] = Left(paths, next, response[s].doc.tree)
    <2>1. body[s] = Tree(body[s].tree) /\ body[s].tree \in Nodes
      BY <1>1, <1>2, <1>8 DEF Parsed
    <2>2. Content[body[s].tree] = Left(paths, next - 1, response[s].doc.tree)
      BY <1>1, <1>2, <1>8 DEF Stripped
    <2>3. response[s].doc.tree \in Nodes
      BY <1>1, <1>8, DocumentsParsed DEF Typed
    <2>4. next - 1 \in Nat /\ (next - 1) + 1 = next
      BY <1>3
    <2>5. /\ ApplyIgnore[body[s].tree][segs] \in Nodes
          /\ Content[ApplyIgnore[body[s].tree][segs]] = Left(paths, next, response[s].doc.tree)
      BY <1>4, <2>1, <2>2, <2>3, <2>4, LeftOn
    <2>6. body'[s] = Tree(ApplyIgnore[body[s].tree][segs])
      BY <1>5, <2>1, BodiesAre
    <2> QED
      BY <2>5, <2>6, BodiesAre
  <1>9. ASSUME NEW s \in Sides, ~Parses(Whole(response[s]))
        PROVE  body'[s] = Raw(Whole(response[s]))
    <2>1. body[s].isJSON = FALSE /\ body[s] = Raw(Whole(response[s]))
      BY <1>1, <1>2, <1>9 DEF Parsed
    <2> QED
      BY <1>5, <2>1
  <1>10. Parsed'
    BY <1>2, <1>8, <1>9, BodiesAre DEF Parsed
  <1>11. Stripped'
    <2>1. next' - 1 = next
      BY <1>2, <1>3
    <2> QED
      BY <1>2, <1>8, <2>1 DEF Stripped
  <1> QED
    BY <1>6, <1>7, <1>10, <1>11 DEF Inv

LEMMA PrepareKeeps ==
    ASSUME Inv, PrepareBodies
    PROVE  Inv'
  <1>1. Typed /\ Received /\ Compiled /\ Parsed /\ SameTreated /\ Stripped /\ Compared
    BY DEF Inv
  <1> DEFINE new(s) == IF body[s].isJSON THEN Tree(Prepare[body[s].tree]) ELSE body[s]
  <1>2. /\ pc = "ignore" /\ pc' = "compare" /\ next > Len(paths) /\ next' = next
        /\ response' = response /\ paths' = paths /\ bytes' = bytes
        /\ same' = same /\ fields' = fields
    BY DEF PrepareBodies, Both
  <1>3. next - 1 = Len(paths)
    BY <1>1, <1>2, LenProperties DEF Typed
  <1>4. ASSUME NEW s \in Sides
        PROVE  body'[s] = new(s)
    <2>1. body'[s] = IF body[s].isJSON THEN [body[s] EXCEPT !.tree = Prepare[@]] ELSE body[s]
      BY DEF PrepareBodies, Both, OnTree
    <2>2. body[s].isJSON => body[s] = Tree(body[s].tree)
      BY <1>1, <1>2 DEF Parsed
    <2>3. \A t, x : [Tree(t) EXCEPT !.tree = x] = Tree(x)
      BY BodiesAre
    <2> QED
      BY <2>1, <2>2, <2>3
  <1>5. Typed' /\ Received' /\ Compiled' /\ Compared'
    BY <1>1, <1>2 DEF Typed, Received, Compiled, Compared
  <1>6. SameTreated'
    <2>1. body["A"] = body["B"] => new("A") = new("B")
      OBVIOUS
    <2> HIDE DEF new
    <2> QED
      BY <1>1, <1>2, <1>4, <2>1 DEF SameTreated, Sides
  <1>7. ASSUME NEW s \in Sides, Parses(Whole(response[s]))
        PROVE  LET t == Prepare[body[s].tree]
               IN  /\ t \in Nodes /\ body'[s] = Tree(t) /\ body'[s].tree = t
                   /\ Content[t] = FormsOf(Seen(paths, response[s].doc.tree))
    <2>1. body[s] = Tree(body[s].tree) /\ body[s].tree \in Nodes
      BY <1>1, <1>2, <1>7 DEF Parsed
    <2>2. Content[body[s].tree] = Left(paths, Len(paths), response[s].doc.tree)
      BY <1>1, <1>2, <1>3, <1>7 DEF Stripped
    <2>3. response[s].doc.tree \in Nodes
      BY <1>1, <1>7, DocumentsParsed DEF Typed
    <2>4. /\ Prepare[body[s].tree] \in Nodes
          /\ Content[Prepare[body[s].tree]] = FormsOf(Seen(paths, response[s].doc.tree))
      BY <2>1, <2>2, <2>3, PreparedIs
    <2>5. body'[s] = Tree(Prepare[body[s].tree])
      BY <1>4, <2>1, BodiesAre
    <2> QED
      BY <2>4, <2>5, BodiesAre
  <1>8. ASSUME NEW s \in Sides, ~Parses(Whole(response[s]))
        PROVE  body'[s] = Raw(Whole(response[s]))
    <2>1. body[s].isJSON = FALSE /\ body[s] = Raw(Whole(response[s]))
      BY <1>1, <1>2, <1>8 DEF Parsed
    <2> QED
      BY <1>4, <2>1
  <1>9. Parsed'
    BY <1>2, <1>7, <1>8, BodiesAre DEF Parsed
  <1>10. Stripped'
    BY <1>2, <1>7 DEF Stripped
  <1> QED
    BY <1>5, <1>6, <1>9, <1>10 DEF Inv

LEMMA CompareKeeps ==
    ASSUME Inv, Compare
    PROVE  Inv'
  <1>1. Typed /\ Received /\ Compiled /\ Parsed /\ SameTreated /\ Stripped
    BY DEF Inv
  <1>2. /\ pc = "compare" /\ pc' = "done"
        /\ response' = response /\ paths' = paths /\ bytes' = bytes
        /\ next' = next /\ body' = body
    BY DEF Compare, Both
  <1>3. Typed'
    <2>1. same' \in BOOLEAN
      BY DEF Compare, Both
    <2> QED
      BY <1>1, <1>2, <2>1 DEF Typed
  <1>4. Received' /\ Compiled' /\ SameTreated' /\ Stripped'
    BY <1>1, <1>2 DEF Received, Compiled, SameTreated, Stripped
  <1>5. Parsed'
    BY <1>1, <1>2 DEF Parsed
  <1>6. Compared'
    <2>1. same' = (body["A"] = body["B"])
      BY DEF Compare, Both
    <2>2. fields' = IF body["A"].isJSON /\ body["B"].isJSON
                    THEN {Read(p) : p \in DiffWalk[body["A"].tree][body["B"].tree]}
                    ELSE {}
      BY DEF Compare, Both
    <2>3. \A s \in Sides :
              evidence'[s] = {e \in {<<p, ValueAt[body[s].tree][p]>> : p \in fields'} :
                                 e[2] # Absent}
      BY DEF Compare, Both
    <2> QED
      BY <1>2, <2>1, <2>2, <2>3 DEF Compared
  <1> QED
    BY <1>3, <1>4, <1>5, <1>6 DEF Inv

\* Through all phases of Normalize a body says what the ignore paths so far
\* leave of its document, and at the end the forms of it.
THEOREM InvHolds == Spec => []Inv
  <1>1. Init => Inv
    BY InvStarts
  <1>2. Inv /\ [Next]_vars => Inv'
    <2> SUFFICES ASSUME Inv, [Next]_vars
                 PROVE  Inv'
      OBVIOUS
    <2>1. CASE UNCHANGED vars
      <3>1. /\ response' = response /\ paths' = paths /\ pc' = pc /\ bytes' = bytes
            /\ next' = next /\ body' = body /\ same' = same /\ fields' = fields
            /\ evidence' = evidence
        BY <2>1 DEF vars
      <3>2. Typed' /\ Received' /\ Compiled' /\ SameTreated' /\ Stripped' /\ Compared'
        BY <3>1 DEF Inv, Typed, Received, Compiled, SameTreated, Stripped, Compared
      <3>3. Parsed'
        BY <3>1 DEF Inv, Parsed
      <3> QED
        BY <3>2, <3>3 DEF Inv
    <2>2. CASE Receive
      BY <2>2, ReceiveKeeps
    <2>3. CASE Compile
      BY <2>3, CompileKeeps
    <2>4. CASE Parse
      BY <2>4, ParseKeeps
    <2>5. CASE Ignore
      BY <2>5, IgnoreKeeps
    <2>6. CASE PrepareBodies
      BY <2>6, PrepareKeeps
    <2>7. CASE Compare
      BY <2>7, CompareKeeps
    <2>8. CASE Ended
      BY <2>1, <2>8 DEF Ended
    <2> QED
      BY <2>1, <2>2, <2>3, <2>4, <2>5, <2>6, <2>7, <2>8 DEF Next
  <1> QED
    BY <1>1, <1>2, PTL DEF Spec

\* Every tree is one the decoder can build: ApplyIgnore and Prepare never make
\* one that json.Marshal refuses.
THEOREM TypeOKHolds == Spec => []TypeOK
  <1>1. Inv => TypeOK
    <2> SUFFICES ASSUME Inv
                 PROVE  TypeOK
      OBVIOUS
    <2>1. \A s \in Sides : body[s].isJSON => body[s].tree \in Nodes
      BY DEF Inv, Parsed
    <2> QED
      BY <2>1 DEF Inv, Typed, TypeOK
  <1> QED
    BY <1>1, InvHolds, PTL

\* Bodies are compared whole and unpacked, and an attempt is oversize only for
\* one longer than the limit (readBounded, decodeBody).
THEOREM OnlyWholeBodiesHolds == Spec => []OnlyWholeBodies
  <1>1. Inv => OnlyWholeBodies
    BY DEF Inv, Received, OnlyWholeBodies
  <1> QED
    BY <1>1, InvHolds, PTL

-----------------------------------------------------------------------------
(* What the comparison shows.                                              *)

LEMMA DoneMeans ==
    ASSUME Inv, pc = "done", NEW s \in Sides
    PROVE  LET d == response[s].doc.tree
               t == body[s].tree
           IN  /\ body[s].isJSON <=> Parses(Whole(response[s]))
               /\ ~Parses(Whole(response[s])) => body[s] = Raw(Whole(response[s]))
               /\ Parses(Whole(response[s])) =>
                     /\ response[s].doc.form = "doc" /\ d \in Nodes /\ (IsObj(d) \/ IsArr(d))
                     /\ t \in Nodes /\ body[s] = Tree(t)
                     /\ Content[t] = FormsOf(Seen(paths, d))
  <1>1. response[s] \in Responses(Documents, Packings, STRING)
    BY DEF Inv, Typed
  <1>2. CASE Parses(Whole(response[s]))
    <2>1. body[s] = Tree(body[s].tree) /\ body[s].tree \in Nodes
      BY <1>2 DEF Inv, Parsed
    <2>2. Content[body[s].tree] = FormsOf(Seen(paths, response[s].doc.tree))
      BY <1>2 DEF Inv, Stripped
    <2>3. body[s].isJSON = TRUE
      BY <2>1, BodiesAre
    <2> QED
      BY <1>1, <1>2, <2>1, <2>2, <2>3, DocumentsParsed
  <1>3. CASE ~Parses(Whole(response[s]))
    BY <1>3, BodiesAre DEF Inv, Parsed
  <1> QED
    BY <1>2, <1>3

\* A response whose body is one JSON document.
SaysFacts(r) == Whole(r).packing = "plain" /\ IsDocument(r.doc)

LEMMA SaysAre ==
    ASSUME Inv, pc = "done", ~SomePathIsShortened, NEW s \in Sides
    PROVE  LET r == response[s]
               d == r.doc.tree
           IN  /\ SaysFacts(r) => Parses(Whole(r))
               /\ ~SomeBracketIsStray => (Parses(Whole(r)) => SaysFacts(r))
               /\ SaysFacts(r) => /\ Says(r) = FactsOf(Seen(paths, d))
                                  /\ \E f \in Says(r) : f[2].kind # "bytes"
               /\ ~SaysFacts(r) => Says(r) = {<< <<>>, [kind |-> "bytes", bytes |-> Whole(r)]>>}
  <1> DEFINE r == response[s]
             d == r.doc.tree
  <1>1. r \in Responses(Documents, Packings, STRING)
    BY DEF Inv, Typed
  <1>2. Whole(r).doc = r.doc
    BY <1>1, DocumentsParsed
  <1>3. SaysFacts(r) => Parses(Whole(r))
    BY <1>2 DEF SaysFacts, IsDocument, Parses
  <1>4. ~SomeBracketIsStray => (Parses(Whole(r)) => SaysFacts(r))
    <2>1. r.doc \in Documents
      BY <1>1 DEF Responses
    <2>2. r.doc.form = "doc" => r.doc.after \in {"nothing", "bracket", "more"}
      BY <2>1 DEF Documents
    <2>3. ~SomeBracketIsStray => ~(r.doc.form = "doc" /\ r.doc.after = "bracket")
      BY DEF SomeBracketIsStray
    <2> QED
      BY <1>2, <2>2, <2>3 DEF SaysFacts, IsDocument, Parses
  <1>5. ASSUME SaysFacts(r)
        PROVE  /\ Says(r) = FactsOf(Seen(paths, d))
               /\ \E f \in Says(r) : f[2].kind # "bytes"
    <2>1. d \in Nodes /\ (IsObj(d) \/ IsArr(d))
      BY <1>1, <1>3, <1>5, DocumentsParsed
    <2>2. Says(r) = Facts(d)
      BY <1>5 DEF Says, SaysFacts
    <2>3. paths \in Seq(Seq(Tokens)) /\ \A i \in DOMAIN paths : WellFormed(paths[i])
      BY DEF Inv, Typed, Compiled
    <2> HIDE DEF d
    <2>4. Facts(d) = FactsOf(Seen(paths, d))
      BY <2>1, <2>3, FactsAre
    <2>5. <<>> \in Seq(Steps)
      OBVIOUS
    <2>6. ~Ignored(<<>>) /\ ~Gone(<<>>)
      <3>1. ~Ignored(<<>>)
        BY <2>3, <2>5, IgnoredIs
      <3>2. ~Gone(<<>>)
        BY DEF Gone
      <3> QED
        BY <3>1, <3>2
    <2> DEFINE c == << <<>>, Label(d)>>
    <2>7. c \in Content[d] /\ c[1] = <<>> /\ c[2] = Label(d)
      BY <2>1, ContentIs
    <2> HIDE DEF c
    <2>8. <<c[1], IF Ignored(c[1]) THEN Null ELSE Fact(c[2])>> \in Facts(d)
      BY <2>6, <2>7 DEF Facts
    <2>9. << <<>>, Fact(Label(d))>> \in Facts(d)
      BY <2>6, <2>7, <2>8
    <2>10. Fact(Label(d)).kind # "bytes"
      BY <2>1 DEF Label, Fact, IsObj, IsArr, IsNum
    <2> QED
      BY <2>2, <2>4, <2>9, <2>10 DEF d
  <1>6. ~SaysFacts(r) => Says(r) = {<< <<>>, [kind |-> "bytes", bytes |-> Whole(r)]>>}
    BY DEF Says, SaysFacts
  <1> QED
    BY <1>3, <1>4, <1>5, <1>6

LEMMA SeenUncapped ==
    ASSUME Inv, pc = "done", NEW s \in Sides, Parses(Whole(response[s]))
    PROVE  /\ \A c \in Seen(paths, response[s].doc.tree) :
                  /\ c = <<c[1], c[2]>> /\ c[1] \in Seq(Steps) /\ c[2] \in Labels
                  /\ \E x : <<c[1], x>> \in Content[response[s].doc.tree]
                  /\ ~SomeNumberIsCapped => Uncapped(c[2])
           /\ ContentOf(response[s]) = Content[response[s].doc.tree]
  <1> DEFINE d == response[s].doc.tree
  <1>1. d \in Nodes /\ response[s].doc.form = "doc"
    BY DoneMeans
  <1>2. ContentOf(response[s]) = Content[d]
    BY <1>1 DEF ContentOf
  <1>3. ASSUME NEW c \in Seen(paths, d)
        PROVE  /\ c = <<c[1], c[2]>> /\ c[1] \in Seq(Steps) /\ c[2] \in Labels
               /\ \E x : <<c[1], x>> \in Content[d]
               /\ ~SomeNumberIsCapped => Uncapped(c[2])
    <2>1. c \in Left(paths, Len(paths), d)
      BY DEF Seen
    <2>2. c = <<c[1], c[2]>> /\ c[1] \in Seq(Steps) /\ c[2] \in Labels
      BY <1>1, <2>1, LeftIs
    <2>3. IF Struck(paths, Len(paths), c[1]) THEN c[2] = Null /\ Present(d, c[1])
          ELSE <<c[1], c[2]>> \in Content[d]
      BY <1>1, <2>1, <2>2, LeftIs
    <2>4. \E x : <<c[1], x>> \in Content[d]
      BY <2>3 DEF Present
    <2>5. ASSUME ~SomeNumberIsCapped
          PROVE  Uncapped(c[2])
      <3>1. CASE c[2] = Null
        BY <3>1, Kinds DEF Uncapped
      <3>2. CASE <<c[1], c[2]>> \in Content[d]
        <4>1. c \in ContentOf(response[s])
          BY <1>2, <2>2, <3>2
        <4> QED
          BY <2>5, <4>1 DEF SomeNumberIsCapped, Uncapped
      <3> QED
        BY <2>3, <3>1, <3>2
    <2> QED
      BY <2>2, <2>4, <2>5
  <1> QED
    BY <1>2, <1>3

\* Bodies that say the same outside the ignored places are normalized to the
\* same form: for no documents and no paths is there a false FAIL.
THEOREM NoSpuriousDifferenceHolds == Spec => []NoSpuriousDifference
  <1>1. ASSUME Inv, pc = "done", SaySame, ~SomeNumberIsCapped, ~SomePathIsShortened
        PROVE  same
    <2> DEFINE a == response["A"]
               b == response["B"]
    <2>1. "A" \in Sides /\ "B" \in Sides
      BY DEF Sides
    <2>2. Says(a) = Says(b)
      BY <1>1 DEF SaySame
    <2>3. CASE SaysFacts(a) /\ SaysFacts(b)
      <3> DEFINE da == a.doc.tree
                 db == b.doc.tree
                 ta == body["A"].tree
                 tb == body["B"].tree
      <3>1. Parses(Whole(a)) /\ Parses(Whole(b))
        BY <1>1, <2>1, <2>3, SaysAre
      <3>2. FactsOf(Seen(paths, da)) = FactsOf(Seen(paths, db))
        BY <1>1, <2>1, <2>2, <2>3, SaysAre
      <3>3. \A c \in Seen(paths, da) \cup Seen(paths, db) : c[2] \in Labels /\ Uncapped(c[2])
        BY <1>1, <2>1, <3>1, SeenUncapped
      <3>4. /\ ta \in Nodes /\ body["A"] = Tree(ta) /\ Content[ta] = FormsOf(Seen(paths, da))
            /\ tb \in Nodes /\ body["B"] = Tree(tb) /\ Content[tb] = FormsOf(Seen(paths, db))
        BY <1>1, <2>1, <3>1, DoneMeans
      <3> HIDE DEF da, db, ta, tb
      <3>5. FormsOf(Seen(paths, da)) = FormsOf(Seen(paths, db))
        BY <3>2, <3>3, OneFormOneContent
      <3>6. ta = tb
        BY <3>4, <3>5, SameContent
      <3> QED
        BY <1>1, <3>4, <3>6 DEF Inv, Compared
    <2>4. CASE ~SaysFacts(a) /\ ~SaysFacts(b)
      <3>1. /\ Says(a) = {<< <<>>, [kind |-> "bytes", bytes |-> Whole(a)]>>}
            /\ Says(b) = {<< <<>>, [kind |-> "bytes", bytes |-> Whole(b)]>>}
        BY <1>1, <2>1, <2>4, SaysAre
      <3>2. << <<>>, [kind |-> "bytes", bytes |-> Whole(a)]>> = << <<>>, [kind |-> "bytes", bytes |-> Whole(b)]>>
        BY <2>2, <3>1
      <3>3. Whole(a) = Whole(b)
        BY <3>2
      <3> QED
        BY <1>1, <3>3 DEF Inv, SameTreated, Compared
    <2>5. ASSUME NEW s \in Sides, NEW t \in Sides, SaysFacts(response[s]), ~SaysFacts(response[t])
          PROVE  Says(response[s]) # Says(response[t])
      <3>1. PICK f \in Says(response[s]) : f[2].kind # "bytes"
        BY <1>1, <2>5, SaysAre
      <3>2. Says(response[t]) = {<< <<>>, [kind |-> "bytes", bytes |-> Whole(response[t])]>>}
        BY <1>1, <2>5, SaysAre
      <3>3. f \notin Says(response[t])
        BY <3>1, <3>2
      <3> QED
        BY <3>1, <3>3
    <2> QED
      BY <2>1, <2>2, <2>3, <2>4, <2>5
  <1>2. Inv => NoSpuriousDifference
    BY <1>1 DEF NoSpuriousDifference
  <1> QED
    BY <1>2, InvHolds, PTL

\* Bodies that are normalized to the same form say the same outside the ignored
\* places: for no documents and no paths is a FAIL lost.
THEOREM NoHiddenDifferenceHolds == Spec => []NoHiddenDifference
  <1>1. ASSUME Inv, pc = "done", same, ~SomePathIsShortened, ~SomeBracketIsStray
        PROVE  SaySame
    <2> DEFINE a == response["A"]
               b == response["B"]
    <2>1. "A" \in Sides /\ "B" \in Sides
      BY DEF Sides
    <2>2. body["A"] = body["B"]
      BY <1>1 DEF Inv, Compared
    <2>3. (SaysFacts(a) <=> Parses(Whole(a))) /\ (SaysFacts(b) <=> Parses(Whole(b)))
      BY <1>1, <2>1, SaysAre
    <2>4. Parses(Whole(a)) <=> Parses(Whole(b))
      BY <1>1, <2>1, <2>2, DoneMeans
    <2>5. CASE Parses(Whole(a))
      <3> DEFINE da == a.doc.tree
                 db == b.doc.tree
      <3>1. FormsOf(Seen(paths, da)) = FormsOf(Seen(paths, db))
        BY <1>1, <2>1, <2>2, <2>4, <2>5, DoneMeans
      <3>2. \A c \in Seen(paths, da) \cup Seen(paths, db) : c[2] \in Labels
        BY <1>1, <2>1, <2>4, <2>5, SeenUncapped
      <3>3. Says(a) = FactsOf(Seen(paths, da)) /\ Says(b) = FactsOf(Seen(paths, db))
        BY <1>1, <2>1, <2>3, <2>4, <2>5, SaysAre
      <3> HIDE DEF da, db
      <3>4. FactsOf(Seen(paths, da)) = FactsOf(Seen(paths, db))
        BY <3>1, <3>2, OneFormOneContent
      <3> QED
        BY <3>3, <3>4 DEF SaySame
    <2>6. CASE ~Parses(Whole(a))
      <3>1. body["A"] = Raw(Whole(a)) /\ body["B"] = Raw(Whole(b))
        BY <1>1, <2>1, <2>4, <2>6, DoneMeans
      <3>2. Whole(a) = Whole(b)
        <4>1. Raw(Whole(a)).raw = Whole(a) /\ Raw(Whole(b)).raw = Whole(b)
          BY DEF Raw
        <4> QED
          BY <2>2, <3>1, <4>1
      <3>3. /\ Says(a) = {<< <<>>, [kind |-> "bytes", bytes |-> Whole(a)]>>}
            /\ Says(b) = {<< <<>>, [kind |-> "bytes", bytes |-> Whole(b)]>>}
        BY <1>1, <2>1, <2>3, <2>4, <2>6, SaysAre
      <3> QED
        BY <3>2, <3>3 DEF SaySame
    <2> QED
      BY <2>5, <2>6
  <1>2. Inv => NoHiddenDifference
    BY <1>1 DEF NoHiddenDifference
  <1> QED
    BY <1>2, InvHolds, PTL

-----------------------------------------------------------------------------
(* What is shown of a difference.                                          *)

Keyed(p) == \A i \in DOMAIN p : p[i].index = 0 => p[i].key \in Keys

\* The steps to what a tree says are members with a key, and elements.
LEMMA ContentKeyed ==
    ASSUME NEW n \in Nodes, NEW p \in Seq(Steps), NEW l, <<p, l>> \in Content[n]
    PROVE  Keyed(p)
  <1> DEFINE S == {m \in Nodes : \A q \in Seq(Steps) : Present(m, q) => Keyed(q)}
  <1>1. ASSUME NEW m \in Nodes, \A s \in StepsOf(m) : Child(m, s) \in S,
               NEW q \in Seq(Steps), Present(m, q)
        PROVE  Keyed(q)
    <2>1. CASE q = <<>>
      BY <2>1 DEF Keyed
    <2>2. CASE q # <<>>
      <3> DEFINE s == Head(q)
                 t == Tail(q)
      <3>1. s \in Steps /\ t \in Seq(Steps) /\ q = <<s>> \o t
        BY <2>2, Places
      <3> HIDE DEF s, t
      <3>2. s \in StepsOf(m) /\ Present(Child(m, s), t)
        BY <1>1, <3>1, ContentIs DEF Present
      <3>3. Keyed(t)
        BY <1>1, <3>1, <3>2
      <3>4. s.index = 0 => s.key \in Keys
        <4>1. CASE IsObj(m)
          BY <3>2, <4>1, StepsAre DEF At
        <4>2. CASE IsArr(m)
          <5>1. PICK i \in DOMAIN m.elems : s = At(NoKey, i)
            BY <3>2, <4>2, StepsAre
          <5>2. m.elems \in Seq(Nodes)
            BY <4>2, NodeShape
          <5>3. i # 0
            BY <5>1, <5>2
          <5> QED
            BY <5>1, <5>3 DEF At
        <4> QED
          BY <3>2, <4>1, <4>2, StepsAre
      <3>5. \A i \in DOMAIN q : q[i] = IF i = 1 THEN s ELSE t[i - 1]
        BY <3>1
      <3>6. \A i \in DOMAIN q : i # 1 => i - 1 \in DOMAIN t
        BY <3>1
      <3> QED
        BY <3>3, <3>4, <3>5, <3>6 DEF Keyed
    <2> QED
      BY <2>1, <2>2
  <1>2. ASSUME NEW m \in Nodes, \A s \in StepsOf(m) : Child(m, s) \in S
        PROVE  m \in S
    <2> HIDE DEF S
    <2>1. \A q \in Seq(Steps) : Present(m, q) => Keyed(q)
      BY <1>1, <1>2
    <2> QED
      BY <2>1 DEF S
  <1> HIDE DEF S
  <1>3. n \in S
    BY <1>2, NodeInduction
  <1> QED
    BY <1>3 DEF S, Present

\* The steps to a difference are steps to something in one of the documents.
LEMMA DifferenceIsSomewhere ==
    ASSUME Inv, pc = "done", \A s \in Sides : body[s].isJSON,
           NEW p \in DiffWalk[body["A"].tree][body["B"].tree]
    PROVE  /\ p \in Seq(Steps)
           /\ \E s \in Sides : /\ Parses(Whole(response[s]))
                               /\ Present(response[s].doc.tree, p)
  <1> DEFINE ta == body["A"].tree
             tb == body["B"].tree
             Forms(s) == FormsOf(Seen(paths, response[s].doc.tree))
  <1>1. \A s \in Sides : /\ Parses(Whole(response[s]))
                         /\ body[s].tree \in Nodes /\ Content[body[s].tree] = Forms(s)
    BY DoneMeans
  <1>2. "A" \in Sides /\ "B" \in Sides
    BY DEF Sides
  <1>3. ta \in Nodes /\ tb \in Nodes
    BY <1>1, <1>2
  <1>4. p \in Seq(Steps)
    BY <1>3, WalkFinds
  <1>5. DiffersAt(ta, tb, p)
    BY <1>3, <1>4, WalkFinds DEF FirstDiffersAt
  <1>6. \E l : FormAt(ta, p, l) \/ FormAt(tb, p, l)
    BY <1>5 DEF DiffersAt
  <1>7. PICK s \in Sides : \E x : <<p, x>> \in Content[body[s].tree]
    BY <1>2, <1>6 DEF FormAt
  <1>8. PICK x : <<p, x>> \in Forms(s)
    BY <1>1, <1>7
  <1>9. PICK c \in Seen(paths, response[s].doc.tree) : <<p, x>> = <<c[1], Canon(c[2])>>
    BY <1>8 DEF FormsOf
  <1>10. p = c[1]
    BY <1>9
  <1>11. \E y : <<c[1], y>> \in Content[response[s].doc.tree]
    BY <1>1, <1>9, SeenUncapped
  <1>12. Present(response[s].doc.tree, p)
    BY <1>10, <1>11 DEF Present
  <1> QED
    BY <1>1, <1>4, <1>12

\* For each field that differs analyzeEvidence shows two different values, or
\* one value and none.
THEOREM EvidenceShowsDifferenceHolds == Spec => []EvidenceShowsDifference
  <1> DEFINE v(s, p) == ValueAt[body[s].tree][p]
  <1>1. ASSUME Inv, NEW f \in fields,
               \A s \in Sides : \A step \in StepsIn(response[s]) :
                  step.index = 0 => Written[step.key] = <<step>>
        PROVE  ShownAt("A", f) # ShownAt("B", f)
    <2>1. pc = "done"
      BY <1>1 DEF Inv, Compared
    <2>2. /\ body["A"].isJSON /\ body["B"].isJSON
          /\ fields = {Read(p) : p \in DiffWalk[body["A"].tree][body["B"].tree]}
      BY <1>1, <2>1 DEF Inv, Compared
    <2>3. PICK p \in DiffWalk[body["A"].tree][body["B"].tree] : f = Read(p)
      BY <1>1, <2>2
    <2>4. \A s \in Sides : body[s].isJSON
      BY <2>2 DEF Sides
    <2>5. p \in Seq(Steps)
      BY <1>1, <2>1, <2>4, DifferenceIsSomewhere
    <2>6. PICK s \in Sides : Parses(Whole(response[s])) /\ Present(response[s].doc.tree, p)
      BY <1>1, <2>1, <2>4, DifferenceIsSomewhere
    <2>7. response[s].doc.tree \in Nodes
      BY <1>1, <2>1, <2>6, DoneMeans
    <2>8. PICK l : <<p, l>> \in Content[response[s].doc.tree]
      BY <2>6 DEF Present
    <2>9. Keyed(p)
      BY <2>5, <2>7, <2>8, ContentKeyed
    <2>10. ASSUME NEW i \in DOMAIN p
           PROVE  /\ p[i].index = 0 => Written[p[i].key] = <<p[i]>>
                  /\ p[i] # At(NoKey, 0)
      <3>1. ContentOf(response[s]) = Content[response[s].doc.tree]
        BY <1>1, <2>1, <2>6, SeenUncapped
      <3> DEFINE c == <<p, l>>
      <3>2. c \in ContentOf(response[s]) /\ i \in DOMAIN c[1] /\ c[1][i] = p[i]
        BY <2>8, <3>1
      <3> HIDE DEF c
      <3>3. c[1][i] \in StepsIn(response[s])
        BY <3>2 DEF StepsIn
      <3>4. p[i] \in StepsIn(response[s])
        BY <3>2, <3>3
      <3>5. p[i].index = 0 => Written[p[i].key] = <<p[i]>>
        BY <1>1, <3>4
      <3>6. p[i].index = 0 => p[i] # At(NoKey, 0)
        <4> SUFFICES ASSUME p[i].index = 0
                     PROVE  p[i] # At(NoKey, 0)
          OBVIOUS
        <4>1. p[i].key \in Keys
          BY <2>9 DEF Keyed
        <4>2. 1 \in DOMAIN Written[p[i].key] /\ Written[p[i].key][1] = p[i]
          BY <3>5
        <4> QED
          BY <4>1, <4>2, WrittenAssumption DEF WrittenAssumption
      <3>7. At(NoKey, 0).index = 0
        BY DEF At
      <3> QED
        BY <3>5, <3>6, <3>7
    <2>11. f = p
      BY <2>3, <2>5, <2>10, ReadPlain
    <2>12. \A t \in Sides : body[t].tree \in Nodes
      BY <1>1, <2>1, <2>4, DoneMeans
    <2>13. v("A", p) # v("B", p)
      BY <2>10, <2>12, WalkValues DEF Sides
    <2>14. \A t \in Sides : evidence[t] = {e \in {<<q, v(t, q)>> : q \in fields} : e[2] # Absent}
      BY <1>1, <2>1 DEF Inv, Compared
    <2> HIDE DEF v
    <2>15. ASSUME NEW t \in Sides, NEW u \in Sides, v(t, p) # v(u, p), v(t, p) # Absent
           PROVE  ShownAt(t, p) # ShownAt(u, p)
      <3> DEFINE e == <<p, v(t, p)>>
      <3>1. e \in {<<q, v(t, q)>> : q \in fields} /\ e[1] = p /\ e[2] = v(t, p)
        BY <1>1, <2>11
      <3>2. \A q : e = <<q, v(u, q)>> => q = p /\ v(t, p) = v(u, q)
        OBVIOUS
      <3> HIDE DEF e
      <3>3. e \in evidence[t] /\ e \notin evidence[u]
        BY <2>14, <2>15, <3>1, <3>2
      <3> QED
        BY <3>1, <3>3 DEF ShownAt
    <2> QED
      BY <2>11, <2>13, <2>15 DEF Sides
  <1>2. Inv => EvidenceShowsDifference
    BY <1>1 DEF EvidenceShowsDifference
  <1> QED
    BY <1>2, InvHolds, PTL

-----------------------------------------------------------------------------
(* Where the facts differ is where the forms differ.                       *)

LabelsAt(S, p) == {c[2] : c \in {x \in S : x[1] = p}}
FormIn(S, p, l) == \E x : <<p, x>> \in FormsOf(S) /\ l = Canon(x)
Solid(S, p) == {f[2] : f \in {g \in FactsOf(S) : g[1] = p /\ g[2] # Null}}

\* A fact that only one of two sets has is a form that only that set has.
LEMMA OneFormOneSolid ==
    ASSUME NEW S, \A c \in S : c[2] \in Labels, NEW T, \A c \in T : c[2] \in Labels,
           \A c \in S \cup T : Uncapped(c[2]), NEW p
    PROVE  Solid(S, p) # Solid(T, p)
           <=> \E l : l # Null /\ ~(FormIn(S, p, l) <=> FormIn(T, p, l))
  <1> DEFINE L == LabelsAt(S, p)
             M == LabelsAt(T, p)
             G(x) == Canon(Canon(x))
  <1>1. \A x \in L \cup M : x \in Labels /\ Uncapped(x)
    BY DEF LabelsAt
  <1>2. \A x, y \in L \cup M : Fact(x) = Fact(y) <=> G(x) = G(y)
    BY <1>1, OneFormOneFact
  <1>3. \A x \in L \cup M : Fact(x) = Null <=> G(x) = Null
    BY <1>1, OneFormOneFact
  <1>4. ASSUME NEW U, NEW l
        PROVE  FormIn(U, p, l) <=> \E x \in LabelsAt(U, p) : l = G(x)
    <2>1. ASSUME NEW x, <<p, x>> \in FormsOf(U), l = Canon(x)
          PROVE  \E y \in LabelsAt(U, p) : l = G(y)
      <3>1. PICK c \in U : <<p, x>> = <<c[1], Canon(c[2])>>
        BY <2>1 DEF FormsOf
      <3>2. c[2] \in LabelsAt(U, p) /\ x = Canon(c[2])
        BY <3>1 DEF LabelsAt
      <3> QED
        BY <2>1, <3>2
    <2>2. ASSUME NEW y \in LabelsAt(U, p), l = G(y)
          PROVE  FormIn(U, p, l)
      <3>1. PICK c \in U : c[1] = p /\ c[2] = y
        BY DEF LabelsAt
      <3>2. <<c[1], Canon(c[2])>> \in FormsOf(U)
        BY DEF FormsOf
      <3>3. <<p, Canon(y)>> \in FormsOf(U)
        BY <3>1, <3>2
      <3> QED
        BY <2>2, <3>3 DEF FormIn
    <2> QED
      BY <2>1, <2>2 DEF FormIn
  <1>5. ASSUME NEW U, NEW e
        PROVE  e \in Solid(U, p) <=> e # Null /\ \E x \in LabelsAt(U, p) : e = Fact(x)
    <2>1. ASSUME e \in Solid(U, p)
          PROVE  e # Null /\ \E x \in LabelsAt(U, p) : e = Fact(x)
      <3>1. PICK f \in FactsOf(U) : f[1] = p /\ f[2] # Null /\ e = f[2]
        BY <2>1 DEF Solid
      <3>2. PICK c \in U : f = <<c[1], Fact(c[2])>>
        BY <3>1 DEF FactsOf
      <3>3. c[1] = p /\ e = Fact(c[2]) /\ e # Null
        BY <3>1, <3>2
      <3> QED
        BY <3>3 DEF LabelsAt
    <2>2. ASSUME e # Null, NEW x \in LabelsAt(U, p), e = Fact(x)
          PROVE  e \in Solid(U, p)
      <3>1. PICK c \in U : c[1] = p /\ c[2] = x
        BY DEF LabelsAt
      <3> DEFINE f == <<c[1], Fact(c[2])>>
      <3>2. f \in FactsOf(U)
        BY DEF FactsOf
      <3>3. f[1] = p /\ f[2] = e
        BY <2>2, <3>1
      <3> HIDE DEF f
      <3> QED
        BY <2>2, <3>2, <3>3 DEF Solid
    <2> QED
      BY <2>1, <2>2
  <1> HIDE DEF L, M, G
  <1>6. (\A e : e \in Solid(S, p) <=> e \in Solid(T, p))
        <=> (\A l : l # Null => (FormIn(S, p, l) <=> FormIn(T, p, l)))
    <2>1. ASSUME \A e : e \in Solid(S, p) <=> e \in Solid(T, p), NEW l, l # Null
          PROVE  FormIn(S, p, l) <=> FormIn(T, p, l)
      <3>1. ASSUME NEW x \in L, l = G(x)
            PROVE  \E y \in M : l = G(y)
        <4>1. Fact(x) \in Solid(S, p)
          BY <1>3, <1>5, <2>1, <3>1 DEF L
        <4>2. PICK y \in M : Fact(x) = Fact(y)
          BY <1>5, <2>1, <4>1 DEF M
        <4> QED
          BY <1>2, <3>1, <4>2
      <3>2. ASSUME NEW y \in M, l = G(y)
            PROVE  \E x \in L : l = G(x)
        <4>1. Fact(y) \in Solid(T, p)
          BY <1>3, <1>5, <2>1, <3>2 DEF M
        <4>2. PICK x \in L : Fact(x) = Fact(y)
          BY <1>5, <2>1, <4>1 DEF L
        <4> QED
          BY <1>2, <3>2, <4>2
      <3> QED
        BY <1>4, <3>1, <3>2 DEF L, M
    <2>2. ASSUME \A l : l # Null => (FormIn(S, p, l) <=> FormIn(T, p, l)), NEW e
          PROVE  e \in Solid(S, p) <=> e \in Solid(T, p)
      <3>1. ASSUME e # Null, NEW x \in L, e = Fact(x)
            PROVE  \E y \in M : e = Fact(y)
        <4>1. G(x) # Null /\ FormIn(S, p, G(x))
          BY <1>3, <1>4, <3>1 DEF L
        <4>2. PICK y \in M : G(x) = G(y)
          BY <1>4, <2>2, <4>1 DEF M
        <4> QED
          BY <1>2, <3>1, <4>2
      <3>2. ASSUME e # Null, NEW y \in M, e = Fact(y)
            PROVE  \E x \in L : e = Fact(x)
        <4>1. G(y) # Null /\ FormIn(T, p, G(y))
          BY <1>3, <1>4, <3>2 DEF M
        <4>2. PICK x \in L : G(y) = G(x)
          BY <1>4, <2>2, <4>1 DEF L
        <4> QED
          BY <1>2, <3>2, <4>2
      <3> QED
        BY <1>5, <3>1, <3>2 DEF L, M
    <2> QED
      BY <2>1, <2>2
  <1>7. Solid(S, p) = Solid(T, p) <=> \A e : e \in Solid(S, p) <=> e \in Solid(T, p)
    OBVIOUS
  <1> QED
    BY <1>6, <1>7

\* DiffPaths names exactly the places, nearest to the root, where the facts of
\* the two documents differ.
THEOREM FieldsAreWhereBodiesDifferHolds == Spec => []FieldsAreWhereBodiesDiffer
  <1>1. ASSUME Inv, pc = "done", \A s \in Sides : body[s].isJSON,
               ~SomeNumberIsCapped, ~SomePathIsShortened, ~SomeBracketIsStray
        PROVE  fields = {Read(p) : p \in Differing}
    <2> DEFINE a == response["A"]
               b == response["B"]
               ta == body["A"].tree
               tb == body["B"].tree
               sa == Seen(paths, a.doc.tree)
               sb == Seen(paths, b.doc.tree)
               differs(p) == SolidAt(a, p) # SolidAt(b, p)
               all == {p \in {f[1] : f \in Says(a) \cup Says(b)} : differs(p)}
    <2>1. "A" \in Sides /\ "B" \in Sides
      BY DEF Sides
    <2>2. \A s \in Sides :
             /\ Parses(Whole(response[s])) /\ SaysFacts(response[s])
             /\ body[s].tree \in Nodes
             /\ Content[body[s].tree] = FormsOf(Seen(paths, response[s].doc.tree))
             /\ Says(response[s]) = FactsOf(Seen(paths, response[s].doc.tree))
      BY <1>1, DoneMeans, SaysAre
    <2>3. \A s \in Sides : \A c \in Seen(paths, response[s].doc.tree) :
             c[1] \in Seq(Steps) /\ c[2] \in Labels /\ Uncapped(c[2])
      BY <1>1, <2>2, SeenUncapped
    <2>4. /\ ta \in Nodes /\ Content[ta] = FormsOf(sa) /\ Says(a) = FactsOf(sa)
          /\ tb \in Nodes /\ Content[tb] = FormsOf(sb) /\ Says(b) = FactsOf(sb)
          /\ \A c \in sa \cup sb : c[1] \in Seq(Steps) /\ c[2] \in Labels /\ Uncapped(c[2])
      BY <2>1, <2>2, <2>3
    <2>5. fields = {Read(p) : p \in DiffWalk[ta][tb]}
      BY <1>1, <2>1 DEF Inv, Compared
    <2>6. Differing = {p \in all : \A i \in 0..(Len(p) - 1) : SubSeq(p, 1, i) \notin all}
      BY DEF Differing
    <2> HIDE DEF a, b, ta, tb, sa, sb
    <2>7. ASSUME NEW p
          PROVE  differs(p) <=> DiffersAt(ta, tb, p)
      <3>1. SolidAt(a, p) = Solid(sa, p) /\ SolidAt(b, p) = Solid(sb, p)
        BY <2>4 DEF SolidAt, Solid
      <3>2. \A l : /\ FormAt(ta, p, l) <=> FormIn(sa, p, l)
                   /\ FormAt(tb, p, l) <=> FormIn(sb, p, l)
        BY <2>4 DEF FormAt, FormIn
      <3>3. /\ \A c \in sa : c[2] \in Labels
            /\ \A c \in sb : c[2] \in Labels
            /\ \A c \in sa \cup sb : Uncapped(c[2])
        BY <2>4
      <3>4. Solid(sa, p) # Solid(sb, p)
            <=> \E l : l # Null /\ ~(FormIn(sa, p, l) <=> FormIn(sb, p, l))
        BY <3>3, OneFormOneSolid
      <3> QED
        BY <3>1, <3>2, <3>4 DEF DiffersAt
    <2>8. ASSUME NEW p, differs(p)
          PROVE  p \in all
      <3>1. PICK f \in Says(a) \cup Says(b) : f[1] = p
        BY <2>8 DEF SolidAt
      <3> HIDE DEF differs
      <3> QED
        BY <2>8, <3>1
    <2>9. ASSUME NEW p \in all
          PROVE  p \in Seq(Steps) /\ differs(p)
      <3>1. PICK f \in FactsOf(sa) \cup FactsOf(sb) : p = f[1]
        BY <2>4
      <3>2. PICK c \in sa \cup sb : f = <<c[1], Fact(c[2])>>
        BY DEF FactsOf
      <3>3. p = c[1]
        BY <3>1, <3>2
      <3>4. differs(p)
        OBVIOUS
      <3> HIDE DEF differs
      <3> QED
        BY <2>4, <3>3, <3>4
    <2> HIDE DEF differs, all
    <2>10. \A p : p \in all <=> DiffersAt(ta, tb, p)
      BY <2>7, <2>8, <2>9
    <2>11. ASSUME NEW p
           PROVE  p \in Differing <=> p \in DiffWalk[ta][tb]
      <3>1. p \in Differing <=> p \in all /\ FirstDiffersAt(ta, tb, p)
        BY <2>6, <2>10 DEF FirstDiffersAt
      <3>2. p \in all <=> p \in Seq(Steps) /\ DiffersAt(ta, tb, p)
        BY <2>9, <2>10
      <3>3. p \in DiffWalk[ta][tb] <=> p \in Seq(Steps) /\ FirstDiffersAt(ta, tb, p)
        BY <2>4, WalkFinds
      <3> QED
        BY <3>1, <3>2, <3>3 DEF FirstDiffersAt
    <2>12. Differing = DiffWalk[ta][tb]
      BY <2>11
    <2> QED
      BY <2>5, <2>12
  <1>2. Inv => FieldsAreWhereBodiesDiffer
    BY <1>1 DEF FieldsAreWhereBodiesDiffer
  <1> QED
    BY <1>2, InvHolds, PTL

=============================================================================
