---------------------------- MODULE CmockaProofs ----------------------------
(***************************************************************************)
(* What cmocka promises its tests, for any suites, announcements, bodies   *)
(* and blocks: nothing is served out of turn, a test that passes has kept  *)
(* its announcements and freed its blocks, and no failure is lost.         *)
(***************************************************************************)
EXTENDS Cmocka, FiniteSetTheorems, SequenceTheorems, WellFoundedInduction, TLAPS

\* What removing a node does to a list.
LEMMA RemoveAtElements ==
  ASSUME NEW S, NEW s \in Seq(S), NEW i \in 1 .. Len(s)
  PROVE  /\ RemoveAt(s, i) \in Seq(S)
         /\ Len(RemoveAt(s, i)) = Len(s) - 1
         /\ \A j \in 1 .. Len(s) - 1 :
              RemoveAt(s, i)[j] = IF j < i THEN s[j] ELSE s[j + 1]
<1> DEFINE a == SubSeq(s, 1, i - 1)
           b == SubSeq(s, i + 1, Len(s))
<1>1. Len(s) \in Nat /\ i \in Int /\ 1 <= i /\ i <= Len(s)
  OBVIOUS
<1>2. a \in Seq(S) /\ Len(a) = i - 1 /\ \A j \in 1 .. i - 1 : a[j] = s[j]
  BY <1>1, SubSeqProperties
<1>3. b \in Seq(S) /\ Len(b) = Len(s) - i
      /\ \A j \in 1 .. Len(s) - i : b[j] = s[i + j]
  BY <1>1, SubSeqProperties
<1>4. RemoveAt(s, i) = a \o b
  BY DEF RemoveAt
<1>5. /\ a \o b \in Seq(S) /\ Len(a \o b) = Len(a) + Len(b)
      /\ \A j \in 1 .. Len(a) + Len(b) :
           (a \o b)[j] = IF j <= Len(a) THEN a[j] ELSE b[j - Len(a)]
  BY <1>2, <1>3, ConcatProperties
<1> HIDE DEF a, b
<1>6. ASSUME NEW j \in 1 .. Len(s) - 1
      PROVE  (a \o b)[j] = IF j < i THEN s[j] ELSE s[j + 1]
  <2>1. ASSUME j < i PROVE (a \o b)[j] = s[j]
    BY <1>1, <1>2, <1>3, <1>5, <2>1
  <2>2. ASSUME ~(j < i) PROVE (a \o b)[j] = s[j + 1]
    <3>1. (a \o b)[j] = b[j - (i - 1)] /\ j - (i - 1) \in 1 .. Len(s) - i
      BY <1>1, <1>2, <1>3, <1>5, <2>2
    <3>2. b[j - (i - 1)] = s[i + (j - (i - 1))] /\ i + (j - (i - 1)) = j + 1
      BY <1>1, <1>3, <3>1
    <3> QED  BY <1>1, <2>2, <3>1, <3>2
  <2> QED  BY <2>1, <2>2
<1> QED  BY <1>1, <1>2, <1>3, <1>4, <1>5, <1>6

\* A use leaves a list of announcements.
LEMMA UseAtType ==
  ASSUME NEW V, NEW s \in Seq(Item(V)), NEW i \in 1 .. Len(s)
  PROVE  UseAt(s, i) \in Seq(Item(V))
<1>1. s[i] \in Item(V) /\ Len(s) \in Nat
  OBVIOUS
<1>2. CASE s[i].count = 1
  BY <1>2, RemoveAtElements DEF UseAt
<1>3. CASE s[i].count # 1 /\ s[i].count > ONCE
  <2>1. [s EXCEPT ![i].count = s[i].count - 1] \in Seq(Item(V))
    <3>1. [s[i] EXCEPT !.count = s[i].count - 1] \in Item(V)
      BY <1>1, <1>3 DEF Item, ONCE
    <3> QED  BY <1>1, <3>1
  <2> QED  BY <1>3, <2>1 DEF UseAt
<1> QED  BY <1>2, <1>3 DEF UseAt

\* The node a call is served by allows that call, and none before it does or
\* is due.
LEMMA CalledNodeChoice ==
  ASSUME NEW order, NEW f, CalledNode(order, f) # 0
  PROVE  LET i == CalledNode(order, f) IN
         /\ i \in DOMAIN order /\ order[i].value = f
         /\ \A j \in 1 .. i - 1 : order[j].count < -1 /\ order[j].value # f
<1> DEFINE Allows(i) ==
             /\ order[i].value = f
             /\ \A j \in 1 .. i - 1 : order[j].count < -1 /\ order[j].value # f
<1>1. CalledNode(order, f) =
        IF \E i \in DOMAIN order : Allows(i)
        THEN CHOOSE i \in DOMAIN order : Allows(i) ELSE 0
  BY DEF CalledNode
<1> HIDE DEF Allows
<1>2. \E i \in DOMAIN order : Allows(i)
  BY <1>1
<1>3. CalledNode(order, f) \in DOMAIN order /\ Allows(CalledNode(order, f))
  BY <1>1, <1>2
<1> QED  BY <1>3 DEF Allows

-----------------------------------------------------------------------------
\* Which test a body belongs to; its result is there before its teardown.
PlaceOK ==
  /\ at = "teardown" => status[test] \in Result
  /\ at \in {"setup", "test", "teardown"} => test \in 1 .. Len(suite.tests)
  /\ at = "group_setup" => test = 0
  /\ running => at \in Bodies

TInv == TypeOK /\ PlaceOK

SuiteOK ==
  /\ suite.groupSetup \in BOOLEAN /\ suite.groupTeardown \in BOOLEAN
  /\ Len(suite.tests) \in Nat \ {0}
  /\ \A i \in 1 .. Len(suite.tests) :
       suite.tests[i].setup \in BOOLEAN /\ suite.tests[i].teardown \in BOOLEAN

LEMMA SuiteType == suite \in Suites => SuiteOK
<1> SUFFICES ASSUME suite \in Suites PROVE SuiteOK
  OBVIOUS
<1>1. /\ suite.groupSetup \in BOOLEAN /\ suite.groupTeardown \in BOOLEAN
      /\ suite.tests \in Seq([setup : BOOLEAN, teardown : BOOLEAN])
      /\ suite.tests # <<>>
  BY CmockaAssumption
<1>2. Len(suite.tests) \in Nat \ {0}
  BY <1>1, EmptySeq, LenProperties
<1>3. \A i \in 1 .. Len(suite.tests) :
        suite.tests[i] \in [setup : BOOLEAN, teardown : BOOLEAN]
  BY <1>1, ElementOfSeq
<1> QED  BY <1>1, <1>2, <1>3 DEF SuiteOK

\* The types, by what changes together.
ListsOK ==
  /\ {store, told} \subseteq [queue : [Key -> Seq(Item(SUBSET Value))],
                              order : Seq(Item(Name))]
  /\ seen \in [queue : [Key -> Seq(SUBSET Value)], order : Seq(Name)]

BlocksOK == blocks \in Seq(Block) /\ IsInjective(blocks)

PointsOK ==
  /\ {checkPoint, fixturePoint} \subseteq Block \cup {"head", "null"}
  /\ own \subseteq Block

ResultsOK ==
  /\ status \in [1 .. Len(suite.tests) -> Result \cup {"not_started"}]
  /\ total \in [Result -> Nat]
  /\ skipTest \in BOOLEAN
  /\ broken \subseteq 0 .. Len(suite.tests) + 1 /\ fixtureSkips \in Nat

FlowOK ==
  /\ suite \in Suites
  /\ at \in Bodies \cup {"finish", "returned", "exited"}
  /\ test \in 0 .. Len(suite.tests)
  /\ running \in BOOLEAN
  /\ rc \in {-1, 0, 1}
  /\ ops \in 0 .. MaxOps

Parts == ListsOK /\ BlocksOK /\ PointsOK /\ ResultsOK /\ FlowOK

LEMMA TypeParts == TypeOK <=> Parts
BY DEF TypeOK, Parts, ListsOK, BlocksOK, PointsOK, ResultsOK, FlowOK, AfterAll

LEMMA EmptyType ==
  /\ Empty \in [queue : [Key -> Seq(Item(SUBSET Value))], order : Seq(Item(Name))]
  /\ Empty \in [queue : [Key -> Seq(SUBSET Value)], order : Seq(Name)]
BY DEF Empty

LEMMA LastBlockType == BlocksOK => LastBlock \in Block \cup {"head", "null"}
<1> SUFFICES ASSUME BlocksOK, blocks # <<>> PROVE Last(blocks) \in Block
  BY DEF LastBlock
<1>1. Len(blocks) \in 1 .. Len(blocks)
  BY EmptySeq, LenProperties DEF BlocksOK
<1> QED  BY <1>1 DEF Last, BlocksOK

LEMMA InitTypes == Init => TInv
<1> SUFFICES ASSUME Init PROVE TInv
  OBVIOUS
<1>1. SuiteOK
  BY SuiteType DEF Init
<1>2. ListsOK
  BY EmptyType DEF Init, ListsOK
<1>3. BlocksOK
  BY EmptySeq DEF Init, BlocksOK, IsInjective
<1>4. PointsOK
  BY DEF Init, PointsOK
<1>5. ResultsOK
  BY DEF Init, ResultsOK, Result
<1>6. FlowOK /\ PlaceOK
  BY <1>1, CmockaAssumption DEF Init, FlowOK, PlaceOK, Bodies, SuiteOK
<1> QED  BY <1>2, <1>4, <1>5, <1>6, <1>3, TypeParts DEF TInv, Parts

\* What a body does to the lists it has announced and used.
LEMMA ListSteps ==
  ASSUME ListsOK
  PROVE  /\ \A k \in Key : \A item \in Offered[k] : Announce(k, item) => ListsOK'
         /\ \A item \in Ordered : AnnounceCall(item) => ListsOK'
         /\ \A k \in Key : Take(k) => ListsOK'
         /\ \A f \in Name : FunctionCalled(f) => ListsOK'
<1> DEFINE Q == Item(SUBSET Value)
<1>1. /\ store \in [queue : [Key -> Seq(Q)], order : Seq(Item(Name))]
      /\ told \in [queue : [Key -> Seq(Q)], order : Seq(Item(Name))]
      /\ seen \in [queue : [Key -> Seq(SUBSET Value)], order : Seq(Name)]
  BY DEF ListsOK
<1> HIDE DEF Q
<1>2. ASSUME NEW k \in Key, NEW item \in Offered[k], Announce(k, item) PROVE ListsOK'
  <2>1. item \in Q
    BY CmockaAssumption DEF Q
  <2>2. store.queue[k] \in Seq(Q) /\ told.queue[k] \in Seq(Q)
    BY <1>1
  <2>3. Append(store.queue[k], item) \in Seq(Q) /\ Append(told.queue[k], item) \in Seq(Q)
    BY <2>1, <2>2, AppendProperties
  <2>4. /\ store' = [store EXCEPT !.queue[k] = Append(@, item)]
        /\ told' = [told EXCEPT !.queue[k] = Append(@, item)]
        /\ seen' = seen
    BY <1>2 DEF Announce
  <2>5. /\ store' \in [queue : [Key -> Seq(Q)], order : Seq(Item(Name))]
        /\ told' \in [queue : [Key -> Seq(Q)], order : Seq(Item(Name))]
    BY <1>1, <2>3, <2>4
  <2> QED  BY <1>1, <2>4, <2>5 DEF ListsOK, Q
<1>3. ASSUME NEW item \in Ordered, AnnounceCall(item) PROVE ListsOK'
  <2>1. item \in Item(Name)
    BY CmockaAssumption
  <2>2. /\ Append(store.order, item) \in Seq(Item(Name))
        /\ Append(told.order, item) \in Seq(Item(Name))
    BY <1>1, <2>1
  <2> QED  BY <1>1, <1>3, <2>2 DEF AnnounceCall, ListsOK
<1>4. ASSUME NEW k \in Key, Take(k) PROVE ListsOK'
  <2>1. store.queue[k] \in Seq(Q) /\ store.queue[k] # <<>>
    BY <1>1, <1>4 DEF Take
  <2>2. 1 \in 1 .. Len(store.queue[k])
    BY <2>1, EmptySeq
  <2>3. UseAt(store.queue[k], 1) \in Seq(Q)
    BY <2>1, <2>2, UseAtType DEF Q
  <2>4. Head(store.queue[k]).value \in SUBSET Value
    <3>1. store.queue[k][1] \in Q
      BY <2>1, <2>2, ElementOfSeq
    <3> QED  BY <2>1, <3>1 DEF Item, Q
  <2>5. Append(seen.queue[k], Head(store.queue[k]).value) \in Seq(SUBSET Value)
    BY <1>1, <2>4
  <2>6. /\ store' = [store EXCEPT !.queue[k] = UseAt(@, 1)]
        /\ seen' = [seen EXCEPT !.queue[k] = Append(@, Head(store.queue[k]).value)]
        /\ told' = told
    BY <1>4 DEF Take
  <2>7. /\ store' \in [queue : [Key -> Seq(Q)], order : Seq(Item(Name))]
        /\ seen' \in [queue : [Key -> Seq(SUBSET Value)], order : Seq(Name)]
    BY <1>1, <2>3, <2>5, <2>6
  <2> QED  BY <1>1, <2>6, <2>7 DEF ListsOK, Q
<1>5. ASSUME NEW f \in Name, FunctionCalled(f) PROVE ListsOK'
  <2> DEFINE i == CalledNode(store.order, f)
  <2>1. CASE i = 0
    BY <1>1, <1>5, <2>1 DEF FunctionCalled, ListsOK, Q
  <2>2. CASE i # 0
    <3>1. i \in 1 .. Len(store.order)
      BY <1>1, <2>2, CalledNodeChoice
    <3>2. UseAt(store.order, i) \in Seq(Item(Name))
      BY <1>1, <3>1, UseAtType
    <3>3. Append(seen.order, f) \in Seq(Name)
      BY <1>1
    <3>4. /\ store' = [store EXCEPT !.order = UseAt(@, i)]
          /\ seen' = [seen EXCEPT !.order = Append(@, f)]
          /\ told' = told
      BY <1>5, <2>2 DEF FunctionCalled
    <3> HIDE DEF i
    <3> QED  BY <1>1, <3>2, <3>3, <3>4 DEF ListsOK, Q
  <2> QED  BY <2>1, <2>2
<1> QED  BY <1>2, <1>3, <1>4, <1>5

\* Where the check point is, and the blocks behind it.
LEMMA OwnBlocksType ==
  ASSUME BlocksOK, ~Dangling
  PROVE  LET p == Place(checkPoint) IN
         /\ p \in 0 .. Len(blocks)
         /\ p = 0 <=> checkPoint = "head"
         /\ checkPoint # "head" => blocks[p] = checkPoint
         /\ OwnBlocks \in Seq(Block)
         /\ Len(OwnBlocks) = Len(blocks) - p
         /\ \A i \in 1 .. Len(OwnBlocks) : OwnBlocks[i] = blocks[p + i]
<1> DEFINE p == Place(checkPoint)
<1>1. blocks \in Seq(Block) /\ Len(blocks) \in Nat /\ DOMAIN blocks = 1 .. Len(blocks)
  BY LenProperties DEF BlocksOK
<1>2. /\ p \in 0 .. Len(blocks)
      /\ p = 0 <=> checkPoint = "head"
      /\ checkPoint # "head" => blocks[p] = checkPoint
  <2>1. CASE checkPoint = "head"
    BY <1>1, <2>1 DEF Place
  <2>2. CASE checkPoint # "head"
    <3>1. \E i \in DOMAIN blocks : blocks[i] = checkPoint
      BY <2>2 DEF Dangling, Range
    <3>2. p = CHOOSE i \in DOMAIN blocks : blocks[i] = checkPoint
      BY <2>2 DEF Place
    <3>3. p \in 1 .. Len(blocks) /\ blocks[p] = checkPoint
      BY <1>1, <3>1, <3>2
    <3> QED  BY <1>1, <2>2, <3>3
  <2> QED  BY <2>1, <2>2
<1>3. OwnBlocks = SubSeq(blocks, p + 1, Len(blocks))
  BY DEF OwnBlocks
<1> HIDE DEF p
<1>4. /\ OwnBlocks \in Seq(Block)
      /\ Len(OwnBlocks) = Len(blocks) - p
      /\ \A i \in 1 .. Len(OwnBlocks) : OwnBlocks[i] = blocks[p + i]
  <2>1. \A i \in p + 1 .. Len(blocks) : blocks[i] \in Block
    BY <1>1, <1>2
  <2>2. /\ OwnBlocks \in Seq(Block)
        /\ Len(OwnBlocks) = IF p + 1 <= Len(blocks) THEN Len(blocks) - (p + 1) + 1 ELSE 0
        /\ \A i \in 1 .. Len(blocks) - (p + 1) + 1 : OwnBlocks[i] = blocks[p + 1 + i - 1]
    BY <1>1, <1>2, <1>3, <2>1, SubSeqProperties
  <2>3. Len(OwnBlocks) = Len(blocks) - p
    <3>1. p \in Nat /\ Len(blocks) \in Nat /\ p <= Len(blocks)
      BY <1>1, <1>2
    <3>2. CASE p + 1 <= Len(blocks)
      <4>1. Len(OwnBlocks) = Len(blocks) - (p + 1) + 1
        BY <2>2, <3>2
      <4> QED  BY <3>1, <4>1
    <3>3. CASE ~(p + 1 <= Len(blocks))
      <4>1. Len(OwnBlocks) = 0
        BY <2>2, <3>3
      <4> QED  BY <3>1, <3>3, <4>1
    <3> QED  BY <3>2, <3>3
  <2>4. ASSUME NEW i \in 1 .. Len(OwnBlocks) PROVE OwnBlocks[i] = blocks[p + i]
    <3>1. i \in 1 .. Len(blocks) - (p + 1) + 1 /\ p + 1 + i - 1 = p + i
      BY <1>1, <1>2, <2>3
    <3>2. OwnBlocks[i] = blocks[p + 1 + i - 1]
      BY <2>2, <3>1
    <3> QED  BY <3>1, <3>2
  <2> QED  BY <2>2, <2>3, <2>4
<1> QED  BY <1>2, <1>4 DEF p

\* Blocks stay apart from each other.
LEMMA BlockSteps ==
  ASSUME BlocksOK, own \subseteq Block, NEW b \in Block
  PROVE  /\ Malloc(b) => BlocksOK' /\ own' \subseteq Block
         /\ Free(b) => BlocksOK' /\ own' \subseteq Block
         /\ ReturnLeaking => BlocksOK' /\ own' \subseteq Block
<1>1. /\ blocks \in Seq(Block) /\ Len(blocks) \in Nat /\ DOMAIN blocks = 1 .. Len(blocks)
      /\ \A i, j \in 1 .. Len(blocks) : blocks[i] = blocks[j] => i = j
  BY LenProperties DEF BlocksOK, IsInjective
<1>2. ASSUME Malloc(b) PROVE BlocksOK' /\ own' \subseteq Block
  <2>1. /\ blocks' = Append(blocks, b)
        /\ \A i \in 1 .. Len(blocks) : blocks[i] # b
    BY <1>1, <1>2 DEF Malloc, Range
  <2>2. blocks' \in Seq(Block) /\ IsInjective(blocks')
    BY <1>1, <2>1 DEF IsInjective
  <2> QED  BY <1>2, <2>2 DEF BlocksOK, Malloc
<1>3. ASSUME Free(b) PROVE BlocksOK' /\ own' \subseteq Block
  <2>1. PICK i \in 1 .. Len(blocks) : blocks' = RemoveAt(blocks, i)
    BY <1>1, <1>3 DEF Free
  <2>2. /\ blocks' \in Seq(Block) /\ Len(blocks') = Len(blocks) - 1
        /\ \A j \in 1 .. Len(blocks) - 1 :
             blocks'[j] = IF j < i THEN blocks[j] ELSE blocks[j + 1]
    BY <1>1, <2>1, RemoveAtElements
  <2>3. ASSUME NEW j \in 1 .. Len(blocks'), NEW k \in 1 .. Len(blocks'),
               blocks'[j] = blocks'[k]
        PROVE  j = k
    <3>1. PICK x \in 1 .. Len(blocks) :
            blocks'[j] = blocks[x] /\ x = IF j < i THEN j ELSE j + 1
      BY <1>1, <2>2
    <3>2. PICK y \in 1 .. Len(blocks) :
            blocks'[k] = blocks[y] /\ y = IF k < i THEN k ELSE k + 1
      BY <1>1, <2>2
    <3>3. x = y
      BY <1>1, <2>3, <3>1, <3>2
    <3> QED  BY <1>1, <2>2, <3>1, <3>2, <3>3
  <2> QED  BY <1>3, <2>2, <2>3, LenProperties DEF BlocksOK, IsInjective, Free
<1>4. ASSUME ReturnLeaking PROVE BlocksOK' /\ own' \subseteq Block
  <2> DEFINE p == Place(checkPoint)
             a == SubSeq(blocks, 1, p)
  <2>1. /\ p \in 0 .. Len(blocks) /\ OwnBlocks \in Seq(Block)
        /\ Len(OwnBlocks) = Len(blocks) - p
        /\ \A i \in 1 .. Len(OwnBlocks) : OwnBlocks[i] = blocks[p + i]
    BY <1>4, OwnBlocksType DEF ReturnLeaking
  <2>2. PICK n \in 0 .. Len(OwnBlocks) :
          /\ blocks' = a \o SubSeq(OwnBlocks, n + 1, Len(OwnBlocks))
          /\ own' \subseteq own
    BY <1>4 DEF ReturnLeaking
  <2> DEFINE c == SubSeq(OwnBlocks, n + 1, Len(OwnBlocks))
  <2> HIDE DEF p
  <2>3. /\ p \in Nat /\ n \in Nat /\ n <= Len(OwnBlocks) /\ Len(OwnBlocks) \in Nat
        /\ p <= Len(blocks)
    BY <1>1, <2>1, <2>2
  <2>4. a \in Seq(Block) /\ Len(a) = p /\ \A j \in 1 .. p : a[j] = blocks[j]
    BY <1>1, <2>3, SubSeqProperties
  <2>5. /\ c \in Seq(Block) /\ Len(c) = Len(OwnBlocks) - n
        /\ \A j \in 1 .. Len(OwnBlocks) - n : c[j] = OwnBlocks[n + j]
    BY <2>1, <2>3, SubSeqProperties
  <2>6. /\ a \o c \in Seq(Block) /\ Len(a \o c) = Len(a) + Len(c)
        /\ \A j \in 1 .. Len(a) + Len(c) :
             (a \o c)[j] = IF j <= Len(a) THEN a[j] ELSE c[j - Len(a)]
    BY <2>4, <2>5, ConcatProperties
  <2> HIDE DEF a, c
  <2>7. Len(a \o c) = Len(blocks) - n
    BY <1>1, <2>1, <2>3, <2>4, <2>5, <2>6
  <2>8. ASSUME NEW j \in 1 .. Len(blocks) - n
        PROVE  \E i \in 1 .. Len(blocks) :
                 /\ (a \o c)[j] = blocks[i]
                 /\ i = IF j <= p THEN j ELSE n + j
    <3>1. CASE j <= p
      BY <1>1, <2>3, <2>4, <2>5, <2>6, <2>7, <3>1
    <3>2. CASE ~(j <= p)
      <4>1. j - p \in 1 .. Len(OwnBlocks) - n /\ n + (j - p) \in 1 .. Len(OwnBlocks)
            /\ p + (n + (j - p)) = n + j /\ n + j \in 1 .. Len(blocks)
        BY <1>1, <2>1, <2>3, <3>2
      <4>2. (a \o c)[j] = c[j - p]
        BY <1>1, <2>1, <2>3, <2>4, <2>5, <2>6, <3>2
      <4>3. c[j - p] = OwnBlocks[n + (j - p)]
        BY <2>5, <4>1
      <4>4. OwnBlocks[n + (j - p)] = blocks[n + j]
        BY <2>1, <4>1
      <4> QED  BY <3>2, <4>1, <4>2, <4>3, <4>4
    <3> QED  BY <3>1, <3>2
  <2>9. ASSUME NEW j \in 1 .. Len(blocks) - n, NEW k \in 1 .. Len(blocks) - n,
               (a \o c)[j] = (a \o c)[k]
        PROVE  j = k
    <3>1. PICK x \in 1 .. Len(blocks) :
            (a \o c)[j] = blocks[x] /\ x = IF j <= p THEN j ELSE n + j
      BY <2>8
    <3>2. PICK y \in 1 .. Len(blocks) :
            (a \o c)[k] = blocks[y] /\ y = IF k <= p THEN k ELSE n + k
      BY <2>8
    <3>3. x = y
      BY <1>1, <2>9, <3>1, <3>2
    <3> QED  BY <1>1, <2>3, <3>1, <3>2, <3>3
  <2>10. blocks' = a \o c
    BY <2>2 DEF a, c, p
  <2>11. DOMAIN (a \o c) = 1 .. Len(blocks) - n
    BY <2>6, <2>7, LenProperties
  <2>12. IsInjective(a \o c)
    BY <2>9, <2>11 DEF IsInjective
  <2> QED  BY <2>2, <2>6, <2>10, <2>12 DEF BlocksOK
<1> QED  BY <1>2, <1>3, <1>4

-----------------------------------------------------------------------------
\* How a body goes on or ends.
Verdict ==
  \/ Stays /\ UNCHANGED skipTest
  \/ Jump /\ Breaks /\ UNCHANGED <<fixtureSkips, skipTest>>
  \/ /\ Jump /\ skipTest' = TRUE
     /\ fixtureSkips' = fixtureSkips + (IF at = "test" THEN 0 ELSE 1)
     /\ UNCHANGED broken
  \/ Return

BodyFrame ==
  /\ running
  /\ UNCHANGED <<suite, at, test, status, total, fixturePoint, checkPoint>>
  /\ ops' = ops \/ (ops < MaxOps /\ ops' = ops + 1)
  /\ Verdict
  /\ UNCHANGED heap \/ ReturnLeaking \/ (\E b \in Block : Malloc(b) \/ Free(b))
  /\ \/ UNCHANGED lists
     \/ \E k \in Key : Take(k) \/ (\E item \in Offered[k] : Announce(k, item))
     \/ \E item \in Ordered : AnnounceCall(item)
     \/ \E f \in Name : FunctionCalled(f)

\* What a step of a body leaves alone, and which other parts it changes.
LEMMA BodyChange == Body => BodyFrame
<1> SUFFICES ASSUME Body PROVE BodyFrame
  OBVIOUS
<1> USE DEF Call, heap, lists, results, Verdict
<1>1. ASSUME NEW k \in Key, UseNothing(k) PROVE BodyFrame
  BY <1>1 DEF UseNothing, BodyFrame
<1>2. ASSUME NEW k \in Key, NEW item \in Offered[k], Announce(k, item) PROVE BodyFrame
  BY <1>2 DEF Announce, BodyFrame
<1>3. ASSUME NEW f \in Mocked, Mock(f) PROVE BodyFrame
  BY <1>3 DEF Mock, Take, BodyFrame, Key
<1>4. ASSUME NEW p \in Parameter, NEW v \in Value, CheckExpected(p, v) PROVE BodyFrame
  BY <1>4 DEF CheckExpected, Take, BodyFrame, Key
<1>5. ASSUME NEW item \in Ordered, AnnounceCall(item) PROVE BodyFrame
  BY <1>5 DEF AnnounceCall, BodyFrame
<1>6. ASSUME NEW f \in Name, FunctionCalled(f) PROVE BodyFrame
  BY <1>6 DEF FunctionCalled, BodyFrame
<1>7. ASSUME NEW b \in Block, Malloc(b) PROVE BodyFrame
  BY <1>7 DEF Malloc, BodyFrame
<1>8. ASSUME NEW b \in Block, Free(b) PROVE BodyFrame
  BY <1>8 DEF Free, BodyFrame
<1>9. CASE Skip
  BY <1>9 DEF Skip, BodyFrame
<1>10. CASE Fail
  BY <1>10 DEF Fail, BodyFrame
<1>11. CASE ReturnDangling
  BY <1>11 DEF ReturnDangling, BodyFrame
<1>12. CASE ReturnLeaking
  BY <1>12 DEF ReturnLeaking, BodyFrame
<1>13. CASE ReturnLeftover
  BY <1>13 DEF ReturnLeftover, BodyFrame
<1>14. CASE Return
  BY <1>14 DEF Return, BodyFrame
<1> QED
  BY <1>1, <1>2, <1>3, <1>4, <1>5, <1>6, <1>7, <1>8, <1>9, <1>10, <1>11, <1>12,
     <1>13, <1>14 DEF Body

LEMMA BodyTypes == TInv /\ Body => TInv'
<1> SUFFICES ASSUME TInv, Body PROVE TInv'
  OBVIOUS
<1>1. BodyFrame /\ ListsOK /\ BlocksOK /\ PointsOK /\ ResultsOK /\ FlowOK /\ PlaceOK
  BY BodyChange, TypeParts DEF TInv, Parts
<1>2. SuiteOK
  BY <1>1, SuiteType DEF FlowOK
<1>3. ListsOK'
  <2>1. CASE UNCHANGED lists
    BY <1>1, <2>1 DEF ListsOK, lists
  <2>2. CASE ~UNCHANGED lists
    BY <1>1, <2>2, ListSteps DEF BodyFrame
  <2> QED  BY <2>1, <2>2
<1>4. BlocksOK' /\ own' \subseteq Block
  <2>1. CASE UNCHANGED heap
    BY <1>1, <2>1 DEF BlocksOK, PointsOK, heap
  <2>2. CASE \E b \in Block : Malloc(b) \/ Free(b)
    BY <1>1, <2>2, BlockSteps DEF PointsOK
  <2>3. CASE ReturnLeaking
    <3>1. \E b \in Block : TRUE
      <4>1. blocks # <<>>
        <5>1. ~Dangling /\ OwnBlocks # <<>>
          BY <2>3 DEF ReturnLeaking
        <5>2. OwnBlocks \in Seq(Block) /\ Place(checkPoint) \in 0 .. Len(blocks)
              /\ Len(OwnBlocks) = Len(blocks) - Place(checkPoint)
          BY <1>1, <5>1, OwnBlocksType
        <5>3. Len(OwnBlocks) # 0
          BY <5>1, <5>2, EmptySeq
        <5> QED  BY <5>2, <5>3, EmptySeq
      <4>2. blocks[1] \in Block
        BY <1>1, <4>1, EmptySeq, ElementOfSeq DEF BlocksOK
      <4> QED  BY <4>2
    <3> QED  BY <1>1, <2>3, <3>1, BlockSteps DEF PointsOK
  <2> QED  BY <1>1, <2>1, <2>2, <2>3 DEF BodyFrame
<1>5. PointsOK'
  BY <1>1, <1>4 DEF BodyFrame, PointsOK
<1>6. /\ running' \in BOOLEAN /\ rc' \in {-1, 0, 1} /\ skipTest' \in BOOLEAN
      /\ broken' \subseteq 0 .. Len(suite.tests) + 1 /\ fixtureSkips' \in Nat
      /\ running' => running
  <2>1. /\ running /\ running \in BOOLEAN /\ rc \in {-1, 0, 1} /\ skipTest \in BOOLEAN
        /\ broken \subseteq 0 .. Len(suite.tests) + 1 /\ fixtureSkips \in Nat
        /\ test \in 0 .. Len(suite.tests) /\ Len(suite.tests) \in Nat
    BY <1>1, <1>2 DEF BodyFrame, FlowOK, ResultsOK, SuiteOK
  <2> DEFINE place == IF at = "group_teardown" THEN AfterAll ELSE test
  <2>0. place \in 0 .. Len(suite.tests) + 1
    BY <2>1 DEF AfterAll
  <2>6. Breaks => broken' = broken \cup {place}
    BY DEF Breaks
  <2> HIDE DEF place
  <2>2. CASE Stays /\ UNCHANGED skipTest
    BY <2>1, <2>2 DEF Stays, verdict
  <2>3. CASE Jump /\ Breaks /\ UNCHANGED <<fixtureSkips, skipTest>>
    BY <2>0, <2>1, <2>3, <2>6 DEF Jump
  <2>4. CASE /\ Jump /\ skipTest' = TRUE
             /\ fixtureSkips' = fixtureSkips + (IF at = "test" THEN 0 ELSE 1)
             /\ UNCHANGED broken
    <3>1. running' = FALSE /\ rc' = -1 /\ skipTest' = TRUE /\ broken' = broken
      BY <2>4 DEF Jump
    <3>2. fixtureSkips' \in Nat
      <4>1. CASE at = "test"
        BY <2>1, <2>4, <4>1
      <4>2. CASE at # "test"
        BY <2>1, <2>4, <4>2
      <4> QED  BY <4>1, <4>2
    <3> QED  BY <2>1, <3>1, <3>2
  <2>5. CASE Return
    BY <2>0, <2>1, <2>5, <2>6 DEF Return, results
  <2> QED  BY <1>1, <2>2, <2>3, <2>4, <2>5 DEF BodyFrame, Verdict
<1>7. ResultsOK'
  BY <1>1, <1>6 DEF BodyFrame, ResultsOK
<1>8. FlowOK' /\ PlaceOK'
  BY <1>1, <1>6, CmockaAssumption DEF BodyFrame, FlowOK, PlaceOK
<1> QED  BY <1>3, <1>4, <1>5, <1>7, <1>8, TypeParts, PTL DEF TInv, Parts

-----------------------------------------------------------------------------
\* A body that begins.
LEMMA BeginTypes ==
  ASSUME NEW body \in Bodies, NEW point, point \in Block \cup {"head", "null"},
         Begin(body, point), BlocksOK, UNCHANGED blocks,
         fixturePoint' \in Block \cup {"head", "null"}
  PROVE  ListsOK' /\ BlocksOK' /\ PointsOK'
<1>1. ListsOK'
  BY EmptyType DEF Begin, ListsOK
<1>2. BlocksOK' /\ PointsOK'
  BY DEF Begin, BlocksOK, PointsOK
<1> QED  BY <1>1, <1>2

\* Where the runner goes on with a test, or with the end.
RunnerOK ==
  /\ ListsOK' /\ BlocksOK' /\ PointsOK'
  /\ at' \in Bodies \cup {"finish", "returned", "exited"}
  /\ test' \in 0 .. Len(suite.tests)
  /\ at' \in {"setup", "test", "teardown"} => test' \in 1 .. Len(suite.tests)
  /\ at' \notin {"group_setup", "teardown"}
  /\ running' \in BOOLEAN /\ (running' => at' \in Bodies)

LEMMA BeginTestTypes ==
  ASSUME TInv, UNCHANGED blocks, NEW i \in 1 .. Len(suite.tests), BeginTest(i)
  PROVE  RunnerOK
<1> DEFINE body == IF suite.tests[i].setup THEN "setup" ELSE "test"
<1>1. BlocksOK /\ SuiteOK /\ suite \in Suites
  BY TypeParts, SuiteType DEF TInv, Parts, FlowOK
<1>2. LastBlock \in Block \cup {"head", "null"}
  BY <1>1, LastBlockType
<1>3. /\ Begin(body, LastBlock) /\ test' = i /\ body \in {"setup", "test"}
      /\ fixturePoint' \in Block \cup {"head", "null"}
  BY <1>1, <1>2 DEF BeginTest
<1>4. at' = body /\ running' = TRUE
  BY <1>3 DEF Begin
<1> HIDE DEF body
<1>5. ListsOK' /\ BlocksOK' /\ PointsOK'
  BY <1>1, <1>2, <1>3, BeginTypes DEF Bodies
<1> QED  BY <1>1, <1>3, <1>4, <1>5 DEF RunnerOK, SuiteOK, Bodies

LEMMA EndTestsTypes ==
  ASSUME TInv, ~running, UNCHANGED <<suite, blocks>>, EndTests
  PROVE  RunnerOK
<1>1. ListsOK /\ BlocksOK /\ PointsOK /\ FlowOK
  BY TypeParts DEF TInv, Parts
<1>2. UNCHANGED <<test, fixturePoint>>
  BY DEF EndTests
<1>3. CASE suite.groupTeardown
  <2>1. Begin("group_teardown", "head")
    BY <1>3 DEF EndTests
  <2>2. ListsOK' /\ BlocksOK' /\ PointsOK'
    BY <1>1, <1>2, <2>1, BeginTypes DEF Bodies, PointsOK
  <2> QED  BY <1>1, <1>2, <2>1, <2>2 DEF RunnerOK, FlowOK, Begin, Bodies
<1>4. CASE ~suite.groupTeardown
  <2>1. at' = "finish" /\ UNCHANGED <<running, lists, checkPoint, own>>
    BY <1>4 DEF EndTests
  <2>2. ListsOK' /\ BlocksOK' /\ PointsOK'
    BY <1>1, <1>2, <2>1 DEF lists, ListsOK, BlocksOK, PointsOK
  <2> QED  BY <1>1, <1>2, <2>1, <2>2 DEF RunnerOK, FlowOK
<1> QED  BY <1>3, <1>4

\* A test that is counted.
LEMMA CountTypes ==
  ASSUME TInv, ~running, at \in {"setup", "test", "teardown"},
         UNCHANGED <<suite, blocks>>, NEW result \in Result, Count(result)
  PROVE  RunnerOK /\ total' \in [Result -> Nat]
         /\ status' \in [1 .. Len(suite.tests) -> Result \cup {"not_started"}]
<1>1. SuiteOK /\ ResultsOK /\ test \in 1 .. Len(suite.tests)
  BY TypeParts, SuiteType DEF TInv, Parts, FlowOK, PlaceOK
<1>2. /\ status' = [status EXCEPT ![test] = result]
      /\ total' = [total EXCEPT ![result] = total[result] + 1]
  BY DEF Count
<1>3. RunnerOK
  <2>1. CASE test < Len(suite.tests)
    <3>1. test + 1 \in 1 .. Len(suite.tests) /\ BeginTest(test + 1)
      BY <1>1, <2>1 DEF Count, SuiteOK
    <3> QED  BY <3>1, BeginTestTypes
  <2>2. CASE ~(test < Len(suite.tests))
    BY <2>2, EndTestsTypes DEF Count
  <2> QED  BY <2>1, <2>2
<1> QED  BY <1>1, <1>2, <1>3 DEF ResultsOK

LEMMA RunnerTypes == TInv /\ Runner => TInv'
<1> SUFFICES ASSUME TInv, Runner PROVE TInv'
  OBVIOUS
<1>1. ListsOK /\ BlocksOK /\ PointsOK /\ ResultsOK /\ FlowOK /\ PlaceOK
  BY TypeParts DEF TInv, Parts
<1>2. SuiteOK
  BY <1>1, SuiteType DEF FlowOK
<1> DEFINE Common ==
             /\ RunnerOK /\ UNCHANGED <<suite, rc, broken, fixtureSkips, ops>>
             /\ skipTest' \in BOOLEAN
             /\ total' \in [Result -> Nat]
             /\ status' \in [1 .. Len(suite.tests) -> Result \cup {"not_started"}]
<1>3. Common => TInv'
  <2> SUFFICES ASSUME Common PROVE TInv'
    OBVIOUS
  <2>1. ListsOK' /\ BlocksOK' /\ PointsOK'
    BY DEF RunnerOK
  <2>2. ResultsOK'
    BY <1>1 DEF ResultsOK
  <2>3. FlowOK' /\ PlaceOK'
    BY <1>1 DEF FlowOK, PlaceOK, RunnerOK
  <2> QED  BY <2>1, <2>2, <2>3, TypeParts, PTL DEF TInv, Parts
<1>4. CASE AfterGroupSetup
  <2>1. /\ UNCHANGED <<suite, rc, broken, fixtureSkips, ops, skipTest, status, blocks>>
        /\ ~running
    BY <1>4 DEF AfterGroupSetup, verdict, Ended
  <2>2. CASE rc = 0
    <3>1. BeginTest(1) /\ total' = total /\ 1 \in 1 .. Len(suite.tests)
      BY <1>2, <1>4, <2>2 DEF AfterGroupSetup, SuiteOK
    <3>2. RunnerOK
      BY <2>1, <3>1, BeginTestTypes
    <3> QED  BY <1>1, <1>3, <2>1, <3>1, <3>2 DEF ResultsOK
  <2>3. CASE rc # 0
    <3>1. EndTests /\ total' = [total EXCEPT !["error"] = total["error"] + 1]
      BY <1>4, <2>3 DEF AfterGroupSetup
    <3>2. RunnerOK
      BY <2>1, <3>1, EndTestsTypes
    <3>3. total' \in [Result -> Nat]
      BY <1>1, <3>1 DEF ResultsOK, Result
    <3> QED  BY <1>1, <1>3, <2>1, <3>2, <3>3 DEF ResultsOK
  <2> QED  BY <2>2, <2>3
<1>5. CASE AfterSetup
  <2>1. /\ UNCHANGED <<suite, rc, broken, fixtureSkips, ops, skipTest, blocks>>
        /\ ~running /\ at = "setup" /\ test \in 1 .. Len(suite.tests)
    BY <1>1, <1>5 DEF AfterSetup, verdict, Ended, PlaceOK
  <2>2. CASE rc = 0
    <3>1. Begin("test", LastBlock) /\ UNCHANGED <<test, status, total, fixturePoint>>
      BY <1>5, <2>2 DEF AfterSetup
    <3>2. ListsOK' /\ BlocksOK' /\ PointsOK'
      BY <1>1, <2>1, <3>1, LastBlockType, BeginTypes DEF Bodies, PointsOK
    <3>3. RunnerOK
      BY <1>1, <2>1, <3>1, <3>2 DEF RunnerOK, Begin, Bodies, FlowOK
    <3> QED  BY <1>1, <1>3, <2>1, <3>1, <3>3 DEF ResultsOK
  <2>3. CASE rc # 0
    <3>1. Count("error")
      BY <1>5, <2>3 DEF AfterSetup
    <3>2. RunnerOK /\ total' \in [Result -> Nat]
          /\ status' \in [1 .. Len(suite.tests) -> Result \cup {"not_started"}]
      BY <2>1, <3>1, CountTypes DEF Result
    <3> QED  BY <1>1, <1>3, <2>1, <3>2 DEF ResultsOK
  <2> QED  BY <2>2, <2>3
<1>6. CASE AfterTest
  <2> DEFINE result == IF rc = 0 THEN "passed" ELSE IF skipTest THEN "skipped" ELSE "failed"
  <2>1. /\ UNCHANGED <<suite, rc, broken, fixtureSkips, ops, blocks>>
        /\ skipTest' \in BOOLEAN
        /\ ~running /\ at = "test" /\ test \in 1 .. Len(suite.tests)
    BY <1>1, <1>6 DEF AfterTest, verdict, Ended, PlaceOK, ResultsOK
  <2>2. /\ IF suite.tests[test].teardown THEN Teardown(result) ELSE Count(result)
        /\ result \in Result
    BY <1>6 DEF AfterTest, Result
  <2> HIDE DEF result
  <2>3. CASE suite.tests[test].teardown
    <3> DEFINE point == IF fixturePoint = "null" THEN LastBlock ELSE fixturePoint
    <3>1. /\ Begin("teardown", point) /\ UNCHANGED <<test, total, fixturePoint>>
          /\ status' = [status EXCEPT ![test] = result]
      BY <2>2, <2>3 DEF Teardown
    <3>2. point \in Block \cup {"head", "null"}
      BY <1>1, LastBlockType DEF PointsOK
    <3> HIDE DEF point
    <3>3. ListsOK' /\ BlocksOK' /\ PointsOK'
      BY <1>1, <2>1, <3>1, <3>2, BeginTypes DEF Bodies, PointsOK
    <3>4. ResultsOK' /\ status'[test] \in Result
      BY <1>1, <2>1, <2>2, <3>1 DEF ResultsOK
    <3>5. FlowOK' /\ PlaceOK'
      BY <1>1, <2>1, <3>1, <3>4 DEF FlowOK, PlaceOK, Begin, Bodies
    <3> QED  BY <3>3, <3>4, <3>5, TypeParts, PTL DEF TInv, Parts
  <2>4. CASE ~suite.tests[test].teardown
    <3>1. Count(result)
      BY <2>2, <2>4
    <3>2. RunnerOK /\ total' \in [Result -> Nat]
          /\ status' \in [1 .. Len(suite.tests) -> Result \cup {"not_started"}]
      BY <2>1, <2>2, <3>1, CountTypes
    <3> QED  BY <1>1, <1>3, <2>1, <3>2
  <2> QED  BY <2>3, <2>4
<1>7. CASE AfterTeardown
  <2> DEFINE result == IF rc = 0 THEN status[test] ELSE "error"
  <2>1. /\ UNCHANGED <<suite, rc, broken, fixtureSkips, ops, blocks, skipTest>>
        /\ ~running /\ at = "teardown" /\ test \in 1 .. Len(suite.tests)
        /\ Count(result)
    BY <1>1, <1>7 DEF AfterTeardown, verdict, Ended, PlaceOK
  <2>2. result \in Result
    BY <1>1, <2>1 DEF PlaceOK, Result
  <2> HIDE DEF result
  <2>3. RunnerOK /\ total' \in [Result -> Nat]
        /\ status' \in [1 .. Len(suite.tests) -> Result \cup {"not_started"}]
    BY <2>1, <2>2, CountTypes
  <2> QED  BY <1>1, <1>3, <2>1, <2>3 DEF ResultsOK
<1>8. CASE AfterGroupTeardown
  BY <1>1, <1>8 DEF AfterGroupTeardown, heap, lists, results, verdict, Ended,
     TInv, TypeOK, PlaceOK, AfterAll
<1>9. CASE Finish
  BY <1>1, <1>9 DEF Finish, heap, lists, results, verdict, TInv, TypeOK, PlaceOK,
     Bodies, AfterAll
<1> QED  BY <1>4, <1>5, <1>6, <1>7, <1>8, <1>9 DEF Runner

LEMMA CmockaTypes == Spec => []TInv
<1>1. Init => TInv
  BY InitTypes
<1>2. TInv /\ [Next]_vars => TInv'
  <2>1. CASE UNCHANGED vars
    BY <2>1 DEF vars, heap, lists, results, verdict, TInv, TypeOK, PlaceOK,
       AfterAll
  <2> QED  BY <2>1, BodyTypes, RunnerTypes DEF Next
<1> QED  BY <1>1, <1>2, PTL DEF Spec

\* cmocka keeps its lists, its counts and its check points within their types
\* in every run of a group.
THEOREM CmockaTypeCorrect == Spec => []TypeOK
<1>1. TInv => TypeOK
  BY DEF TInv
<1> QED  BY <1>1, CmockaTypes, PTL

-----------------------------------------------------------------------------
\* What the runner does with a body of kind "test".
LEMMA TestBegins == Runner /\ at' = "test" => Begin("test", LastBlock) /\ UNCHANGED blocks
<1> SUFFICES ASSUME Runner, at' = "test" PROVE Begin("test", LastBlock) /\ UNCHANGED blocks
  OBVIOUS
<1>1. ASSUME NEW i, BeginTest(i) PROVE Begin("test", LastBlock)
  BY <1>1 DEF BeginTest, Begin
<1>2. ~EndTests
  BY DEF EndTests, Begin
<1>3. ASSUME NEW result, Count(result) PROVE Begin("test", LastBlock)
  BY <1>1, <1>2, <1>3 DEF Count
<1>4. ASSUME NEW result PROVE ~Teardown(result)
  BY DEF Teardown, Begin
<1>5. CASE AfterGroupSetup
  BY <1>1, <1>2, <1>5 DEF AfterGroupSetup
<1>6. CASE AfterSetup
  BY <1>3, <1>6 DEF AfterSetup
<1>7. CASE AfterTest
  BY <1>3, <1>4, <1>7 DEF AfterTest
<1>8. CASE AfterTeardown
  BY <1>3, <1>8 DEF AfterTeardown
<1>9. CASE AfterGroupTeardown \/ Finish
  BY <1>9 DEF AfterGroupTeardown, Finish
<1> QED  BY <1>5, <1>6, <1>7, <1>8, <1>9 DEF Runner

\* The blocks that a test has not freed are behind its check point, in place p
\* of the list.
BehindPlace(p) ==
  /\ IF checkPoint = "head" THEN p = 0 ELSE p > 0 /\ blocks[p] = checkPoint
  /\ \A b \in own : \E j \in p + 1 .. Len(blocks) : blocks[j] = b

Behind == \E p \in 0 .. Len(blocks) : BehindPlace(p)

LeakInv ==
  at = "test" =>
    IF running THEN Dangling \/ checkPoint \in own \/ Behind
    ELSE rc = 0 => own = {} \/ checkPoint \in own

LEMMA BehindBegins ==
  ASSUME BlocksOK, NEW body, Begin(body, LastBlock), UNCHANGED blocks
  PROVE  Behind'
<1>1. blocks \in Seq(Block) /\ Len(blocks) \in Nat
  BY LenProperties DEF BlocksOK
<1>2. /\ checkPoint' = LastBlock /\ own' = {} /\ blocks' = blocks
  BY DEF Begin
<1>3. BehindPlace(Len(blocks))'
  <2>1. CASE blocks = <<>>
    BY <1>2, <2>1 DEF BehindPlace, LastBlock
  <2>2. CASE blocks # <<>>
    <3>1. Len(blocks) > 0 /\ LastBlock = blocks[Len(blocks)] /\ LastBlock \in Block
      BY <1>1, <2>2, EmptySeq, LenProperties DEF LastBlock, Last
    <3> QED  BY <1>1, <1>2, <3>1, CmockaAssumption DEF BehindPlace
  <2> QED  BY <2>1, <2>2
<1> QED  BY <1>1, <1>2, <1>3 DEF Behind

\* A block that is freed is no longer in the list.
LEMMA FreedIsGone ==
  ASSUME BlocksOK, NEW b \in Block, Free(b)
  PROVE  /\ b \notin Range(blocks')
         /\ Range(blocks') \subseteq Range(blocks)
<1>1. /\ blocks \in Seq(Block) /\ Len(blocks) \in Nat /\ DOMAIN blocks = 1 .. Len(blocks)
      /\ \A i, j \in 1 .. Len(blocks) : blocks[i] = blocks[j] => i = j
  BY LenProperties DEF BlocksOK, IsInjective
<1>2. PICK i \in 1 .. Len(blocks) : blocks[i] = b /\ blocks' = RemoveAt(blocks, i)
  BY <1>1 DEF Free
<1>3. /\ blocks' \in Seq(Block) /\ Len(blocks') = Len(blocks) - 1
      /\ \A j \in 1 .. Len(blocks) - 1 :
           blocks'[j] = IF j < i THEN blocks[j] ELSE blocks[j + 1]
  BY <1>1, <1>2, RemoveAtElements
<1>4. DOMAIN blocks' = 1 .. Len(blocks) - 1
  BY <1>3, LenProperties
<1>5. ASSUME NEW j \in 1 .. Len(blocks) - 1
      PROVE  blocks'[j] # b /\ blocks'[j] \in Range(blocks)
  <2>1. PICK k \in 1 .. Len(blocks) : k # i /\ blocks'[j] = blocks[k]
    BY <1>1, <1>3
  <2> QED  BY <1>1, <1>2, <2>1 DEF Range
<1> QED  BY <1>4, <1>5 DEF Range

\* A check point whose block is freed dangles until it is allocated anew.
LEMMA DanglingStays ==
  ASSUME BlocksOK, PointsOK, NEW b \in Block, checkPoint' = checkPoint,
         \/ Dangling /\ (Malloc(b) \/ Free(b))
         \/ checkPoint \in own /\ (Malloc(b) \/ Free(b))
         \/ Free(b) /\ b = checkPoint
  PROVE  Dangling' \/ checkPoint' \in own'
<1>1. checkPoint = b => checkPoint # "head"
  BY CmockaAssumption
<1>2. CASE Malloc(b)
  <2>1. own' = own \cup {b} /\ Range(blocks') = Range(blocks) \cup {b}
    <3>1. blocks' = Append(blocks, b) /\ own' = own \cup {b}
      BY <1>2 DEF Malloc
    <3>2. /\ DOMAIN blocks = 1 .. Len(blocks) /\ DOMAIN blocks' = 1 .. Len(blocks) + 1
          /\ Len(blocks) \in Nat /\ blocks'[Len(blocks) + 1] = b
          /\ \A i \in 1 .. Len(blocks) : blocks'[i] = blocks[i]
      BY <3>1, AppendProperties, LenProperties DEF BlocksOK
    <3>3. Range(blocks') \subseteq Range(blocks) \cup {b}
      BY <3>2 DEF Range
    <3>4. Range(blocks) \cup {b} \subseteq Range(blocks')
      BY <3>2 DEF Range
    <3> QED  BY <3>1, <3>3, <3>4
  <2> QED  BY <1>2, <2>1 DEF Dangling, Free, Malloc
<1>3. CASE Free(b)
  <2>1. b \notin Range(blocks') /\ Range(blocks') \subseteq Range(blocks)
    BY <1>3, FreedIsGone
  <2>2. own' = own \ {b}
    BY <1>3 DEF Free
  <2> QED  BY <1>1, <1>3, <2>1, <2>2 DEF Dangling
<1> QED  BY <1>2, <1>3

\* New and freed blocks leave the others where they are behind it.
LEMMA BehindStays ==
  ASSUME BlocksOK, PointsOK, Behind, NEW b \in Block,
         checkPoint' = checkPoint, Malloc(b) \/ Free(b)
  PROVE  Dangling' \/ checkPoint' \in own' \/ Behind'
<1>1. blocks \in Seq(Block) /\ Len(blocks) \in Nat /\ DOMAIN blocks = 1 .. Len(blocks)
  BY LenProperties DEF BlocksOK
<1>2. PICK p \in 0 .. Len(blocks) : BehindPlace(p)
  BY DEF Behind
<1>3. CASE Malloc(b)
  <2>1. blocks' = Append(blocks, b) /\ own' = own \cup {b}
    BY <1>3 DEF Malloc
  <2>2. /\ Len(blocks') = Len(blocks) + 1
        /\ \A j \in 1 .. Len(blocks) : blocks'[j] = blocks[j]
        /\ blocks'[Len(blocks) + 1] = b
    BY <1>1, <2>1, AppendProperties
  <2>3. BehindPlace(p)'
    <3>1. IF checkPoint' = "head" THEN p = 0 ELSE p > 0 /\ blocks'[p] = checkPoint'
      BY <1>1, <1>2, <2>2 DEF BehindPlace
    <3>2. ASSUME NEW c \in own' PROVE \E j \in p + 1 .. Len(blocks') : blocks'[j] = c
      <4>1. CASE c = b
        BY <1>1, <1>2, <2>2, <4>1
      <4>2. CASE c # b
        <5>1. PICK j \in p + 1 .. Len(blocks) : blocks[j] = c
          BY <1>2, <2>1, <4>2 DEF BehindPlace
        <5> QED  BY <1>1, <1>2, <2>2, <5>1
      <4> QED  BY <4>1, <4>2
    <3> QED  BY <3>1, <3>2 DEF BehindPlace
  <2> QED  BY <1>1, <1>2, <2>2, <2>3 DEF Behind
<1>4. CASE Free(b) /\ b # checkPoint
  <2>1. PICK i \in 1 .. Len(blocks) : blocks[i] = b /\ blocks' = RemoveAt(blocks, i)
    BY <1>1, <1>4 DEF Free
  <2>2. /\ Len(blocks') = Len(blocks) - 1
        /\ \A j \in 1 .. Len(blocks) - 1 :
             blocks'[j] = IF j < i THEN blocks[j] ELSE blocks[j + 1]
    BY <1>1, <2>1, RemoveAtElements
  <2>3. own' = own \ {b}
    BY <1>4 DEF Free
  <2>4. i # p
    BY <1>2, <1>4, <2>1 DEF BehindPlace
  <2> DEFINE q == IF i < p THEN p - 1 ELSE p
  <2>5. q \in 0 .. Len(blocks')
    BY <1>1, <1>2, <2>1, <2>2, <2>4
  <2>6. BehindPlace(q)'
    <3>1. IF checkPoint' = "head" THEN q = 0 ELSE q > 0 /\ blocks'[q] = checkPoint'
      BY <1>1, <1>2, <2>1, <2>2, <2>4 DEF BehindPlace
    <3>2. ASSUME NEW c \in own' PROVE \E j \in q + 1 .. Len(blocks') : blocks'[j] = c
      <4>1. PICK j \in p + 1 .. Len(blocks) : blocks[j] = c /\ j # i
        BY <1>2, <2>1, <2>3 DEF BehindPlace
      <4>2. CASE j < i
        BY <1>1, <1>2, <2>1, <2>2, <2>4, <4>1, <4>2
      <4>3. CASE j > i
        <5>1. j - 1 \in q + 1 .. Len(blocks') /\ j - 1 >= i /\ j - 1 + 1 = j
          BY <1>1, <1>2, <2>1, <2>2, <2>4, <4>1, <4>3
        <5>2. blocks'[j - 1] = blocks[j]
          BY <1>1, <1>2, <2>1, <2>2, <4>1, <5>1
        <5> QED  BY <4>1, <5>1, <5>2
      <4> QED  BY <4>1, <4>2, <4>3
    <3> HIDE DEF q
    <3> QED  BY <3>1, <3>2 DEF BehindPlace
  <2> HIDE DEF q
  <2> QED  BY <2>5, <2>6 DEF Behind
<1>5. CASE Free(b) /\ b = checkPoint
  BY <1>5, DanglingStays
<1> QED  BY <1>3, <1>4, <1>5

\* No block behind the check point: the test freed all of its own.
LEMMA NothingBehind ==
  ASSUME BlocksOK, Behind, ~Dangling, OwnBlocks = <<>>
  PROVE  own = {}
<1>1. PICK p \in 0 .. Len(blocks) : BehindPlace(p)
  BY DEF Behind
<1>2. /\ blocks \in Seq(Block) /\ Len(blocks) \in Nat
      /\ \A i, j \in 1 .. Len(blocks) : blocks[i] = blocks[j] => i = j
  BY LenProperties DEF BlocksOK, IsInjective
<1>3. /\ Place(checkPoint) \in 0 .. Len(blocks)
      /\ Place(checkPoint) = 0 <=> checkPoint = "head"
      /\ checkPoint # "head" => blocks[Place(checkPoint)] = checkPoint
      /\ Len(OwnBlocks) = Len(blocks) - Place(checkPoint)
  BY OwnBlocksType
<1>4. p = Place(checkPoint)
  BY <1>1, <1>2, <1>3 DEF BehindPlace
<1>5. p = Len(blocks)
  BY <1>2, <1>3, <1>4, EmptySeq
<1> QED  BY <1>1, <1>2, <1>5 DEF BehindPlace

LEMMA LeakInvHolds == Spec => []LeakInv
<1>1. Init => LeakInv
  <2> SUFFICES ASSUME Init PROVE Behind
    BY DEF Init, LeakInv
  <2> QED  BY EmptySeq DEF Init, Behind, BehindPlace
<1>2. TInv /\ LeakInv /\ [Next]_vars => LeakInv'
  <2> SUFFICES ASSUME TInv, LeakInv, [Next]_vars, at' = "test" PROVE LeakInv'
    BY DEF LeakInv
  <2>1. BlocksOK /\ PointsOK
    BY TypeParts DEF TInv, Parts
  <2>2. CASE UNCHANGED vars
    BY <2>2 DEF vars, heap, lists, results, verdict, LeakInv, Behind, BehindPlace, Dangling
  <2>3. CASE Runner
    <3>1. Begin("test", LastBlock) /\ UNCHANGED blocks
      BY <2>3, TestBegins
    <3>2. Behind' /\ running'
      BY <2>1, <3>1, BehindBegins DEF Begin
    <3> QED  BY <3>2 DEF LeakInv
  <2>4. CASE Body
    <3>1. BodyFrame /\ at = "test" /\ running /\ (Dangling \/ checkPoint \in own \/ Behind)
      BY <2>4, BodyChange DEF BodyFrame, LeakInv
    <3>2. CASE Return
      <4>1. UNCHANGED <<blocks, checkPoint, own>> /\ running' = FALSE
        BY <3>2 DEF Return, heap
      <4>2. own = {} \/ checkPoint \in own
        BY <2>1, <3>1, <3>2, NothingBehind DEF Return, BlocksClean, BlocksChecked
      <4> QED  BY <4>1, <4>2 DEF LeakInv
    <3>3. CASE running' = FALSE /\ rc' = -1
      BY <3>3 DEF LeakInv
    <3>4. CASE Stays
      <4>1. running'
        BY <3>1, <3>4 DEF Stays
      <4>2. Dangling' \/ checkPoint' \in own' \/ Behind'
        <5>1. CASE UNCHANGED heap
          BY <3>1, <5>1 DEF heap, Behind, BehindPlace, Dangling
        <5>2. CASE \E b \in Block : Malloc(b) \/ Free(b)
          <6>1. CASE Dangling \/ checkPoint \in own
            BY <2>1, <3>1, <5>2, <6>1, DanglingStays DEF BodyFrame
          <6>2. CASE Behind
            BY <2>1, <3>1, <5>2, <6>2, BehindStays DEF BodyFrame
          <6> QED  BY <3>1, <6>1, <6>2
        <5>3. ~ReturnLeaking
          BY <3>4, <3>1 DEF ReturnLeaking, Jump, Stays
        <5> QED  BY <3>1, <5>1, <5>2, <5>3 DEF BodyFrame
      <4> QED  BY <4>1, <4>2 DEF LeakInv
    <3> QED  BY <3>1, <3>2, <3>3, <3>4 DEF BodyFrame, Verdict, Jump
  <2> QED  BY <2>2, <2>3, <2>4 DEF Next
<1>3. Spec => []TInv
  BY CmockaTypes
<1> QED  BY <1>1, <1>2, <1>3, PTL DEF Spec

\* A test that passes has freed its blocks, whatever earlier tests and
\* fixtures left in the list, unless it freed and got anew the block of its
\* check point.
THEOREM PassingTestFreedAll == Spec => []LeaksFound
<1>1. LeakInv => LeaksFound
  BY DEF LeakInv, LeaksFound, Ended
<1> QED  BY <1>1, LeakInvHolds, PTL

-----------------------------------------------------------------------------
\* The test, or the group's setup, whose result is not counted yet.
Open ==
  IF at \in {"group_setup", "setup", "test", "teardown"} THEN {test} ELSE {}

\* What is to be counted of the failures: all but the group's teardown.
Charged == broken \ {AfterAll}

LEMMA ChargedStays == UNCHANGED <<suite, broken>> => Charged' = Charged
BY DEF Charged, AfterAll

LEMMA ChargedBreaks ==
  ASSUME TInv, Breaks, suite' = suite
  PROVE  Charged' = IF at = "group_teardown" THEN Charged ELSE Charged \cup {test}
<1>1. test # AfterAll
  BY TypeParts, SuiteType DEF TInv, Parts, FlowOK, SuiteOK, AfterAll
<1>2. AfterAll' = AfterAll
  BY DEF AfterAll
<1> QED  BY <1>1, <1>2 DEF Charged, Breaks

Closed == Cardinality(Charged \ Open)

\* A call of skip in a fixture that no test has taken for its own: a test that
\* skips itself takes it along.
Credit ==
  IF skipTest /\ ~(at = "test" /\ ~running /\ rc # 0 /\ test \notin Charged)
  THEN 1 ELSE 0

\* One that the test took which is being torn down, and which failed.
Spent ==
  IF /\ at = "teardown" /\ test \in Charged
     /\ status[test] = "skipped" /\ (running \/ rc = 0)
  THEN 1 ELSE 0

BrokenSoFar ==
  /\ Charged \subseteq 0 .. test
  /\ at \in {"group_setup", "setup", "test"} /\ (running \/ rc = 0) =>
       test \notin Charged
  /\ at = "teardown" /\ test \in Charged /\ (running \/ rc = 0) =>
       status[test] \in {"failed", "skipped"}

Counted == total["failed"] + total["error"] + fixtureSkips

Lost == Credit + Spent

Enough == Counted >= Closed + Lost

CountInv == BrokenSoFar /\ Enough

LEMMA LostNext ==
  ASSUME NEW c \in {0, 1}, NEW s \in {0, 1}, c = Credit', s = Spent'
  PROVE  Lost' = c + s
BY DEF Lost

NumbersOK ==
  /\ Counted \in Nat /\ Closed \in Nat
  /\ Credit \in {0, 1} /\ Spent \in {0, 1} /\ IsFiniteSet(Charged)
  /\ Lost = Credit + Spent

LEMMA Numbers == TInv => NumbersOK
<1> SUFFICES ASSUME TInv PROVE NumbersOK
  OBVIOUS
<1>1. ResultsOK /\ SuiteOK
  BY TypeParts, SuiteType DEF TInv, Parts, FlowOK
<1>2. IsFiniteSet(Charged)
  <2>1. IsFiniteSet(0 .. Len(suite.tests) + 1)
    BY <1>1, FS_Interval DEF SuiteOK
  <2> QED  BY <1>1, <2>1, FS_Subset DEF ResultsOK, Charged
<1>3. Closed \in Nat
  BY <1>2, FS_Subset, FS_CardinalityType DEF Closed
<1>4. Counted \in Nat
  BY <1>1 DEF Counted, ResultsOK, Result
<1> QED  BY <1>2, <1>3, <1>4 DEF NumbersOK, Credit, Spent, Lost

\* A step with n calls of skip in a fixture.
Grows(n) ==
  /\ fixtureSkips' = fixtureSkips + n
  /\ Lost' <= Lost + n

SameOpen == BrokenSoFar' /\ Charged' \ Open = Charged \ Open

\* A body fails the test it belongs to, which is open.
LEMMA BodyCounts == TInv /\ CountInv /\ Body => CountInv'
<1> SUFFICES ASSUME TInv, CountInv, Body PROVE CountInv'
  OBVIOUS
<1>1. BodyFrame /\ ResultsOK /\ FlowOK /\ PlaceOK /\ SuiteOK /\ running
  BY BodyChange, TypeParts, SuiteType DEF TInv, Parts, FlowOK, BodyFrame
<1>2. /\ at' = at /\ test' = test /\ status' = status /\ total' = total
      /\ at \in Bodies /\ suite' = suite
  BY <1>1 DEF BodyFrame, PlaceOK
<1>3. Open' = Open
  BY <1>2 DEF Open
<1>4. /\ Charged \subseteq 0 .. test
      /\ at \in {"group_setup", "setup", "test"} => test \notin Charged
      /\ at = "teardown" /\ test \in Charged => status[test] \in {"failed", "skipped"}
      /\ test \in Nat /\ fixtureSkips \in Nat /\ skipTest \in BOOLEAN
  BY <1>1 DEF CountInv, BrokenSoFar, ResultsOK, FlowOK, SuiteOK
<1>5. Credit = IF skipTest THEN 1 ELSE 0
  BY <1>1 DEF Credit
<1>6. Spent = IF at = "teardown" /\ test \in Charged /\ status[test] = "skipped" THEN 1 ELSE 0
  BY <1>1 DEF Spent
<1>7. /\ Counted \in Nat /\ Closed \in Nat /\ Credit \in {0, 1} /\ Spent \in {0, 1}
       /\ fixtureSkips \in Nat /\ Lost = Credit + Spent
  BY <1>1, Numbers DEF NumbersOK, ResultsOK
<1> DEFINE StepOK == SameOpen /\ (Grows(0) \/ Grows(1))
<1>8. ASSUME NEW c \in {0, 1}, NEW s \in {0, 1}, c = Credit', s = Spent', NEW n \in {0, 1},
              fixtureSkips' = fixtureSkips + n, c + s <= Credit + Spent + n
       PROVE  Grows(n)
  <2>1. Lost' = c + s
    BY <1>8, LostNext
  <2> QED  BY <1>7, <1>8, <2>1 DEF Grows
<1>9. PICK c \in {0, 1} : c = Credit'
  BY DEF Credit
<1>10. PICK s \in {0, 1} : s = Spent'
  BY DEF Spent
<1>11. ASSUME Stays, UNCHANGED skipTest PROVE StepOK
  <2>1. Credit' = Credit /\ Spent' = Spent /\ BrokenSoFar' /\ Charged' = Charged
    BY <1>1, <1>2, <1>4, <1>5, <1>6, <1>11, ChargedStays DEF Stays, verdict, BrokenSoFar, Credit, Spent
  <2>2. fixtureSkips' = fixtureSkips + 0
    BY <1>11, <1>7 DEF Stays, verdict
  <2>3. Grows(0)
    BY <1>7, <1>8, <1>9, <1>10, <2>1, <2>2
  <2> QED  BY <2>1, <2>3 DEF SameOpen
<1>12. ASSUME Breaks PROVE Charged' \ Open = Charged \ Open /\ Charged' \subseteq 0 .. test
  <2>1. Charged' = IF at = "group_teardown" THEN Charged ELSE Charged \cup {test}
    BY <1>2, <1>12, ChargedBreaks
  <2>2. CASE at = "group_teardown"
    BY <1>4, <2>1, <2>2
  <2>3. CASE at # "group_teardown"
    <3>1. Open = {test} /\ test \in 0 .. test
      BY <1>2, <1>4, <2>3 DEF Open, Bodies
    <3> QED  BY <1>4, <2>1, <2>3, <3>1
  <2> QED  BY <2>2, <2>3
<1>13. ASSUME running' = FALSE, rc' # 0, Breaks, UNCHANGED <<fixtureSkips, skipTest>>
      PROVE  StepOK
  <2>1. c <= Credit /\ s = 0
    BY <1>2, <1>4, <1>5, <1>13, <1>9, <1>10 DEF Credit, Spent
  <2>2. BrokenSoFar'
    BY <1>2, <1>12, <1>13 DEF BrokenSoFar
  <2>3. fixtureSkips' = fixtureSkips + 0
    BY <1>13, <1>7
  <2>4. Grows(0)
    BY <1>7, <1>8, <1>9, <1>10, <2>1, <2>3
  <2> QED  BY <1>12, <1>13, <2>2, <2>4 DEF SameOpen
<1>14. ASSUME Jump, skipTest' = TRUE, UNCHANGED Charged,
              fixtureSkips' = fixtureSkips + (IF at = "test" THEN 0 ELSE 1)
       PROVE  StepOK
  <2>1. running' = FALSE /\ rc' # 0 /\ s = 0
    BY <1>14, <1>10 DEF Jump, Spent
  <2>2. BrokenSoFar'
    BY <1>2, <1>4, <1>14, <2>1 DEF BrokenSoFar
  <2>3. CASE at = "test"
    <3>1. c = 0 /\ fixtureSkips' = fixtureSkips + 0
      BY <1>2, <1>4, <1>14, <1>9, <2>1, <2>3 DEF Credit
    <3>2. Grows(0)
      BY <1>7, <1>8, <1>9, <1>10, <2>1, <3>1
    <3> QED  BY <1>14, <2>2, <3>2 DEF SameOpen
  <2>4. CASE at # "test"
    <3>1. fixtureSkips' = fixtureSkips + 1
      BY <1>14, <2>4
    <3>2. Grows(1)
      BY <1>7, <1>8, <1>9, <1>10, <2>1, <3>1
    <3> QED  BY <1>14, <2>2, <3>2 DEF SameOpen
  <2> QED  BY <2>3, <2>4
<1>15. ASSUME Return PROVE StepOK
  <2>1. running' = FALSE /\ UNCHANGED <<fixtureSkips, skipTest>>
    BY <1>15 DEF Return, results
  <2>2. CASE rc' # 0
    BY <1>13, <1>15, <2>1, <2>2 DEF Return
  <2>3. CASE rc' = 0
    <3>1. UNCHANGED Charged
      BY <1>2, <1>15, <2>3, ChargedStays DEF Return
    <3>2. Credit' = Credit /\ Spent' = Spent /\ BrokenSoFar'
      BY <1>2, <1>4, <1>5, <1>6, <2>1, <2>3, <3>1 DEF Credit, Spent, BrokenSoFar
    <3>3. fixtureSkips' = fixtureSkips + 0
      BY <1>7, <2>1
    <3>4. Grows(0)
      BY <1>7, <1>8, <1>9, <1>10, <3>2, <3>3
    <3> QED  BY <3>1, <3>2, <3>4 DEF SameOpen
  <2> QED  BY <2>2, <2>3
<1> HIDE DEF StepOK
<1>16. StepOK
  <2>1. Jump => running' = FALSE /\ rc' # 0
    BY DEF Jump
  <2>2. Verdict
    BY <1>1 DEF BodyFrame
  <2> QED  BY <1>2, <1>11, <1>13, <1>14, <1>15, <2>1, <2>2, ChargedStays DEF Verdict
<1>17. Closed' = Closed
  BY <1>3, <1>16 DEF Closed, SameOpen, StepOK
<1>18. ASSUME NEW n \in {0, 1}, Grows(n) PROVE Enough'
  <2>1. Counted' = Counted + n
    BY <1>1, <1>2, <1>18 DEF Counted, ResultsOK, Result, Grows
  <2>2. Counted >= Closed + Lost
    BY DEF CountInv, Enough
  <2>3. PICK l \in {0, 1, 2} : l = Lost'
    BY <1>9, <1>10, LostNext
  <2>4. PICK k \in Nat : k = Closed'
    BY <1>7, <1>17
  <2>5. PICK m \in Nat : m = Counted'
    BY <1>7, <2>1
  <2>6. l <= Lost + n
    BY <1>18, <2>3 DEF Grows
  <2>7. m >= k + l
    BY <1>7, <1>17, <2>1, <2>2, <2>4, <2>5, <2>6
  <2> QED  BY <2>3, <2>4, <2>5, <2>7 DEF Enough
<1> QED  BY <1>16, <1>18 DEF CountInv, SameOpen, StepOK

Bit(b) == IF b THEN 1 ELSE 0

LEMMA EnoughNext ==
  ASSUME TInv, Enough, NEW f \in {0, 1}, NEW d \in {0, 1}, NEW l \in {0, 1, 2},
         Counted' = Counted + f, Closed' = Closed + d, Lost' = l,
         d + l <= f + Lost
  PROVE  Enough'
<1>1. /\ Counted \in Nat /\ Closed \in Nat /\ Lost \in Nat
  BY Numbers DEF NumbersOK
<1>2. Counted >= Closed + Lost
  BY DEF Enough
<1>3. PICK k \in Nat : k = Closed'
  BY <1>1
<1>4. PICK m \in Nat : m = Counted'
  BY <1>1
<1>5. m >= k + l
  BY <1>1, <1>2, <1>3, <1>4
<1> QED  BY <1>3, <1>4, <1>5 DEF Enough

\* A result that is counted.
LEMMA Tally ==
  ASSUME TInv, fixtureSkips' = fixtureSkips, NEW r \in Result,
         total' = [total EXCEPT ![r] = total[r] + 1]
  PROVE  Counted' = Counted + Bit(r \in {"failed", "error"})
<1>1. total \in [Result -> Nat] /\ fixtureSkips \in Nat
  BY TypeParts DEF TInv, Parts, ResultsOK
<1>2. PICK t \in [Result -> Nat] : t = total'
  <2>1. total[r] + 1 \in Nat
    BY <1>1
  <2>2. total' \in [Result -> Nat]
    BY <1>1, <2>1
  <2> QED  BY <2>2
<1>3. Counted' = t["failed"] + t["error"] + fixtureSkips
  BY <1>1, <1>2 DEF Counted
<1>4. CASE r = "failed"
  <2>1. t["failed"] = total["failed"] + 1 /\ t["error"] = total["error"]
    BY <1>1, <1>2, <1>4 DEF Result
  <2> QED  BY <1>1, <1>3, <1>4, <2>1 DEF Counted, Bit, Result
<1>5. CASE r = "error"
  <2>1. t["failed"] = total["failed"] /\ t["error"] = total["error"] + 1
    BY <1>1, <1>2, <1>5 DEF Result
  <2> QED  BY <1>1, <1>3, <1>5, <2>1 DEF Counted, Bit, Result
<1>6. CASE r \notin {"failed", "error"}
  <2>1. t["failed"] = total["failed"] /\ t["error"] = total["error"]
    BY <1>1, <1>2, <1>6 DEF Result
  <2> QED  BY <1>1, <1>3, <1>6, <2>1 DEF Counted, Bit, Result
<1> QED  BY <1>4, <1>5, <1>6

\* The test that was open is closed: it is one of the Charged ones or not.
LEMMA Closes ==
  ASSUME TInv, BrokenSoFar, Open = {test}, Charged' = Charged, Open' \cap Charged = {}
  PROVE  Closed' = Closed + Bit(test \in Charged)
<1>1. IsFiniteSet(Charged) /\ Cardinality(Charged) \in Nat
  BY Numbers, FS_CardinalityType DEF NumbersOK
<1>2. Closed' = Cardinality(Charged)
  <2>1. Charged' \ Open' = Charged
    OBVIOUS
  <2> QED  BY <2>1 DEF Closed
<1>3. Closed = Cardinality(Charged \ {test})
  BY DEF Closed
<1>4. Cardinality(Charged \ {test}) =
        IF test \in Charged THEN Cardinality(Charged) - 1 ELSE Cardinality(Charged)
  BY <1>1, FS_RemoveElement
<1> QED  BY <1>1, <1>2, <1>3, <1>4 DEF Bit

\* The next test, or the end.
MovedOn ==
  /\ BrokenSoFar' /\ Open' \cap Charged = {}
  /\ Spent' = 0 /\ Credit' = Bit(skipTest')

LEMMA MovesOn ==
  ASSUME TInv, BrokenSoFar, ~running, UNCHANGED <<suite, Charged>>,
         \/ BeginTest(test + 1)
         \/ EndTests
  PROVE  MovedOn
<1>1. test \in Nat /\ Charged \subseteq 0 .. test
  BY TypeParts, SuiteType DEF TInv, Parts, FlowOK, SuiteOK, BrokenSoFar
<1>2. CASE BeginTest(test + 1)
  <2>1. at' \in {"setup", "test"} /\ test' = test + 1 /\ running' = TRUE
    BY <1>2 DEF BeginTest, Begin
  <2>2. test' \notin Charged /\ Charged' \subseteq 0 .. test'
    BY <1>1, <2>1
  <2> QED  BY <2>1, <2>2 DEF MovedOn, BrokenSoFar, Open, Spent, Credit, Bit
<1>3. CASE EndTests
  <2>1. at' \in {"group_teardown", "finish"} /\ test' = test
    BY <1>3 DEF EndTests, Begin
  <2> QED  BY <1>1, <2>1 DEF MovedOn, BrokenSoFar, Open, Spent, Credit, Bit
<1> QED  BY <1>2, <1>3

\* Counting a test keeps the account: a failure is counted, or it was skipped
\* by what a fixture had skipped before.
LEMMA CountCounts ==
  ASSUME TInv, CountInv, ~running, at \in {"setup", "test", "teardown"},
         UNCHANGED <<suite, Charged, fixtureSkips>>, NEW r \in Result, Count(r),
         Bit(test \in Charged) + Bit(skipTest') <= Bit(r \in {"failed", "error"}) + Lost
  PROVE  CountInv'
<1>1. BeginTest(test + 1) \/ EndTests
  BY DEF Count
<1>2. MovedOn
  BY <1>1, MovesOn DEF CountInv
<1>3. Closed' = Closed + Bit(test \in Charged)
  BY <1>2, Closes DEF CountInv, MovedOn, Open
<1>4. Counted' = Counted + Bit(r \in {"failed", "error"})
  BY Tally DEF Count
<1>5. PICK l \in {0, 1} : l = Bit(skipTest')
  BY DEF Bit
<1>6. Lost' = l + 0
  BY <1>2, <1>5, LostNext DEF MovedOn
<1>7. Bit(test \in Charged) \in {0, 1} /\ Bit(r \in {"failed", "error"}) \in {0, 1}
  BY DEF Bit
<1>8. PICK d \in {0, 1} : d = Bit(test \in Charged)
  BY <1>7
<1>9. PICK f \in {0, 1} : f = Bit(r \in {"failed", "error"})
  BY <1>7
<1>10. d + l <= f + Lost
  BY <1>5, <1>8, <1>9
<1>11. Lost' = l
  BY <1>5, <1>6
<1>12. Enough'
  <2>1. Counted' = Counted + f /\ Closed' = Closed + d
    BY <1>3, <1>4, <1>8, <1>9
  <2>2. Enough
    BY DEF CountInv
  <2> QED  BY <1>5, <1>10, <1>11, <2>1, <2>2, EnoughNext
<1> QED  BY <1>2, <1>12 DEF CountInv, MovedOn

LEMMA RunnerCounts == TInv /\ CountInv /\ Runner => CountInv'
<1> SUFFICES ASSUME TInv, CountInv, Runner PROVE CountInv'
  OBVIOUS
<1>1. ResultsOK /\ FlowOK /\ PlaceOK /\ SuiteOK /\ BrokenSoFar /\ Enough
  BY TypeParts, SuiteType DEF TInv, Parts, FlowOK, CountInv
<1>2. Lost = Credit + Spent /\ Credit \in {0, 1} /\ Spent \in {0, 1}
  BY Numbers DEF NumbersOK
<1>3. CASE AfterGroupSetup
  <2>1. /\ UNCHANGED <<suite, rc, skipTest, Charged, fixtureSkips>>
        /\ ~running /\ at = "group_setup" /\ test = 0
    BY <1>1, <1>3, ChargedStays DEF AfterGroupSetup, verdict, Ended, PlaceOK
  <2>2. Open = {test} /\ Spent = 0 /\ Credit = Bit(skipTest)
    BY <2>1 DEF Open, Spent, Credit, Bit
  <2>3. CASE rc = 0
    <3>1. BeginTest(test + 1) /\ total' = total
      BY <1>3, <2>1, <2>3 DEF AfterGroupSetup
    <3>2. MovedOn /\ test \notin Charged
      BY <1>1, <2>1, <2>3, <3>1, MovesOn DEF BrokenSoFar
    <3>3. Closed' = Closed + 0 /\ Counted' = Counted + 0
      <4>1. Closed' = Closed + Bit(test \in Charged) /\ Bit(test \in Charged) = 0
        BY <1>1, <2>1, <2>2, <3>2, Closes DEF MovedOn, Bit
      <4>2. Counted' = Counted /\ Counted \in Nat
        BY <2>1, <3>1, Numbers DEF NumbersOK, Counted
      <4> QED  BY <4>1, <4>2 DEF Bit
    <3>4. PICK c \in {0, 1} : c = Bit(skipTest)
      BY DEF Bit
    <3>5. Lost' = c + 0
      BY <2>1, <3>2, <3>4, LostNext DEF MovedOn
    <3>6. Lost' = c /\ 0 + c <= 0 + Lost
      BY <1>2, <2>2, <3>4, <3>5
    <3>7. Enough'
      BY <1>1, <3>3, <3>4, <3>6, EnoughNext
    <3> QED  BY <3>2, <3>7 DEF CountInv, MovedOn
  <2>4. CASE rc # 0
    <3>1. EndTests /\ total' = [total EXCEPT !["error"] = total["error"] + 1]
      BY <1>3, <2>4 DEF AfterGroupSetup
    <3>2. MovedOn
      BY <1>1, <2>1, <3>1, MovesOn
    <3>3. Closed' = Closed + Bit(test \in Charged) /\ Counted' = Counted + 1
      <4>1. Counted' = Counted + Bit("error" \in {"failed", "error"})
        BY <2>1, <3>1, Tally DEF Result
      <4> QED  BY <1>1, <2>1, <2>2, <3>2, <4>1, Closes DEF MovedOn, Bit
    <3>4. PICK c \in {0, 1} : c = Bit(skipTest)
      BY DEF Bit
    <3>5. PICK d \in {0, 1} : d = Bit(test \in Charged)
      BY DEF Bit
    <3>6. Lost' = c + 0
      BY <2>1, <3>2, <3>4, LostNext DEF MovedOn
    <3>7. Lost' = c /\ d + c <= 1 + Lost
      BY <1>2, <2>2, <3>4, <3>5, <3>6
    <3>8. Enough'
      BY <1>1, <3>3, <3>4, <3>5, <3>7, EnoughNext
    <3> QED  BY <3>2, <3>8 DEF CountInv, MovedOn
  <2> QED  BY <2>3, <2>4
<1>4. CASE AfterSetup
  <2>1. /\ UNCHANGED <<suite, rc, skipTest, Charged, fixtureSkips>>
        /\ ~running /\ at = "setup"
    BY <1>4, ChargedStays DEF AfterSetup, verdict, Ended
  <2>2. Spent = 0 /\ Credit = Bit(skipTest)
    BY <2>1 DEF Spent, Credit, Bit
  <2>3. CASE rc = 0
    <3>1. /\ at' = "test" /\ running' = TRUE
          /\ UNCHANGED <<test, status, total, fixturePoint>>
      BY <1>4, <2>3 DEF AfterSetup, Begin
    <3>2. Closed' = Closed /\ Counted' = Counted
      BY <2>1, <3>1 DEF Closed, Counted, Open
    <3>3. Credit' = Credit /\ Spent' = Spent
      BY <2>1, <2>2, <3>1 DEF Credit, Spent, Bit
    <3>4. Enough'
      BY <1>1, <3>2, <3>3 DEF Enough, Lost
    <3>5. BrokenSoFar'
      BY <1>1, <2>1, <2>3, <3>1 DEF BrokenSoFar
    <3> QED  BY <3>4, <3>5 DEF CountInv
  <2>4. CASE rc # 0
    <3>1. Count("error")
      BY <1>4, <2>4 DEF AfterSetup
    <3>2. Bit(test \in Charged) + Bit(skipTest') <= Bit("error" \in {"failed", "error"}) + Lost
      BY <1>2, <2>1, <2>2 DEF Bit
    <3> QED  BY <2>1, <3>1, <3>2, CountCounts DEF Result
  <2> QED  BY <2>3, <2>4
<1>5. CASE AfterTest
  <2> DEFINE result == IF rc = 0 THEN "passed" ELSE IF skipTest THEN "skipped" ELSE "failed"
  <2>1. /\ UNCHANGED <<suite, rc, Charged, fixtureSkips>>
        /\ skipTest' = (IF rc = 0 THEN skipTest ELSE FALSE)
        /\ ~running /\ at = "test" /\ result \in Result
        /\ IF suite.tests[test].teardown THEN Teardown(result) ELSE Count(result)
    BY <1>5, ChargedStays DEF AfterTest, verdict, Ended, Result
  <2>2. /\ Spent = 0 /\ skipTest \in BOOLEAN
        /\ rc = 0 => test \notin Charged /\ Credit = Bit(skipTest)
        /\ rc # 0 /\ test \in Charged => Credit = Bit(skipTest)
    BY <1>1, <2>1 DEF Spent, Credit, Bit, BrokenSoFar, ResultsOK
  <2>3. Bit(test \in Charged) + Bit(skipTest') <= Bit(result \in {"failed", "error"}) + Lost
    <3>1. CASE rc = 0
      BY <1>2, <2>1, <2>2, <3>1 DEF Bit
    <3>2. CASE rc # 0 /\ test \in Charged
      <4>1. Bit(skipTest') = 0 /\ Bit(test \in Charged) = 1 /\ Credit = Bit(skipTest)
        BY <2>1, <2>2, <3>2 DEF Bit
      <4>2. CASE skipTest
        BY <1>2, <2>2, <3>2, <4>1, <4>2 DEF Bit
      <4>3. CASE ~skipTest
        BY <1>2, <2>2, <3>2, <4>1, <4>3 DEF Bit
      <4> QED  BY <4>2, <4>3
    <3>3. CASE rc # 0 /\ test \notin Charged
      <4>1. Bit(skipTest') = 0 /\ Bit(test \in Charged) = 0
        BY <2>1, <3>3 DEF Bit
      <4> QED  BY <1>2, <4>1 DEF Bit
    <3> QED  BY <3>1, <3>2, <3>3
  <2>4. CASE ~suite.tests[test].teardown
    <3>1. Count(result)
      BY <2>1, <2>4
    <3> HIDE DEF result
    <3> QED  BY <2>1, <2>3, <3>1, CountCounts
  <2>5. CASE suite.tests[test].teardown
    <3>1. /\ at' = "teardown" /\ running' = TRUE
          /\ status' = [status EXCEPT ![test] = result]
          /\ UNCHANGED <<test, total, fixturePoint>>
      BY <2>1, <2>5 DEF Teardown, Begin
    <3>2. status'[test'] = result
      BY <1>1, <2>1, <3>1 DEF ResultsOK, PlaceOK
    <3>3. Closed' = Closed + 0 /\ Counted' = Counted + 0
      <4>1. Closed' = Closed /\ Counted' = Counted
        BY <2>1, <3>1 DEF Closed, Counted, Open
      <4> QED  BY <4>1, Numbers DEF NumbersOK
    <3>4. BrokenSoFar'
      BY <1>1, <2>1, <2>2, <3>1, <3>2 DEF BrokenSoFar
    <3>5. PICK c \in {0, 1} : c = Credit'
      BY DEF Credit
    <3>6. PICK s \in {0, 1} : s = Spent'
      BY DEF Spent
    <3>7. c + s <= Lost
      <4>1. CASE rc = 0
        <5>1. c = Credit /\ s = 0
          BY <2>1, <2>2, <3>1, <3>2, <3>5, <3>6, <4>1 DEF Credit, Spent, Bit
        <5> QED  BY <1>2, <5>1
      <4>2. CASE rc # 0
        <5>1. c = 0
          BY <2>1, <3>5, <4>2 DEF Credit
        <5>2. s <= Credit
          <6>1. CASE s = 0
            BY <1>2, <6>1
          <6>2. CASE s = 1
            <7>1. test' \in Charged' /\ status'[test'] = "skipped"
              BY <3>6, <6>2 DEF Spent
            <7>2. test \in Charged /\ skipTest
              BY <2>1, <3>1, <3>2, <4>2, <7>1
            <7>3. Credit = 1
              BY <2>2, <4>2, <7>2 DEF Bit
            <7> QED  BY <6>2, <7>3
          <6> QED  BY <6>1, <6>2
        <5> QED  BY <1>2, <5>1, <5>2
      <4> QED  BY <4>1, <4>2
    <3>8. Lost' = c + s
      BY <3>5, <3>6, LostNext
    <3>9. PICK l \in {0, 1, 2} : l = c + s
      OBVIOUS
    <3>10. Lost' = l /\ 0 + l <= 0 + Lost
      BY <1>2, <3>7, <3>8, <3>9
    <3>11. Enough'
      BY <1>1, <3>3, <3>10, EnoughNext
    <3> QED  BY <3>4, <3>11 DEF CountInv
  <2> QED  BY <2>4, <2>5
<1>6. CASE AfterTeardown
  <2> DEFINE result == IF rc = 0 THEN status[test] ELSE "error"
  <2>1. /\ UNCHANGED <<suite, rc, skipTest, Charged, fixtureSkips>>
        /\ ~running /\ at = "teardown" /\ Count(result)
    BY <1>6, ChargedStays DEF AfterTeardown, verdict, Ended
  <2>2. Credit = Bit(skipTest) /\ result \in Result
    BY <1>1, <2>1 DEF Credit, Bit, PlaceOK, Result
  <2>3. Bit(test \in Charged) + Bit(skipTest') <= Bit(result \in {"failed", "error"}) + Lost
    <3>1. CASE rc # 0
      BY <1>2, <2>1, <2>2, <3>1 DEF Bit
    <3>2. CASE rc = 0 /\ test \notin Charged
      BY <1>2, <2>1, <2>2, <3>2 DEF Bit
    <3>3. CASE rc = 0 /\ test \in Charged
      <4>1. status[test] = "failed" \/ (status[test] = "skipped" /\ Spent = 1)
        BY <1>1, <2>1, <3>3 DEF BrokenSoFar, Spent
      <4> QED  BY <1>2, <2>1, <2>2, <3>3, <4>1 DEF Bit
    <3> QED  BY <3>1, <3>2, <3>3
  <2> HIDE DEF result
  <2> QED  BY <2>1, <2>2, <2>3, CountCounts
<1>7. CASE AfterGroupTeardown \/ Finish
  <2>1. /\ UNCHANGED <<test, running, rc, Charged, fixtureSkips, status, total, skipTest>>
        /\ at \notin {"group_setup", "setup", "test", "teardown"}
        /\ at' \notin {"group_setup", "setup", "test", "teardown"}
    BY <1>7, ChargedStays DEF AfterGroupTeardown, Finish, Ended, verdict, results
  <2>2. Closed' = Closed /\ Counted' = Counted /\ Credit' = Credit /\ Spent' = Spent
    BY <2>1 DEF Closed, Counted, Open, Credit, Spent
  <2>3. Enough'
    BY <1>1, <2>2 DEF Enough, Lost
  <2>4. BrokenSoFar'
    BY <1>1, <2>1 DEF BrokenSoFar
  <2> QED  BY <2>3, <2>4 DEF CountInv
<1> QED  BY <1>3, <1>4, <1>5, <1>6, <1>7 DEF Runner

LEMMA CountInvHolds == Spec => []CountInv
<1>1. Init => CountInv
  <2> SUFFICES ASSUME Init PROVE CountInv
    OBVIOUS
  <2>1. BrokenSoFar /\ Charged = {} /\ skipTest = FALSE
    BY DEF Init, BrokenSoFar, Charged
  <2>2. Counted = 0 /\ Credit = 0 /\ Spent = 0
    BY <2>1 DEF Init, Counted, Credit, Spent, Result
  <2>3. Closed = 0
    BY <2>1, FS_EmptySet DEF Closed
  <2> QED  BY <2>1, <2>2, <2>3 DEF CountInv, Enough, Lost
<1>2. TInv /\ CountInv /\ [Next]_vars => CountInv'
  <2>1. CASE UNCHANGED vars
    BY <2>1 DEF vars, heap, lists, results, verdict, CountInv, BrokenSoFar, Enough,
       Counted, Closed, Lost, Credit, Spent, Open, Charged, AfterAll
  <2> QED  BY <2>1, BodyCounts, RunnerCounts DEF Next
<1> QED  BY <1>1, <1>2, CmockaTypes, PTL DEF Spec

\* No failure of a test or of the group's setup is lost from the value that is
\* returned, except those that a skip in a fixture made count as skipped; one
\* of the group's teardown is never in it.
THEOREM NoFailureLost == Spec => []FailuresCounted
<1>1. TInv /\ CountInv => FailuresCounted
  <2> SUFFICES ASSUME TInv, CountInv, at = "returned"
               PROVE  ReturnValue + fixtureSkips >= Cardinality(Charged)
    BY DEF FailuresCounted, Charged
  <2>1. Closed = Cardinality(Charged)
    <3>1. Charged \ Open = Charged
      BY DEF Open
    <3> QED  BY <3>1 DEF Closed
  <2>2. Counted >= Closed + Lost /\ Lost \in Nat /\ Closed \in Nat
    BY Numbers DEF CountInv, Enough, NumbersOK
  <2>3. Counted = ReturnValue + fixtureSkips /\ Counted \in Nat
    BY Numbers DEF Counted, ReturnValue, NumbersOK
  <2> QED  BY <2>1, <2>2, <2>3
<1> QED  BY <1>1, CmockaTypes, CountInvHolds, PTL

-----------------------------------------------------------------------------
\* The first n tests have passed, and what they set up they tore down.
CleanUpTo(n) ==
  \A i \in 1 .. n :
    status[i] = "passed" /\ (suite.tests[i].setup => suite.tests[i].teardown)

PassedSoFar(n) == ~suite.groupSetup /\ CleanUpTo(n)

\* A body that answers for every block of the list.
FromHead == checkPoint = "head" /\ (~running /\ rc # -1 => blocks = <<>>)

Unclean ==
  IF suite.groupTeardown THEN rc = -1
  ELSE suite.groupSetup \/ ~CleanUpTo(Len(suite.tests))

\* As long as all tests pass, every test begins with an empty list.
CleanInv ==
  /\ at = "group_setup" => suite.groupSetup
  /\ at = "setup" => suite.tests[test].setup
  /\ at \in {"setup", "test"} /\ PassedSoFar(test - 1) =>
       /\ fixturePoint = IF suite.tests[test].setup THEN "head" ELSE "null"
       /\ at = "test" /\ ~suite.tests[test].setup => FromHead
  /\ at = "teardown" /\ PassedSoFar(test) => FromHead
  /\ at = "group_teardown" => suite.groupTeardown /\ FromHead
  /\ at = "finish" /\ blocks # <<>> => Unclean
  /\ at = "exited" => Unclean

LEMMA FromHeadStays ==
  ASSUME BlocksOK, BodyFrame, BlocksChecked, FromHead
  PROVE  FromHead'
<1>1. checkPoint' = "head" /\ running
  BY DEF BodyFrame, FromHead
<1>2. CASE Return
  <2>1. OwnBlocks = <<>> /\ ~Dangling /\ blocks' = blocks
    BY <1>2 DEF Return, BlocksClean, heap
  <2>2. Place(checkPoint) = 0 /\ Len(OwnBlocks) = Len(blocks) - Place(checkPoint)
    BY <1>1, <2>1, OwnBlocksType DEF BodyFrame
  <2>3. Len(blocks) = 0
    <3>1. Len(blocks) \in Nat /\ Len(OwnBlocks) = 0
      BY <2>1, LenProperties, EmptySeq DEF BlocksOK
    <3> QED  BY <2>2, <3>1
  <2>4. blocks' = <<>>
    BY <2>1, <2>3, EmptySeq DEF BlocksOK
  <2> QED  BY <1>1, <2>4 DEF FromHead
<1>3. CASE running' = running \/ rc' = -1
  BY <1>1, <1>3 DEF FromHead
<1> QED  BY <1>2, <1>3 DEF BodyFrame, Verdict, Stays, Jump

LEMMA BodyClean == TInv /\ CleanInv /\ Body => CleanInv'
<1> SUFFICES ASSUME TInv, CleanInv, Body PROVE CleanInv'
  OBVIOUS
<1>1. BodyFrame /\ BlocksOK /\ PlaceOK
  BY BodyChange, TypeParts DEF TInv, Parts
<1>2. /\ UNCHANGED <<suite, at, test, status, fixturePoint>> /\ at \in Bodies
  BY <1>1 DEF BodyFrame, PlaceOK
<1>3. BlocksChecked /\ FromHead => FromHead'
  BY <1>1, FromHeadStays
<1>4. at' \notin {"finish", "exited"}
  BY <1>2 DEF Bodies
<1> QED
  BY <1>2, <1>3, <1>4 DEF CleanInv, PassedSoFar, CleanUpTo, BlocksChecked

\* The next test begins, or the tests end, with an empty list if all passed.
LEMMA CleanGoesOn ==
  ASSUME TInv, ~running, UNCHANGED <<suite, rc, blocks>>, NEW n \in Nat, n = test,
         \/ n < Len(suite.tests) /\ BeginTest(n + 1)
         \/ (n = Len(suite.tests) \/ suite.groupSetup) /\ EndTests,
         PassedSoFar(n)' => blocks = <<>>
  PROVE  CleanInv'
<1>1. SuiteOK
  BY TypeParts, SuiteType DEF TInv, Parts, FlowOK
<1>2. CASE n < Len(suite.tests) /\ BeginTest(n + 1)
  <2>1. /\ at' \in {"setup", "test"} /\ test' = n + 1 /\ running' = TRUE
        /\ checkPoint' = LastBlock
        /\ at' = "setup" => suite.tests[n + 1].setup
        /\ fixturePoint' = IF suite.tests[n + 1].setup THEN LastBlock ELSE "null"
        /\ n + 1 - 1 = n
    BY <1>2 DEF BeginTest, Begin
  <2>2. PassedSoFar(test - 1)' => LastBlock = "head"
    BY <2>1 DEF LastBlock
  <2> QED  BY <2>1, <2>2 DEF CleanInv, FromHead
<1>3. CASE (n = Len(suite.tests) \/ suite.groupSetup) /\ EndTests
  <2>1. CASE suite.groupTeardown
    <3>1. at' = "group_teardown" /\ checkPoint' = "head" /\ running' = TRUE
      BY <1>3, <2>1 DEF EndTests, Begin
    <3> QED  BY <2>1, <3>1 DEF CleanInv, FromHead
  <2>2. CASE ~suite.groupTeardown
    <3>1. at' = "finish"
      BY <1>3, <2>2 DEF EndTests
    <3>2. blocks' # <<>> => Unclean'
      <4>1. suite.groupSetup => Unclean'
        BY <2>2 DEF Unclean
      <4>2. n = Len(suite'.tests) /\ ~PassedSoFar(n)' => Unclean'
        BY <2>2 DEF Unclean, PassedSoFar
      <4> QED  BY <1>3, <4>1, <4>2
    <3> QED  BY <3>1, <3>2 DEF CleanInv
  <2> QED  BY <2>1, <2>2
<1> QED  BY <1>2, <1>3

\* A test is counted that passed with an empty list, or did not pass.
LEMMA CountClean ==
  ASSUME TInv, ~running, at \in {"setup", "test", "teardown"},
         UNCHANGED <<suite, rc, blocks>>, NEW r \in Result, Count(r),
         /\ ~suite.groupSetup /\ CleanUpTo(test - 1) /\ r = "passed"
         /\ suite.tests[test].setup => suite.tests[test].teardown
         => blocks = <<>>
  PROVE  CleanInv'
<1>1. SuiteOK /\ ResultsOK /\ test \in 1 .. Len(suite.tests)
  BY TypeParts, SuiteType DEF TInv, Parts, FlowOK, PlaceOK
<1>2. PICK n \in 1 .. Len(suite.tests) : n = test
  BY <1>1
<1>3. status' = [status EXCEPT ![n] = r]
  BY <1>2 DEF Count
<1>4. ASSUME PassedSoFar(n)' PROVE blocks = <<>>
  <2>1. r = "passed" /\ (suite.tests[n].setup => suite.tests[n].teardown)
    <3>1. status'[n] = r
      BY <1>1, <1>3 DEF ResultsOK
    <3>2. n \in 1 .. n
      OBVIOUS
    <3> QED  BY <1>4, <3>1, <3>2 DEF PassedSoFar, CleanUpTo
  <2>2. CleanUpTo(n - 1)
    <3>1. \A i \in 1 .. n - 1 : status'[i] = status[i] /\ i \in 1 .. n
      BY <1>1, <1>3 DEF ResultsOK
    <3> QED  BY <1>4, <3>1 DEF PassedSoFar, CleanUpTo
  <2> QED  BY <1>2, <1>4, <2>1, <2>2 DEF PassedSoFar
<1>5. \/ n < Len(suite.tests) /\ BeginTest(n + 1)
      \/ n = Len(suite.tests) /\ EndTests
  BY <1>1, <1>2 DEF Count, SuiteOK
<1> QED  BY <1>2, <1>4, <1>5, CleanGoesOn

LEMMA RunnerClean == TInv /\ CleanInv /\ Runner => CleanInv'
<1> SUFFICES ASSUME TInv, CleanInv, Runner PROVE CleanInv'
  OBVIOUS
<1>1. ResultsOK /\ FlowOK /\ PlaceOK /\ SuiteOK
  BY TypeParts, SuiteType DEF TInv, Parts, FlowOK
<1>2. CASE AfterGroupSetup
  <2>1. UNCHANGED <<suite, rc, blocks>> /\ ~running /\ test = 0 /\ suite.groupSetup
    BY <1>1, <1>2 DEF AfterGroupSetup, Ended, PlaceOK, CleanInv
  <2>2. BeginTest(0 + 1) \/ EndTests
    BY <1>2 DEF AfterGroupSetup
  <2>3. ~PassedSoFar(0)'
    BY <2>1 DEF PassedSoFar
  <2> QED  BY <1>1, <2>1, <2>2, <2>3, CleanGoesOn DEF SuiteOK
<1>3. CASE AfterSetup
  <2>1. UNCHANGED <<suite, rc, blocks>> /\ ~running /\ at = "setup"
    BY <1>3 DEF AfterSetup, Ended
  <2>2. CASE rc = 0
    <3>1. /\ at' = "test" /\ running' = TRUE /\ checkPoint' = LastBlock
          /\ UNCHANGED <<test, status, fixturePoint>>
      BY <1>3, <2>2 DEF AfterSetup, Begin
    <3>2. ASSUME PassedSoFar(test - 1)'
          PROVE  /\ fixturePoint = IF suite.tests[test].setup THEN "head" ELSE "null"
      BY <2>1, <3>1, <3>2 DEF CleanInv, PassedSoFar, CleanUpTo
    <3>3. suite.tests[test].setup
      BY <2>1 DEF CleanInv
    <3> QED  BY <2>1, <3>1, <3>2, <3>3 DEF CleanInv
  <2>3. CASE rc # 0
    <3>1. Count("error")
      BY <1>3, <2>3 DEF AfterSetup
    <3> QED  BY <2>1, <3>1, CountClean DEF Result
  <2> QED  BY <2>2, <2>3
<1>4. CASE AfterTest
  <2> DEFINE result == IF rc = 0 THEN "passed" ELSE IF skipTest THEN "skipped" ELSE "failed"
  <2>1. /\ UNCHANGED <<suite, rc, blocks>>
        /\ ~running /\ at = "test" /\ result \in Result
        /\ IF suite.tests[test].teardown THEN Teardown(result) ELSE Count(result)
    BY <1>4 DEF AfterTest, Ended, Result
  <2>2. result = "passed" <=> rc = 0
    OBVIOUS
  <2> HIDE DEF result
  <2>3. ~suite.groupSetup /\ CleanUpTo(test - 1) =>
          /\ fixturePoint = IF suite.tests[test].setup THEN "head" ELSE "null"
          /\ rc = 0 /\ ~suite.tests[test].setup => blocks = <<>>
    <3>1. rc = 0 => rc # -1
      OBVIOUS
    <3> QED  BY <2>1, <3>1 DEF CleanInv, PassedSoFar, FromHead
  <2>4. CASE ~suite.tests[test].teardown
    <3>1. Count(result)
      BY <2>1, <2>4
    <3> QED  BY <2>1, <2>2, <2>3, <2>4, <3>1, CountClean
  <2>5. CASE suite.tests[test].teardown
    <3>1. /\ at' = "teardown" /\ running' = TRUE
          /\ checkPoint' = (IF fixturePoint = "null" THEN LastBlock ELSE fixturePoint)
          /\ status' = [status EXCEPT ![test] = result]
          /\ UNCHANGED <<test, fixturePoint>>
      BY <2>1, <2>5 DEF Teardown, Begin
    <3>2. PICK n \in 1 .. Len(suite.tests) : n = test
      BY <1>1, <2>1 DEF PlaceOK
    <3>3. ASSUME PassedSoFar(n)' PROVE checkPoint' = "head"
      <4>1. status'[n] = "passed" /\ status'[n] = result
        BY <1>1, <3>1, <3>2, <3>3 DEF PassedSoFar, CleanUpTo, ResultsOK
      <4>2. \A i \in 1 .. n - 1 : status'[i] = status[i] /\ i \in 1 .. n
        BY <1>1, <3>1, <3>2 DEF ResultsOK
      <4>3. CleanUpTo(n - 1) /\ ~suite.groupSetup
        BY <2>1, <3>3, <4>2 DEF PassedSoFar, CleanUpTo
      <4>4. CASE suite.tests[test].setup
        BY <2>3, <3>1, <3>2, <4>3, <4>4
      <4>5. CASE ~suite.tests[test].setup
        BY <2>2, <2>3, <3>1, <3>2, <4>1, <4>3, <4>5 DEF LastBlock
      <4> QED  BY <4>4, <4>5
    <3> QED  BY <3>1, <3>2, <3>3 DEF CleanInv, FromHead
  <2> QED  BY <2>4, <2>5
<1>5. CASE AfterTeardown
  <2> DEFINE result == IF rc = 0 THEN status[test] ELSE "error"
  <2>1. /\ UNCHANGED <<suite, rc, blocks>>
        /\ ~running /\ at = "teardown" /\ Count(result)
    BY <1>5 DEF AfterTeardown, Ended
  <2>2. result \in Result /\ (result = "passed" => rc = 0 /\ status[test] = "passed")
    BY <1>1, <2>1 DEF PlaceOK, Result
  <2> HIDE DEF result
  <2>3. ASSUME ~suite.groupSetup, CleanUpTo(test - 1), result = "passed",
               suite.tests[test].setup => suite.tests[test].teardown
        PROVE  blocks = <<>>
    <3>1. test \in 1 .. Len(suite.tests)
      BY <1>1, <2>1 DEF PlaceOK
    <3>2. \A i \in 1 .. test : i = test \/ i \in 1 .. test - 1
      BY <3>1
    <3>3. PassedSoFar(test)
      BY <2>2, <2>3, <3>2 DEF PassedSoFar, CleanUpTo
    <3>4. rc # -1
      BY <2>2, <2>3
    <3> QED  BY <2>1, <3>3, <3>4 DEF CleanInv, FromHead
  <2> QED  BY <2>1, <2>2, <2>3, CountClean
<1>6. CASE AfterGroupTeardown
  <2>1. at = "group_teardown" /\ at' = "finish" /\ ~running /\ UNCHANGED <<suite, rc, blocks>>
    BY <1>6 DEF AfterGroupTeardown, Ended, heap
  <2>2. blocks' # <<>> => Unclean'
    BY <2>1 DEF CleanInv, FromHead, Unclean
  <2> QED  BY <2>1, <2>2 DEF CleanInv
<1>7. CASE Finish
  <2>1. /\ at = "finish" /\ at' \in {"returned", "exited"}
        /\ at' = "exited" => blocks # <<>>
        /\ UNCHANGED <<suite, rc, blocks, status>>
    BY <1>7 DEF Finish, heap, results
  <2> QED  BY <2>1 DEF CleanInv, Unclean, CleanUpTo
<1> QED  BY <1>2, <1>3, <1>4, <1>5, <1>6, <1>7 DEF Runner

LEMMA CleanInvHolds == Spec => []CleanInv
<1>1. Init => CleanInv
  <2> SUFFICES ASSUME Init PROVE CleanInv
    OBVIOUS
  <2> QED  BY DEF Init, CleanInv, FromHead
<1>2. TInv /\ CleanInv /\ [Next]_vars => CleanInv'
  <2>1. CASE UNCHANGED vars
    BY <2>1 DEF vars, heap, lists, results, verdict, CleanInv, FromHead, PassedSoFar,
       CleanUpTo, Unclean
  <2> QED  BY <2>1, BodyClean, RunnerClean DEF Next
<1> QED  BY <1>1, <1>2, CmockaTypes, PTL DEF Spec

\* The program is ended in place of returning the number of failures only if
\* something was not clean before.
THEOREM ExitOnlyIfUnclean == Spec => []ExitMeansUnclean
<1>1. TInv /\ CleanInv => ExitMeansUnclean
  <2>1. TInv => DOMAIN suite.tests = 1 .. Len(suite.tests)
    BY LenProperties, CmockaAssumption DEF TInv, TypeOK
  <2> QED  BY <2>1 DEF CleanInv, ExitMeansUnclean, Unclean, CleanUpTo
<1> QED  BY <1>1, CmockaTypes, CleanInvHolds, PTL

-----------------------------------------------------------------------------
\* How often f uses node i.
Uses(f, i) == UsedBefore(f, Len(f) + 1, i)

\* What the refcount of a node is after n uses.
Left(count, n) ==
  IF count > 0 THEN count - n ELSE IF count = -1 /\ n > 0 THEN -2 ELSE count

LEMMA UsesType ==
  ASSUME NEW f, NEW n \in Nat, NEW i
  PROVE  UsedBefore(f, n, i) \in Nat
<1>1. IsFiniteSet(1 .. n - 1)
  BY FS_Interval
<1>2. IsFiniteSet({m \in 1 .. n - 1 : f[m] = i})
  BY <1>1, FS_Subset
<1> QED  BY <1>2, FS_CardinalityType DEF UsedBefore

\* One more use.
LEMMA UsesAppend ==
  ASSUME NEW S, NEW f \in Seq(S), NEW x \in S, NEW i
  PROVE  /\ \A n \in 1 .. Len(f) + 1 :
              UsedBefore(Append(f, x), n, i) = UsedBefore(f, n, i)
         /\ Uses(Append(f, x), i) = IF x = i THEN Uses(f, i) + 1 ELSE Uses(f, i)
<1> DEFINE g == Append(f, x)
           A == {m \in 1 .. Len(f) : f[m] = i}
           B == {m \in 1 .. Len(f) + 1 : g[m] = i}
<1>1. /\ Len(f) \in Nat /\ Len(g) = Len(f) + 1 /\ g[Len(f) + 1] = x
      /\ \A m \in 1 .. Len(f) : g[m] = f[m]
  BY AppendProperties, LenProperties
<1>2. ASSUME NEW n \in 1 .. Len(f) + 1
      PROVE  UsedBefore(g, n, i) = UsedBefore(f, n, i)
  <2>1. {m \in 1 .. n - 1 : g[m] = i} = {m \in 1 .. n - 1 : f[m] = i}
    BY <1>1
  <2> QED  BY <2>1 DEF UsedBefore
<1>3. Uses(f, i) = Cardinality(A) /\ Uses(g, i) = Cardinality(B)
  <2>1. Len(f) + 1 - 1 = Len(f) /\ Len(f) + 1 + 1 - 1 = Len(f) + 1
    BY <1>1
  <2> QED  BY <1>1, <2>1 DEF Uses, UsedBefore
<1>4. IsFiniteSet(A)
  <2>1. IsFiniteSet(1 .. Len(f))
    BY <1>1, FS_Interval
  <2> QED  BY <2>1, FS_Subset
<1>5. CASE x = i
  <2>1. B = A \cup {Len(f) + 1} /\ Len(f) + 1 \notin A
    BY <1>1, <1>5
  <2>2. Cardinality(B) = Cardinality(A) + 1
    BY <1>4, <2>1, FS_AddElement
  <2> HIDE DEF A, B, g
  <2> QED  BY <1>2, <1>3, <1>5, <2>2 DEF g
<1>6. CASE x # i
  <2>1. B = A
    BY <1>1, <1>6
  <2> HIDE DEF A, B, g
  <2> QED  BY <1>2, <1>3, <1>6, <2>1 DEF g
<1> QED  BY <1>5, <1>6

\* The list q holds, in place i, node e[i] of those that were announced, t, in
\* their order and less the uses in f; the nodes it does not hold are used up.
Tracks(q, t, f, e) ==
  /\ \A i \in 1 .. Len(q) : e[i] \in 1 .. Len(t)
  /\ \A i, j \in 1 .. Len(q) : i < j => e[i] < e[j]
  /\ \A i \in 1 .. Len(q) :
       /\ q[i].value = t[e[i]].value
       /\ q[i].count = Left(t[e[i]].count, Uses(f, e[i]))
       /\ t[e[i]].count > 0 => Uses(f, e[i]) < t[e[i]].count
  /\ \A j \in 1 .. Len(t) :
       (\A i \in 1 .. Len(q) : e[i] # j) => t[j].count > 0 /\ Uses(f, j) = t[j].count

LEMMA TracksAnnounce ==
  ASSUME NEW V, NEW q \in Seq(Item(V)), NEW t \in Seq(Item(V)), NEW item \in Item(V),
         NEW f \in Seq(1 .. Len(t)), NEW e, Tracks(q, t, f, e)
  PROVE  \E e2 : Tracks(Append(q, item), Append(t, item), f, e2)
<1> DEFINE q2 == Append(q, item)
           t2 == Append(t, item)
           e2 == [i \in 1 .. Len(q) + 1 |-> IF i <= Len(q) THEN e[i] ELSE Len(t) + 1]
<1>1. /\ Len(q) \in Nat /\ Len(q2) = Len(q) + 1 /\ q2[Len(q) + 1] = item
      /\ \A m \in 1 .. Len(q) : q2[m] = q[m]
  BY AppendProperties, LenProperties
<1>2. /\ Len(t) \in Nat /\ Len(t2) = Len(t) + 1 /\ t2[Len(t) + 1] = item
      /\ \A m \in 1 .. Len(t) : t2[m] = t[m]
  BY AppendProperties, LenProperties
<1>3. Uses(f, Len(t) + 1) = 0
  <2>1. {m \in 1 .. Len(f) + 1 - 1 : f[m] = Len(t) + 1} = {}
    <3>1. Len(f) \in Nat
      BY LenProperties
    <3>2. ASSUME NEW m \in 1 .. Len(f) PROVE f[m] # Len(t) + 1
      <4>1. f[m] \in 1 .. Len(t)
        BY ElementOfSeq
      <4> QED  BY <1>2, <4>1
    <3> QED  BY <3>1, <3>2
  <2>2. Uses(f, Len(t) + 1) =
          Cardinality({m \in 1 .. Len(f) + 1 - 1 : f[m] = Len(t) + 1})
    BY DEF Uses, UsedBefore
  <2>3. Uses(f, Len(t) + 1) = Cardinality({})
    BY ONLY <2>1, <2>2
  <2> QED  BY <2>3, FS_EmptySet
<1>4. item.count \in Int \ {0}
  BY DEF Item
<1>5. /\ \A i \in 1 .. Len(q) : e2[i] = e[i] /\ e[i] \in 1 .. Len(t)
      /\ e2[Len(q) + 1] = Len(t) + 1
  BY <1>1 DEF Tracks
<1> HIDE DEF q2, t2, e2
<1>6. ASSUME NEW i \in 1 .. Len(q2) PROVE e2[i] \in 1 .. Len(t2)
  <2>1. CASE i = Len(q) + 1
    BY <1>2, <1>5, <2>1
  <2>2. CASE i # Len(q) + 1
    <3>1. i \in 1 .. Len(q)
      BY <1>1, <2>2
    <3>2. e2[i] \in 1 .. Len(t)
      BY <1>5, <3>1
    <3> QED  BY <1>2, <3>2
  <2> QED  BY <2>1, <2>2
<1>7. ASSUME NEW i \in 1 .. Len(q2), NEW j \in 1 .. Len(q2), i < j PROVE e2[i] < e2[j]
  <2>1. CASE j = Len(q) + 1
    BY <1>1, <1>2, <1>5, <1>7, <2>1
  <2>2. CASE j # Len(q) + 1
    <3>1. i \in 1 .. Len(q) /\ j \in 1 .. Len(q)
      BY <1>1, <1>7, <2>2
    <3> QED  BY <1>5, <1>7, <3>1 DEF Tracks
  <2> QED  BY <2>1, <2>2
<1>8. ASSUME NEW i \in 1 .. Len(q2)
      PROVE  /\ q2[i].value = t2[e2[i]].value
             /\ q2[i].count = Left(t2[e2[i]].count, Uses(f, e2[i]))
             /\ t2[e2[i]].count > 0 => Uses(f, e2[i]) < t2[e2[i]].count
  <2>1. CASE i = Len(q) + 1
    BY <1>1, <1>2, <1>3, <1>4, <1>5, <2>1 DEF Left
  <2>2. CASE i # Len(q) + 1
    <3>1. i \in 1 .. Len(q)
      BY <1>1, <2>2
    <3>2. e2[i] = e[i] /\ t2[e2[i]] = t[e[i]] /\ q2[i] = q[i]
      BY <1>1, <1>2, <1>5, <3>1
    <3> QED  BY <3>1, <3>2 DEF Tracks
  <2> QED  BY <2>1, <2>2
<1>9. ASSUME NEW j \in 1 .. Len(t2), \A i \in 1 .. Len(q2) : e2[i] # j
      PROVE  t2[j].count > 0 /\ Uses(f, j) = t2[j].count
  <2>1. j # Len(t) + 1
    <3>1. Len(q) + 1 \in 1 .. Len(q2)
      BY <1>1
    <3> QED  BY <1>5, <1>9, <3>1
  <2>2. j \in 1 .. Len(t)
    BY <1>2, <2>1
  <2>3. ASSUME NEW i \in 1 .. Len(q) PROVE e[i] # j
    <3>1. i \in 1 .. Len(q2)
      BY <1>1
    <3> QED  BY <1>5, <1>9, <3>1
  <2> QED  BY <1>2, <2>2, <2>3 DEF Tracks
<1>10. Tracks(q2, t2, f, e2)
  BY <1>6, <1>7, <1>8, <1>9 DEF Tracks
<1> QED  BY <1>10 DEF q2, t2

\* The refcount after one more use of a node that the list keeps.
LEMMA LeftNext ==
  ASSUME NEW count \in Int \ {0}, NEW n \in Nat, count > 0 => n < count
  PROVE  LET c == Left(count, n) IN
         /\ c \in Int /\ c # 0 /\ (c = 1 => count = n + 1)
         /\ c > 1 => count > 0 /\ n + 1 < count
         /\ c > 1 \/ c = -1 => Left(count, n + 1) = c - 1
         /\ c <= -2 => Left(count, n + 1) = c
         /\ c < -1 => count < 0 /\ (count = -1 => n > 0)
         /\ c < 0 <=> count < 0
BY DEF Left

LEMMA TracksUse ==
  ASSUME NEW V, NEW q \in Seq(Item(V)), NEW t \in Seq(Item(V)),
         NEW f \in Seq(1 .. Len(t)), NEW e, Tracks(q, t, f, e), NEW i \in 1 .. Len(q)
  PROVE  \E e2 : Tracks(UseAt(q, i), t, Append(f, e[i]), e2)
<1> DEFINE g == Append(f, e[i])
<1>1. Len(q) \in Nat /\ Len(t) \in Nat /\ Len(f) \in Nat /\ i \in Nat
  BY LenProperties
<1>2. /\ \A k \in 1 .. Len(q) : e[k] \in 1 .. Len(t)
      /\ \A k \in 1 .. Len(q) : k # i => e[k] # e[i]
      /\ \A k, j \in 1 .. Len(q) : k < j => e[k] < e[j]
  <2>1. /\ \A k \in 1 .. Len(q) : e[k] \in 1 .. Len(t)
        /\ \A k, j \in 1 .. Len(q) : k < j => e[k] < e[j]
    BY DEF Tracks
  <2>2. ASSUME NEW k \in 1 .. Len(q), k # i PROVE e[k] # e[i]
    <3>1. e[k] \in Int /\ e[i] \in Int
      BY <2>1
    <3>2. k < i \/ i < k
      BY <2>2
    <3>3. e[k] < e[i] \/ e[i] < e[k]
      BY <2>1, <3>2
    <3> QED  BY <3>1, <3>3
  <2> QED  BY <2>1, <2>2
<1>3. /\ \A j : j # e[i] => Uses(g, j) = Uses(f, j)
      /\ Uses(g, e[i]) = Uses(f, e[i]) + 1
  <2>1. PICK x \in 1 .. Len(t) : x = e[i]
    BY <1>2
  <2>2. \A j : Uses(Append(f, x), j) = IF x = j THEN Uses(f, j) + 1 ELSE Uses(f, j)
    BY UsesAppend
  <2> QED  BY <2>1, <2>2
<1> DEFINE n == Uses(f, e[i])
           m == t[e[i]].count
<1>4. n \in Nat /\ m \in Int \ {0} /\ (m > 0 => n < m) /\ q[i].count = Left(m, n)
  <2>1. t[e[i]] \in Item(V)
    BY <1>2, ElementOfSeq
  <2> QED  BY <1>1, <2>1, UsesType DEF Tracks, Uses, Item
<1> HIDE DEF g, n, m
<1>5. /\ q[i].count \in Int \ {0} /\ (q[i].count = 1 => m = n + 1)
      /\ q[i].count > 1 => m > 0 /\ n + 1 < m
      /\ q[i].count > 1 \/ q[i].count = -1 => Left(m, n + 1) = q[i].count - 1
      /\ q[i].count <= -2 => Left(m, n + 1) = q[i].count
      /\ q[i].count < 0 <=> m < 0
  BY <1>4, LeftNext
<1>6. CASE q[i].count = 1
  <2> DEFINE s(k) == IF k < i THEN k ELSE k + 1
             e2 == [k \in 1 .. Len(q) - 1 |-> e[s(k)]]
  <2>1. UseAt(q, i) = RemoveAt(q, i)
    BY <1>6 DEF UseAt
  <2>2. /\ Len(RemoveAt(q, i)) = Len(q) - 1
        /\ \A k \in 1 .. Len(q) - 1 : RemoveAt(q, i)[k] = q[s(k)]
    <3>1. ASSUME NEW k \in 1 .. Len(q) - 1 PROVE RemoveAt(q, i)[k] = q[s(k)]
      <4>1. RemoveAt(q, i)[k] = IF k < i THEN q[k] ELSE q[k + 1]
        BY RemoveAtElements
      <4> QED  BY <4>1
    <3> QED  BY <3>1, RemoveAtElements
  <2>3. /\ \A k \in 1 .. Len(q) - 1 : s(k) \in 1 .. Len(q) /\ s(k) # i
        /\ \A k, j \in 1 .. Len(q) - 1 : k < j => s(k) < s(j)
        /\ \A k \in 1 .. Len(q) : k = i \/ \E j \in 1 .. Len(q) - 1 : s(j) = k
    <3>1. ASSUME NEW k \in 1 .. Len(q), k # i
          PROVE  \E j \in 1 .. Len(q) - 1 : s(j) = k
      <4>1. CASE k < i
        <5>1. k \in 1 .. Len(q) - 1 /\ s(k) = k
          BY <1>1, <4>1
        <5> QED  BY <5>1
      <4>2. CASE k > i
        <5>1. k - 1 \in 1 .. Len(q) - 1 /\ s(k - 1) = k
          BY <1>1, <4>2
        <5> QED  BY <5>1
      <4> QED  BY <1>1, <3>1, <4>1, <4>2
    <3> QED  BY <1>1, <3>1
  <2>4. \A k \in 1 .. Len(q) - 1 : e2[k] = e[s(k)]
    OBVIOUS
  <2> HIDE DEF s, e2
  <2> DEFINE q2 == RemoveAt(q, i)
  <2>5. /\ \A k \in 1 .. Len(q2) : e2[k] \in 1 .. Len(t)
        /\ \A k, j \in 1 .. Len(q2) : k < j => e2[k] < e2[j]
    <3>1. ASSUME NEW k \in 1 .. Len(q2) PROVE e2[k] \in 1 .. Len(t)
      <4>1. k \in 1 .. Len(q) - 1
        BY <2>2
      <4>2. e2[k] = e[s(k)] /\ s(k) \in 1 .. Len(q)
        BY <2>3, <2>4, <4>1
      <4> QED  BY <1>2, <4>2
    <3>2. ASSUME NEW k \in 1 .. Len(q2), NEW j \in 1 .. Len(q2), k < j
          PROVE  e2[k] < e2[j]
      <4>1. k \in 1 .. Len(q) - 1 /\ j \in 1 .. Len(q) - 1
        BY <2>2
      <4>2. s(k) \in 1 .. Len(q) /\ s(j) \in 1 .. Len(q) /\ s(k) < s(j)
        BY <2>3, <3>2, <4>1
      <4> QED  BY <1>2, <2>4, <4>1, <4>2
    <3> QED  BY <3>1, <3>2
  <2>6. ASSUME NEW k \in 1 .. Len(q2)
        PROVE  /\ q2[k].value = t[e2[k]].value
               /\ q2[k].count = Left(t[e2[k]].count, Uses(g, e2[k]))
               /\ t[e2[k]].count > 0 => Uses(g, e2[k]) < t[e2[k]].count
    <3>1. /\ q2[k] = q[s(k)] /\ e2[k] = e[s(k)] /\ s(k) \in 1 .. Len(q)
          /\ Uses(g, e2[k]) = Uses(f, e2[k])
      BY <1>2, <1>3, <2>2, <2>3, <2>4
    <3> QED  BY <3>1 DEF Tracks
  <2>7. ASSUME NEW j \in 1 .. Len(t), \A k \in 1 .. Len(q2) : e2[k] # j
        PROVE  t[j].count > 0 /\ Uses(g, j) = t[j].count
    <3>1. CASE j = e[i]
      BY <1>3, <1>4, <1>5, <1>6, <3>1 DEF n, m
    <3>2. CASE j # e[i]
      <4>1. ASSUME NEW k \in 1 .. Len(q), k # i PROVE e[k] # j
        <5>1. PICK h \in 1 .. Len(q) - 1 : s(h) = k
          BY <2>3, <4>1
        <5>2. h \in 1 .. Len(q2) /\ e2[h] = e[k]
          BY <2>2, <2>4, <5>1
        <5> QED  BY <2>7, <5>2
      <4> QED  BY <1>3, <3>2, <4>1 DEF Tracks
    <3> QED  BY <3>1, <3>2
  <2>8. Tracks(q2, t, g, e2)
    BY <2>5, <2>6, <2>7 DEF Tracks
  <2> QED  BY <2>1, <2>8 DEF g
<1>7. CASE q[i].count # 1
  <2> DEFINE q2 == UseAt(q, i)
  <2>1. /\ Len(q2) = Len(q)
        /\ \A k \in 1 .. Len(q) : q2[k].value = q[k].value
        /\ \A k \in 1 .. Len(q) : k # i => q2[k] = q[k]
        /\ q2[i].count = IF q[i].count > -2 THEN q[i].count - 1 ELSE q[i].count
    <3>1. CASE q[i].count > -2
      <4>1. q2 = [q EXCEPT ![i] = [q[i] EXCEPT !.count = q[i].count - 1]]
        BY <1>7, <3>1 DEF UseAt, ONCE
      <4>2. q \in [1 .. Len(q) -> Item(V)]
        BY LenProperties
      <4>3. q[i] \in Item(V)
        BY <4>2
      <4>4. [q[i] EXCEPT !.count = q[i].count - 1].value = q[i].value
            /\ [q[i] EXCEPT !.count = q[i].count - 1].count = q[i].count - 1
        BY <4>3 DEF Item
      <4>5. Len(q2) = Len(q)
        BY <4>1, <4>2
      <4> HIDE DEF q2
      <4> QED  BY <3>1, <4>1, <4>2, <4>4, <4>5
    <3>2. CASE ~(q[i].count > -2)
      BY <1>7, <3>2 DEF UseAt, ONCE
    <3> QED  BY <3>1, <3>2
  <2> HIDE DEF q2
  <2>2. ASSUME NEW k \in 1 .. Len(q)
        PROVE  /\ q2[k].value = t[e[k]].value
               /\ q2[k].count = Left(t[e[k]].count, Uses(g, e[k]))
               /\ t[e[k]].count > 0 => Uses(g, e[k]) < t[e[k]].count
    <3>1. CASE k = i
      <4>1. q2[i].count = Left(m, n + 1) /\ (m > 0 => n + 1 < m)
        <5> DEFINE c == q[i].count
        <5>1. /\ c \in Int \ {0} /\ (c > 1 => m > 0 /\ n + 1 < m)
              /\ c > 1 \/ c = -1 => Left(m, n + 1) = c - 1
              /\ c <= -2 => Left(m, n + 1) = c
              /\ c < 0 <=> m < 0
              /\ q2[i].count = IF c > -2 THEN c - 1 ELSE c
          BY <1>5, <2>1
        <5> HIDE DEF c
        <5>2. CASE c > 1
          BY <5>2, <5>1
        <5>3. CASE c = -1
          <6>1. q2[i].count = c - 1 /\ m < 0
            BY <5>3, <5>1
          <6> QED  BY <1>4, <5>3, <5>1, <6>1
        <5>4. CASE c <= -2
          <6>1. q2[i].count = c /\ m < 0
            BY <5>4, <5>1
          <6> QED  BY <1>4, <5>4, <5>1, <6>1
        <5>5. c # 1
          BY <1>7 DEF c
        <5> QED  BY <5>2, <5>3, <5>4, <5>1, <5>5
      <4>2. q2[i].value = t[e[i]].value
        BY <2>1 DEF Tracks
      <4> QED  BY <1>3, <3>1, <4>1, <4>2 DEF n, m
    <3>2. CASE k # i
      <4>1. q2[k] = q[k] /\ Uses(g, e[k]) = Uses(f, e[k])
        BY <1>2, <1>3, <2>1, <3>2
      <4> QED  BY <4>1 DEF Tracks
    <3> QED  BY <3>1, <3>2
  <2>3. ASSUME NEW j \in 1 .. Len(t), \A k \in 1 .. Len(q) : e[k] # j
        PROVE  t[j].count > 0 /\ Uses(g, j) = t[j].count
    <3>1. j # e[i]
      BY <2>3
    <3> QED  BY <1>3, <2>3, <3>1 DEF Tracks
  <2>4. Tracks(q2, t, g, e)
    BY <1>2, <2>1, <2>2, <2>3 DEF Tracks
  <2> QED  BY <2>4 DEF q2, g
<1> QED  BY <1>6, <1>7

-----------------------------------------------------------------------------
\* How f answers the uses u from the announcements t, of which q are left.
Answers(q, t, u, f, e) ==
  /\ Len(f) = Len(u)
  /\ \A n \in 1 .. Len(u) : t[f[n]].value = u[n]
  /\ Tracks(q, t, f, e)

QueueOK(q, t, u) ==
  \E f \in Seq(1 .. Len(t)) : InTurn(f, t) /\ \E e : Answers(q, t, u, f, e)

OrderOK(q, t, u) ==
  \E f \in Seq(1 .. Len(t)) : InOrder(f, t) /\ \E e : Answers(q, t, u, f, e)

LEMMA NothingAnnounced == QueueOK(<<>>, <<>>, <<>>) /\ OrderOK(<<>>, <<>>, <<>>)
<1>1. <<>> \in Seq(1 .. Len(<<>>)) /\ Len(<<>>) = 0 /\ DOMAIN <<>> = {}
  BY EmptySeq
<1>2. InTurn(<<>>, <<>>) /\ InOrder(<<>>, <<>>)
  BY <1>1 DEF InTurn, InOrder
<1>3. Answers(<<>>, <<>>, <<>>, <<>>, <<>>)
  BY <1>1 DEF Answers, Tracks
<1> QED  BY <1>1, <1>2, <1>3 DEF QueueOK, OrderOK

\* A later announcement does not change what was in turn.
LEMMA TurnKept ==
  ASSUME NEW V, NEW t \in Seq(Item(V)), NEW item \in Item(V), NEW f \in Seq(1 .. Len(t))
  PROVE  /\ f \in Seq(1 .. Len(Append(t, item)))
         /\ InTurn(f, t) => InTurn(f, Append(t, item))
         /\ InOrder(f, t) => InOrder(f, Append(t, item))
<1> DEFINE t2 == Append(t, item)
<1>1. /\ Len(t) \in Nat /\ Len(t2) = Len(t) + 1
      /\ \A m \in 1 .. Len(t) : t2[m] = t[m]
  BY AppendProperties, LenProperties
<1>2. \A n \in DOMAIN f : f[n] \in 1 .. Len(t)
  BY LenProperties, ElementOfSeq
<1> HIDE DEF t2
<1>3. f \in Seq(1 .. Len(t2))
  <2>1. f \in [1 .. Len(f) -> 1 .. Len(t)] /\ Len(f) \in Nat
    BY LenProperties
  <2>2. 1 .. Len(t) \subseteq 1 .. Len(t2)
    BY <1>1
  <2>3. f \in [1 .. Len(f) -> 1 .. Len(t2)]
    BY <2>1, <2>2
  <2> QED  BY <2>1, <2>3
<1>4. \A n, i : i \in 1 .. Len(t) => (UsedUp(f, n, t2, i) <=> UsedUp(f, n, t, i))
  BY <1>1 DEF UsedUp
<1>5. ASSUME InTurn(f, t) PROVE InTurn(f, t2)
  <2> SUFFICES ASSUME NEW n \in DOMAIN f
               PROVE  /\ ~UsedUp(f, n, t2, f[n])
                      /\ \A i \in 1 .. f[n] - 1 : UsedUp(f, n, t2, i)
    BY DEF InTurn
  <2>1. f[n] \in 1 .. Len(t) /\ \A i \in 1 .. f[n] - 1 : i \in 1 .. Len(t)
    BY <1>1, <1>2
  <2> QED  BY <1>4, <1>5, <2>1 DEF InTurn
<1>6. ASSUME InOrder(f, t) PROVE InOrder(f, t2)
  <2> SUFFICES ASSUME NEW n \in DOMAIN f
               PROVE  /\ ~UsedUp(f, n, t2, f[n])
                      /\ \A i \in 1 .. f[n] - 1 :
                           \/ UsedUp(f, n, t2, i)
                           \/ /\ t2[i].count < 0 /\ t2[i].value # t2[f[n]].value
                              /\ t2[i].count = ALWAYS => UsedBefore(f, n, i) > 0
    BY DEF InOrder
  <2>1. f[n] \in 1 .. Len(t) /\ \A i \in 1 .. f[n] - 1 : i \in 1 .. Len(t)
    BY <1>1, <1>2
  <2>2. ~UsedUp(f, n, t2, f[n])
    BY <1>4, <1>6, <2>1 DEF InOrder
  <2>3. ASSUME NEW i \in 1 .. f[n] - 1
        PROVE  \/ UsedUp(f, n, t2, i)
               \/ /\ t2[i].count < 0 /\ t2[i].value # t2[f[n]].value
                  /\ t2[i].count = ALWAYS => UsedBefore(f, n, i) > 0
    <3>1. t2[i] = t[i] /\ t2[f[n]] = t[f[n]] /\ (UsedUp(f, n, t2, i) <=> UsedUp(f, n, t, i))
      BY <1>1, <1>4, <2>1
    <3>2. \/ UsedUp(f, n, t, i)
          \/ /\ t[i].count < 0 /\ t[i].value # t[f[n]].value
             /\ t[i].count = ALWAYS => UsedBefore(f, n, i) > 0
      BY <1>6 DEF InOrder
    <3> QED  BY <3>1, <3>2
  <2> QED  BY <2>2, <2>3
<1> QED  BY <1>3, <1>5, <1>6 DEF t2

LEMMA Announced ==
  ASSUME NEW V, NEW q \in Seq(Item(V)), NEW t \in Seq(Item(V)), NEW item \in Item(V),
         NEW u \in Seq(V)
  PROVE  /\ QueueOK(q, t, u) => QueueOK(Append(q, item), Append(t, item), u)
         /\ OrderOK(q, t, u) => OrderOK(Append(q, item), Append(t, item), u)
<1> DEFINE q2 == Append(q, item)
           t2 == Append(t, item)
<1>1. ASSUME NEW f \in Seq(1 .. Len(t)), NEW e, Answers(q, t, u, f, e)
      PROVE  \E e2 : Answers(q2, t2, u, f, e2)
  <2>1. PICK e2 : Tracks(q2, t2, f, e2)
    BY <1>1, TracksAnnounce DEF Answers
  <2>2. ASSUME NEW n \in 1 .. Len(u) PROVE t2[f[n]].value = u[n]
    <3>1. f[n] \in 1 .. Len(t)
      BY <1>1, ElementOfSeq DEF Answers
    <3>2. t2[f[n]] = t[f[n]]
      BY <3>1, AppendProperties
    <3> QED  BY <1>1, <3>2 DEF Answers
  <2>3. Answers(q2, t2, u, f, e2)
    BY <1>1, <2>1, <2>2 DEF Answers
  <2> QED  BY <2>3
<1> HIDE DEF q2
<1>2. ASSUME QueueOK(q, t, u) PROVE QueueOK(q2, t2, u)
  <2>1. PICK f \in Seq(1 .. Len(t)) : InTurn(f, t) /\ \E e : Answers(q, t, u, f, e)
    BY <1>2 DEF QueueOK
  <2>2. f \in Seq(1 .. Len(t2)) /\ InTurn(f, t2)
    BY <2>1, TurnKept
  <2>3. \E e : Answers(q2, t2, u, f, e)
    BY <1>1, <2>1
  <2> HIDE DEF t2
  <2> QED  BY <2>2, <2>3 DEF QueueOK
<1>3. ASSUME OrderOK(q, t, u) PROVE OrderOK(q2, t2, u)
  <2>1. PICK f \in Seq(1 .. Len(t)) : InOrder(f, t) /\ \E e : Answers(q, t, u, f, e)
    BY <1>3 DEF OrderOK
  <2>2. f \in Seq(1 .. Len(t2)) /\ InOrder(f, t2)
    BY <2>1, TurnKept
  <2>3. \E e : Answers(q2, t2, u, f, e)
    BY <1>1, <2>1
  <2> HIDE DEF t2
  <2> QED  BY <2>2, <2>3 DEF OrderOK
<1> QED  BY <1>2, <1>3 DEF q2

\* One more use leaves the earlier ones in turn.
LEMMA TurnNext ==
  ASSUME NEW t, NEW f \in Seq(1 .. Len(t)), NEW x \in 1 .. Len(t),
         ~UsedUp(f, Len(f) + 1, t, x)
  PROVE  /\ Append(f, x) \in Seq(1 .. Len(t))
         /\ InTurn(f, t) /\ (\A i \in 1 .. x - 1 : UsedUp(f, Len(f) + 1, t, i)) =>
              InTurn(Append(f, x), t)
         /\ /\ InOrder(f, t)
            /\ \A i \in 1 .. x - 1 :
                 \/ UsedUp(f, Len(f) + 1, t, i)
                 \/ /\ t[i].count < 0 /\ t[i].value # t[x].value
                    /\ t[i].count = ALWAYS => UsedBefore(f, Len(f) + 1, i) > 0
            => InOrder(Append(f, x), t)
<1> DEFINE g == Append(f, x)
<1>1. /\ Len(f) \in Nat /\ DOMAIN f = 1 .. Len(f) /\ DOMAIN g = 1 .. Len(f) + 1
      /\ g \in Seq(1 .. Len(t)) /\ g[Len(f) + 1] = x
      /\ \A n \in 1 .. Len(f) : g[n] = f[n]
  BY AppendProperties, LenProperties
<1>2. \A n \in 1 .. Len(f) + 1 : \A i : UsedBefore(g, n, i) = UsedBefore(f, n, i)
  <2>1. ASSUME NEW i
        PROVE  \A n \in 1 .. Len(f) + 1 : UsedBefore(Append(f, x), n, i) = UsedBefore(f, n, i)
    <3>1. PICK S : S = 1 .. Len(t)
      OBVIOUS
    <3>2. f \in Seq(S) /\ x \in S
      BY <3>1
    <3> QED  BY ONLY <3>2, UsesAppend
  <2> QED  BY <2>1 DEF g
<1> HIDE DEF g
<1>3. \A n \in 1 .. Len(f) + 1 : \A i : UsedUp(g, n, t, i) <=> UsedUp(f, n, t, i)
  BY <1>2 DEF UsedUp
<1>4. ASSUME InTurn(f, t), \A i \in 1 .. x - 1 : UsedUp(f, Len(f) + 1, t, i)
      PROVE  InTurn(g, t)
  <2>1. ASSUME NEW n \in 1 .. Len(f) + 1
        PROVE  /\ ~UsedUp(g, n, t, g[n])
               /\ \A i \in 1 .. g[n] - 1 : UsedUp(g, n, t, i)
    <3>1. CASE n = Len(f) + 1
      BY <1>1, <1>3, <1>4, <3>1
    <3>2. CASE n # Len(f) + 1
      <4>1. n \in 1 .. Len(f) /\ g[n] = f[n]
        BY <1>1, <3>2
      <4> QED  BY <1>1, <1>3, <1>4, <4>1 DEF InTurn
    <3> QED  BY <3>1, <3>2
  <2> QED  BY <1>1, <2>1 DEF InTurn
<1>5. ASSUME InOrder(f, t),
             \A i \in 1 .. x - 1 :
               \/ UsedUp(f, Len(f) + 1, t, i)
               \/ /\ t[i].count < 0 /\ t[i].value # t[x].value
                  /\ t[i].count = ALWAYS => UsedBefore(f, Len(f) + 1, i) > 0
      PROVE  InOrder(g, t)
  <2>1. ASSUME NEW n \in 1 .. Len(f) + 1
        PROVE  /\ ~UsedUp(g, n, t, g[n])
               /\ \A i \in 1 .. g[n] - 1 :
                    \/ UsedUp(g, n, t, i)
                    \/ /\ t[i].count < 0 /\ t[i].value # t[g[n]].value
                       /\ t[i].count = ALWAYS => UsedBefore(g, n, i) > 0
    <3>1. CASE n = Len(f) + 1
      BY <1>1, <1>2, <1>3, <1>5, <3>1
    <3>2. CASE n # Len(f) + 1
      <4>1. n \in 1 .. Len(f) /\ g[n] = f[n]
        BY <1>1, <3>2
      <4> QED  BY <1>1, <1>2, <1>3, <1>5, <4>1 DEF InOrder
    <3> QED  BY <3>1, <3>2
  <2> QED  BY <1>1, <2>1 DEF InOrder
<1> QED  BY <1>1, <1>4, <1>5 DEF g

LEMMA AnswersUse ==
  ASSUME NEW V, NEW q \in Seq(Item(V)), NEW t \in Seq(Item(V)), NEW u \in Seq(V),
         NEW f \in Seq(1 .. Len(t)), NEW e, Answers(q, t, u, f, e), NEW i \in 1 .. Len(q)
  PROVE  /\ e[i] \in 1 .. Len(t)
         /\ ~UsedUp(f, Len(f) + 1, t, e[i])
         /\ \E e2 : Answers(UseAt(q, i), t, Append(u, q[i].value), Append(f, e[i]), e2)
<1>1. e[i] \in 1 .. Len(t) /\ q[i].value = t[e[i]].value /\ q[i].value \in V
  <2>1. q[i] \in Item(V)
    BY ElementOfSeq
  <2> QED  BY <2>1 DEF Answers, Tracks, Item
<1>2. ~UsedUp(f, Len(f) + 1, t, e[i])
  <2>1. t[e[i]].count > 0 => Uses(f, e[i]) < t[e[i]].count
    BY DEF Answers, Tracks
  <2>2. Uses(f, e[i]) \in Nat /\ t[e[i]].count \in Int
    <3>1. t[e[i]] \in Item(V) /\ Len(f) + 1 \in Nat
      BY <1>1, ElementOfSeq, LenProperties
    <3> QED  BY <3>1, UsesType DEF Uses, Item
  <2> QED  BY <2>1, <2>2 DEF UsedUp, Uses
<1>3. PICK e2 : Tracks(UseAt(q, i), t, Append(f, e[i]), e2)
  BY TracksUse DEF Answers
<1> DEFINE u2 == Append(u, q[i].value)
           g == Append(f, e[i])
<1>4. /\ Len(u) = Len(f) /\ Len(f) \in Nat /\ Len(u2) = Len(u) + 1 /\ Len(g) = Len(f) + 1
      /\ u2[Len(u) + 1] = q[i].value /\ g[Len(f) + 1] = e[i]
      /\ \A n \in 1 .. Len(u) : u2[n] = u[n] /\ g[n] = f[n]
  BY <1>1, AppendProperties, LenProperties DEF Answers
<1> HIDE DEF u2, g
<1>5. ASSUME NEW n \in 1 .. Len(u2) PROVE t[g[n]].value = u2[n]
  <2>1. CASE n = Len(u) + 1
    BY <1>1, <1>4, <2>1
  <2>2. CASE n # Len(u) + 1
    <3>1. n \in 1 .. Len(u)
      BY <1>4, <2>2
    <3> QED  BY <1>4, <3>1 DEF Answers
  <2> QED  BY <2>1, <2>2
<1>6. Tracks(UseAt(q, i), t, g, e2)
  BY <1>3 DEF g
<1>7. Answers(UseAt(q, i), t, u2, g, e2)
  BY <1>4, <1>5, <1>6 DEF Answers
<1> QED  BY <1>1, <1>2, <1>7 DEF u2, g

\* What get_symbol_value takes is in turn.
LEMMA Taken ==
  ASSUME NEW V, NEW q \in Seq(Item(V)), NEW t \in Seq(Item(V)), NEW u \in Seq(V),
         QueueOK(q, t, u), q # <<>>
  PROVE  QueueOK(UseAt(q, 1), t, Append(u, Head(q).value))
<1>1. PICK f \in Seq(1 .. Len(t)) : InTurn(f, t) /\ \E e : Answers(q, t, u, f, e)
  BY DEF QueueOK
<1>2. PICK e : Answers(q, t, u, f, e)
  BY <1>1
<1>3. 1 \in 1 .. Len(q) /\ Head(q) = q[1] /\ Len(q) \in Nat
  BY EmptySeq, LenProperties
<1>4. /\ e[1] \in 1 .. Len(t) /\ ~UsedUp(f, Len(f) + 1, t, e[1])
      /\ \E e2 : Answers(UseAt(q, 1), t, Append(u, q[1].value), Append(f, e[1]), e2)
  BY <1>2, <1>3, AnswersUse
<1>5. ASSUME NEW i \in 1 .. e[1] - 1 PROVE UsedUp(f, Len(f) + 1, t, i)
  <2>1. i \in 1 .. Len(t) /\ i < e[1]
    BY <1>4, LenProperties
  <2>2. ASSUME NEW k \in 1 .. Len(q) PROVE e[k] # i
    <3>1. CASE k = 1
      BY <1>4, <2>1, <3>1
    <3>2. CASE k # 1
      <4>1. 1 < k
        BY <1>3, <3>2
      <4>2. e[1] < e[k] /\ e[k] \in 1 .. Len(t)
        BY <1>2, <1>3, <4>1 DEF Answers, Tracks
      <4> QED  BY <1>4, <2>1, <4>2
    <3> QED  BY <3>1, <3>2
  <2> QED  BY <1>2, <2>1, <2>2 DEF Answers, Tracks, UsedUp, Uses
<1>6. Append(f, e[1]) \in Seq(1 .. Len(t)) /\ InTurn(Append(f, e[1]), t)
  <2>1. PICK x \in 1 .. Len(t) : x = e[1]
    BY <1>4
  <2>2. ~UsedUp(f, Len(f) + 1, t, x) /\ \A i \in 1 .. x - 1 : UsedUp(f, Len(f) + 1, t, i)
    BY <1>4, <1>5, <2>1
  <2>3. Append(f, x) \in Seq(1 .. Len(t)) /\ InTurn(Append(f, x), t)
    BY <1>1, <2>2, TurnNext
  <2> QED  BY <2>1, <2>3
<1> QED  BY <1>3, <1>4, <1>6 DEF QueueOK

\* What _function_called uses is in order.
LEMMA Called ==
  ASSUME NEW V, NEW q \in Seq(Item(V)), NEW t \in Seq(Item(V)), NEW u \in Seq(V),
         OrderOK(q, t, u), NEW v \in V, CalledNode(q, v) # 0
  PROVE  OrderOK(UseAt(q, CalledNode(q, v)), t, Append(u, v))
<1>1. PICK f \in Seq(1 .. Len(t)) : InOrder(f, t) /\ \E e : Answers(q, t, u, f, e)
  BY DEF OrderOK
<1>2. PICK e : Answers(q, t, u, f, e)
  BY <1>1
<1>3. PICK i : i = CalledNode(q, v)
  OBVIOUS
<1>4. /\ i \in 1 .. Len(q) /\ q[i].value = v
      /\ \A j \in 1 .. i - 1 : q[j].count < -1 /\ q[j].value # v
  BY <1>3, CalledNodeChoice, LenProperties
<1>5. /\ e[i] \in 1 .. Len(t) /\ ~UsedUp(f, Len(f) + 1, t, e[i])
      /\ \E e2 : Answers(UseAt(q, i), t, Append(u, q[i].value), Append(f, e[i]), e2)
  BY <1>2, <1>4, AnswersUse
<1>6. PICK x \in 1 .. Len(t) : x = e[i]
  BY <1>5
<1>7. t[x].value = v
  BY <1>2, <1>4, <1>6 DEF Answers, Tracks
<1>8. ASSUME NEW j \in 1 .. x - 1
      PROVE  \/ UsedUp(f, Len(f) + 1, t, j)
             \/ /\ t[j].count < 0 /\ t[j].value # t[x].value
                /\ t[j].count = ALWAYS => UsedBefore(f, Len(f) + 1, j) > 0
  <2>1. j \in 1 .. Len(t) /\ j < x
    BY LenProperties
  <2>2. CASE \A k \in 1 .. Len(q) : e[k] # j
    BY <1>2, <2>1, <2>2 DEF Answers, Tracks, UsedUp, Uses
  <2>3. ASSUME NEW k \in 1 .. Len(q), e[k] = j
        PROVE  /\ t[j].count < 0 /\ t[j].value # t[x].value
               /\ t[j].count = ALWAYS => UsedBefore(f, Len(f) + 1, j) > 0
    <3>1. k \in 1 .. i - 1
      <4>1. ~(i < k) /\ k # i
        BY <1>2, <1>4, <1>6, <2>1, <2>3 DEF Answers, Tracks
      <4> QED  BY <1>4, <4>1
    <3>2. q[k].count < -1 /\ q[k].value # v
      BY <1>4, <3>1
    <3>3. /\ q[k].value = t[j].value
          /\ q[k].count = Left(t[j].count, Uses(f, j))
          /\ t[j].count > 0 => Uses(f, j) < t[j].count
      BY <1>2, <2>3 DEF Answers, Tracks
    <3>4. Uses(f, j) \in Nat /\ t[j].count \in Int \ {0}
      <4>1. t[j] \in Item(V) /\ Len(f) + 1 \in Nat
        BY <2>1, ElementOfSeq, LenProperties
      <4> QED  BY <4>1, UsesType DEF Uses, Item
    <3>5. t[j].count < 0 /\ (t[j].count = -1 => Uses(f, j) > 0)
      BY <3>2, <3>3, <3>4, LeftNext
    <3> QED  BY <1>7, <3>2, <3>3, <3>5 DEF ALWAYS, Uses
  <2> QED  BY <2>2, <2>3
<1>9. Append(f, x) \in Seq(1 .. Len(t)) /\ InOrder(Append(f, x), t)
  BY <1>1, <1>5, <1>6, <1>8, TurnNext
<1>10. OrderOK(UseAt(q, i), t, Append(u, v))
  BY <1>4, <1>5, <1>6, <1>9 DEF OrderOK
<1> QED  BY <1>3, <1>10

-----------------------------------------------------------------------------
\* An answer is one of the servings that the properties speak of.
LEMMA Served ==
  ASSUME NEW V, NEW t \in Seq(Item(V)), NEW u \in Seq(V), NEW q
  PROVE  /\ \A f \in Seq(1 .. Len(t)) : \A e : Answers(q, t, u, f, e) => f \in Servings(t, u)
         /\ QueueOK(q, t, u) => Serves(t, u)
         /\ OrderOK(q, t, u) => ServesOrder(t, u)
<1>1. ASSUME NEW f \in Seq(1 .. Len(t)), NEW e, Answers(q, t, u, f, e)
      PROVE  f \in Servings(t, u)
  <2>1. f \in [1 .. Len(f) -> 1 .. Len(t)] /\ DOMAIN t = 1 .. Len(t) /\ DOMAIN u = 1 .. Len(u)
    BY LenProperties
  <2> QED  BY <1>1, <2>1 DEF Servings, Answers
<1> QED  BY <1>1 DEF QueueOK, OrderOK, Serves, ServesOrder

\* Nodes that were used up or that the list still holds with a mark.
LEMMA AllUsedUp ==
  ASSUME NEW V, NEW q \in Seq(Item(V)), NEW t \in Seq(Item(V)), NEW u,
         NEW f \in Seq(1 .. Len(t)), NEW e, Answers(q, t, u, f, e),
         \A i \in 1 .. Len(q) : q[i].count < -1
  PROVE  AllUsed(f, t)
<1> SUFFICES ASSUME NEW j \in 1 .. Len(t)
             PROVE  \/ UsedUp(f, Len(f) + 1, t, j)
                    \/ t[j].count = ALWAYS /\ UsedBefore(f, Len(f) + 1, j) > 0
                    \/ t[j].count < ALWAYS
  BY LenProperties DEF AllUsed
<1>1. CASE \A k \in 1 .. Len(q) : e[k] # j
  BY <1>1 DEF Answers, Tracks, UsedUp, Uses
<1>2. ASSUME NEW k \in 1 .. Len(q), e[k] = j
      PROVE  \/ t[j].count = ALWAYS /\ UsedBefore(f, Len(f) + 1, j) > 0
             \/ t[j].count < ALWAYS
  <2>1. /\ q[k].count = Left(t[j].count, Uses(f, j)) /\ q[k].count < -1
        /\ t[j].count > 0 => Uses(f, j) < t[j].count
    BY <1>2 DEF Answers, Tracks
  <2>2. Uses(f, j) \in Nat /\ t[j].count \in Int \ {0}
    <3>1. t[j] \in Item(V) /\ Len(f) + 1 \in Nat
      BY ElementOfSeq, LenProperties
    <3> QED  BY <3>1, UsesType DEF Uses, Item
  <2>3. t[j].count < 0 /\ (t[j].count = -1 => Uses(f, j) > 0)
    BY <2>1, <2>2, LeftNext
  <2>4. t[j].count = -1 \/ t[j].count < -1
    BY <2>2, <2>3
  <2> QED  BY <2>3, <2>4 DEF ALWAYS, Uses
<1> QED  BY <1>1, <1>2

\* What fail_if_leftover_values finds nothing in was used as announced.
LEMMA QueueKept ==
  ASSUME NEW V, NEW q \in Seq(Item(V)), NEW t \in Seq(Item(V)), NEW u \in Seq(V),
         QueueOK(q, t, u), WithoutAlways(q) = <<>>
  PROVE  Kept(t, u)
<1>1. PICK f \in Seq(1 .. Len(t)) : InTurn(f, t) /\ \E e : Answers(q, t, u, f, e)
  BY DEF QueueOK
<1>2. PICK e : Answers(q, t, u, f, e)
  BY <1>1
<1>3. Len(q) \in Nat
  BY LenProperties
<1>4. q = <<>> \/ (Head(q).count < -1 /\ Tail(q) = <<>>)
  BY DEF WithoutAlways
<1>5. \A i \in 1 .. Len(q) : q[i].count < -1
  <2>1. CASE q = <<>>
    BY <2>1
  <2>2. CASE q # <<>> /\ Head(q).count < -1 /\ Tail(q) = <<>>
    <3>1. Len(Tail(q)) = Len(q) - 1 /\ Head(q) = q[1]
      BY <2>2, HeadTailProperties
    <3>2. Len(q) = 1
      <4>1. Len(Tail(q)) = 0
        BY <2>2, EmptySeq
      <4> QED  BY <1>3, <3>1, <4>1
    <3> QED  BY <2>2, <3>1, <3>2
  <2> QED  BY <1>4, <2>1, <2>2
<1>6. AllUsed(f, t) /\ f \in Servings(t, u)
  BY <1>2, <1>5, AllUsedUp, Served
<1> QED  BY <1>1, <1>6 DEF Kept

LEMMA OrderKept ==
  ASSUME NEW V, NEW q \in Seq(Item(V)), NEW t \in Seq(Item(V)), NEW u \in Seq(V),
         OrderOK(q, t, u), StillDue(q) = {}
  PROVE  KeptOrder(t, u)
<1>1. PICK f \in Seq(1 .. Len(t)) : InOrder(f, t) /\ \E e : Answers(q, t, u, f, e)
  BY DEF OrderOK
<1>2. PICK e : Answers(q, t, u, f, e)
  BY <1>1
<1>3. ASSUME NEW i \in 1 .. Len(q) PROVE q[i].count < -1
  <2>1. ~(q[i].count >= -1)
    BY LenProperties DEF StillDue
  <2>2. q[i].count \in Int
    <3>1. q[i] \in Item(V)
      BY ElementOfSeq
    <3> QED  BY <3>1 DEF Item
  <2> QED  BY <2>1, <2>2
<1>4. AllUsed(f, t) /\ f \in Servings(t, u)
  BY <1>2, <1>3, AllUsedUp, Served
<1> QED  BY <1>1, <1>4 DEF KeptOrder

-----------------------------------------------------------------------------
\* A set of natural numbers has a least one.
LEMMA LeastNumber ==
  ASSUME NEW S \in SUBSET Nat, S # {}
  PROVE  \E n \in S : \A m \in S : n <= m
<1> DEFINE R == OpToRel(<, Nat)
<1>1. IsWellFoundedOn(R, Nat)
  BY NatLessThanWellFounded
<1>2. ASSUME NEW x \in Nat, NEW y \in Nat PROVE x < y => <<x, y>> \in R
  BY DEF OpToRel
<1> HIDE DEF R
<1>3. PICK x \in S : \A y \in S : ~(<<y, x>> \in R)
  BY <1>1, WFMin
<1>4. ASSUME NEW y \in S PROVE x <= y
  <2>1. x \in Nat /\ y \in Nat
    OBVIOUS
  <2>2. ~(y < x)
    BY <1>2, <1>3, <2>1
  <2> QED  BY <2>1, <2>2
<1> QED  BY <1>4

\* Only one serving is in turn, or in order: where two of them differ first,
\* the later of the two nodes passes over the other.
LEMMA OneServing ==
  ASSUME NEW t, NEW f \in Seq(1 .. Len(t)), NEW g \in Seq(1 .. Len(t)),
         Len(f) <= Len(g),
         \/ InTurn(f, t) /\ InTurn(g, t)
         \/ /\ InOrder(f, t) /\ InOrder(g, t)
            /\ \A n \in 1 .. Len(f) : t[f[n]].value = t[g[n]].value
  PROVE  /\ \A n \in 1 .. Len(f) : f[n] = g[n]
         /\ \A i : UsedBefore(g, Len(f) + 1, i) = UsedBefore(f, Len(f) + 1, i)
<1> DEFINE D == {n \in 1 .. Len(f) : f[n] # g[n]}
<1>1. /\ Len(f) \in Nat /\ Len(g) \in Nat
      /\ DOMAIN f = 1 .. Len(f) /\ DOMAIN g = 1 .. Len(g)
  BY LenProperties
<1>2. ASSUME NEW n \in 1 .. Len(f) + 1, \A j \in 1 .. n - 1 : f[j] = g[j], NEW i
      PROVE  UsedBefore(g, n, i) = UsedBefore(f, n, i)
  <2>1. {m \in 1 .. n - 1 : g[m] = i} = {m \in 1 .. n - 1 : f[m] = i}
    BY <1>2
  <2> QED  BY <2>1 DEF UsedBefore
<1>3. D = {}
  <2> SUFFICES ASSUME D # {} PROVE FALSE
    OBVIOUS
  <2>1. D \in SUBSET Nat
    BY <1>1
  <2>2. PICK n \in D : \A m \in D : n <= m
    BY <2>1, LeastNumber
  <2>3. n \in 1 .. Len(f) /\ n \in 1 .. Len(g) /\ f[n] # g[n]
    BY <1>1, <2>2
  <2>4. \A j \in 1 .. n - 1 : f[j] = g[j]
    BY <1>1, <2>2, <2>3
  <2>5. \A i : UsedUp(g, n, t, i) <=> UsedUp(f, n, t, i)
    <3>1. n \in 1 .. Len(f) + 1
      BY <1>1, <2>3
    <3> QED  BY <1>2, <2>4, <3>1 DEF UsedUp
  <2>6. PICK x \in 1 .. Len(t) : x = f[n]
    BY <1>1, <2>3, ElementOfSeq
  <2>7. PICK y \in 1 .. Len(t) : y = g[n]
    BY <1>1, <2>3, ElementOfSeq
  <2>8. x \in 1 .. y - 1 \/ y \in 1 .. x - 1
    BY <2>3, <2>6, <2>7
  <2>9. ~UsedUp(f, n, t, x) /\ ~UsedUp(f, n, t, y)
    BY <1>1, <2>3, <2>5, <2>6, <2>7 DEF InTurn, InOrder
  <2>10. CASE InTurn(f, t) /\ InTurn(g, t)
    BY <1>1, <2>3, <2>5, <2>6, <2>7, <2>8, <2>9, <2>10 DEF InTurn
  <2>11. CASE /\ InOrder(f, t) /\ InOrder(g, t)
              /\ t[f[n]].value = t[g[n]].value
    BY <1>1, <2>3, <2>5, <2>6, <2>7, <2>8, <2>9, <2>11 DEF InOrder
  <2> QED  BY <2>3, <2>10, <2>11
<1>4. \A n \in 1 .. Len(f) : f[n] = g[n]
  BY <1>3
<1>5. Len(f) + 1 \in 1 .. Len(f) + 1 /\ \A j \in 1 .. Len(f) + 1 - 1 : f[j] = g[j]
  BY <1>1, <1>4
<1>6. ASSUME NEW i PROVE UsedBefore(g, Len(f) + 1, i) = UsedBefore(f, Len(f) + 1, i)
  BY <1>2, <1>5
<1> HIDE DEF D
<1> QED  BY <1>4, <1>6

\* Node x may be used next, for a call of v.
Fits(f, t, v, x) ==
  /\ t[x].value = v /\ ~UsedUp(f, Len(f) + 1, t, x)
  /\ \A i \in 1 .. x - 1 :
       \/ UsedUp(f, Len(f) + 1, t, i)
       \/ /\ t[i].count < 0 /\ t[i].value # v
          /\ t[i].count = ALWAYS => UsedBefore(f, Len(f) + 1, i) > 0

\* The node that would serve one more use.
LEMMA OneMoreServed ==
  ASSUME NEW V, NEW t \in Seq(Item(V)), NEW u \in Seq(V), NEW v \in V,
         NEW f \in Seq(1 .. Len(t)), Len(f) = Len(u),
         \A n \in 1 .. Len(u) : t[f[n]].value = u[n]
  PROVE  /\ InTurn(f, t) /\ Serves(t, Append(u, v)) =>
              \E x \in 1 .. Len(t) : ~UsedUp(f, Len(f) + 1, t, x)
         /\ InOrder(f, t) /\ ServesOrder(t, Append(u, v)) =>
              \E x \in 1 .. Len(t) : Fits(f, t, v, x)
<1> DEFINE u2 == Append(u, v)
<1>1. /\ Len(u) \in Nat /\ Len(u2) = Len(u) + 1 /\ u2[Len(u) + 1] = v
      /\ DOMAIN u2 = 1 .. Len(u) + 1 /\ DOMAIN t = 1 .. Len(t)
      /\ \A n \in 1 .. Len(u) : u2[n] = u[n]
  BY AppendProperties, LenProperties
<1> HIDE DEF u2
<1>2. ASSUME NEW g \in Servings(t, u2)
      PROVE  /\ g \in Seq(1 .. Len(t)) /\ Len(g) = Len(f) + 1
             /\ DOMAIN g = 1 .. Len(f) + 1
             /\ \A n \in 1 .. Len(u) : t[f[n]].value = t[g[n]].value
             /\ g[Len(f) + 1] \in 1 .. Len(t) /\ t[g[Len(f) + 1]].value = v
  <2>1. /\ g \in [1 .. Len(u) + 1 -> 1 .. Len(t)]
        /\ \A n \in 1 .. Len(u) + 1 : t[g[n]].value = u2[n]
    BY <1>1 DEF Servings
  <2>2. g \in Seq(1 .. Len(t)) /\ Len(g) = Len(u) + 1
    <3>1. PICK S : S = 1 .. Len(t)
      OBVIOUS
    <3>2. g \in [1 .. Len(u) + 1 -> S] /\ Len(u) + 1 \in Nat
      BY <1>1, <2>1, <3>1
    <3>3. g \in Seq(S) /\ Len(g) = Len(u) + 1
      BY ONLY <3>2
    <3> QED  BY <3>1, <3>3
  <2> QED  BY <1>1, <2>1, <2>2
<1>3. ASSUME InTurn(f, t), Serves(t, u2)
      PROVE  \E x \in 1 .. Len(t) : ~UsedUp(f, Len(f) + 1, t, x)
  <2>1. PICK g \in Servings(t, u2) : InTurn(g, t)
    BY <1>3 DEF Serves
  <2>2. /\ g \in Seq(1 .. Len(t)) /\ Len(f) <= Len(g)
        /\ Len(f) + 1 \in DOMAIN g /\ g[Len(f) + 1] \in 1 .. Len(t)
    BY <1>1, <1>2
  <2>3. \A i : UsedBefore(g, Len(f) + 1, i) = UsedBefore(f, Len(f) + 1, i)
    BY <1>3, <2>1, <2>2, OneServing
  <2>4. ~UsedUp(g, Len(f) + 1, t, g[Len(f) + 1])
    BY <2>1, <2>2 DEF InTurn
  <2> QED  BY <2>2, <2>3, <2>4 DEF UsedUp
<1>4. ASSUME InOrder(f, t), ServesOrder(t, u2)
      PROVE  \E x \in 1 .. Len(t) : Fits(f, t, v, x)
  <2>1. PICK g \in Servings(t, u2) : InOrder(g, t)
    BY <1>4 DEF ServesOrder
  <2>2. /\ g \in Seq(1 .. Len(t)) /\ Len(f) <= Len(g) /\ Len(f) + 1 \in DOMAIN g
        /\ \A n \in 1 .. Len(f) : t[f[n]].value = t[g[n]].value
    BY <1>1, <1>2
  <2>3. PICK x \in 1 .. Len(t) : x = g[Len(f) + 1] /\ t[x].value = v
    BY <1>2
  <2>4. \A i : UsedBefore(g, Len(f) + 1, i) = UsedBefore(f, Len(f) + 1, i)
    BY <1>4, <2>1, <2>2, OneServing
  <2>5. /\ ~UsedUp(g, Len(f) + 1, t, x)
        /\ \A i \in 1 .. x - 1 :
             \/ UsedUp(g, Len(f) + 1, t, i)
             \/ /\ t[i].count < 0 /\ t[i].value # t[x].value
                /\ t[i].count = ALWAYS => UsedBefore(g, Len(f) + 1, i) > 0
    BY <2>1, <2>2, <2>3 DEF InOrder
  <2>6. Fits(f, t, v, x)
    BY <2>3, <2>4, <2>5 DEF UsedUp, Fits
  <2> QED  BY <2>6
<1> QED  BY <1>3, <1>4 DEF u2

\* An empty queue has no value left that could be served.
LEMMA NoneToServe ==
  ASSUME NEW V, NEW q \in Seq(Item(V)), NEW t \in Seq(Item(V)), NEW u \in Seq(V),
         QueueOK(q, t, u), q = <<>>, NEW v \in V
  PROVE  ~Serves(t, Append(u, v))
<1>1. PICK f \in Seq(1 .. Len(t)) : InTurn(f, t) /\ \E e : Answers(q, t, u, f, e)
  BY DEF QueueOK
<1>2. PICK e : Answers(q, t, u, f, e)
  BY <1>1
<1>3. \A x \in 1 .. Len(t) : UsedUp(f, Len(f) + 1, t, x)
  <2>1. Len(q) = 0
    BY EmptySeq
  <2> QED  BY <1>2, <2>1 DEF Answers, Tracks, UsedUp, Uses
<1>4. Len(f) = Len(u) /\ \A n \in 1 .. Len(u) : t[f[n]].value = u[n]
  BY <1>2 DEF Answers
<1> QED  BY <1>1, <1>3, <1>4, OneMoreServed

\* No node allows the call: the order has none for it.
LEMMA NoneToCall ==
  ASSUME NEW V, NEW q \in Seq(Item(V)), NEW t \in Seq(Item(V)), NEW u \in Seq(V),
         OrderOK(q, t, u), NEW v \in V, CalledNode(q, v) = 0
  PROVE  ~ServesOrder(t, Append(u, v))
<1> SUFFICES ASSUME ServesOrder(t, Append(u, v)) PROVE FALSE
  OBVIOUS
<1>1. PICK f \in Seq(1 .. Len(t)) : InOrder(f, t) /\ \E e : Answers(q, t, u, f, e)
  BY DEF OrderOK
<1>2. PICK e : Answers(q, t, u, f, e)
  BY <1>1
<1>3. Len(f) = Len(u) /\ \A n \in 1 .. Len(u) : t[f[n]].value = u[n]
  BY <1>2 DEF Answers
<1>4. PICK x \in 1 .. Len(t) : Fits(f, t, v, x)
  BY <1>1, <1>3, OneMoreServed
<1>5. PICK k \in 1 .. Len(q) : e[k] = x
  BY <1>2, <1>4 DEF Answers, Tracks, UsedUp, Uses, Fits
<1>6. q[k].value = v
  BY <1>2, <1>4, <1>5 DEF Answers, Tracks, Fits
<1>7. ASSUME NEW j \in 1 .. k - 1 PROVE q[j].count < -1 /\ q[j].value # v
  <2>1. j \in 1 .. Len(q) /\ j < k /\ k \in 1 .. Len(q)
    BY LenProperties
  <2>2. PICK i \in 1 .. Len(t) : i = e[j] /\ i < x
    BY <1>2, <1>5, <2>1 DEF Answers, Tracks
  <2>3. /\ q[j].value = t[i].value /\ q[j].count = Left(t[i].count, Uses(f, i))
        /\ t[i].count > 0 => Uses(f, i) < t[i].count
    BY <1>2, <2>1, <2>2 DEF Answers, Tracks
  <2>4. Uses(f, i) \in Nat /\ t[i].count \in Int \ {0}
    <3>1. t[i] \in Item(V) /\ Len(f) + 1 \in Nat
      BY ElementOfSeq, LenProperties
    <3> QED  BY <3>1, UsesType DEF Uses, Item
  <2>5. ~UsedUp(f, Len(f) + 1, t, i)
    BY <2>3, <2>4 DEF UsedUp, Uses
  <2>6. /\ t[i].count < 0 /\ t[i].value # v
        /\ t[i].count = ALWAYS => Uses(f, i) > 0
    <3>1. i \in 1 .. x - 1
      BY <2>2, LenProperties
    <3> QED  BY <1>4, <2>5, <3>1 DEF Uses, Fits
  <2>7. PICK c \in Int : c = t[i].count
    BY <2>4
  <2>8. Left(c, Uses(f, i)) < -1
    BY <2>4, <2>6, <2>7 DEF Left, ALWAYS
  <2> QED  BY <2>3, <2>6, <2>7, <2>8
<1>8. \E n \in DOMAIN q : /\ q[n].value = v
                          /\ \A j \in 1 .. n - 1 : q[j].count < -1 /\ q[j].value # v
  BY <1>6, <1>7, LenProperties
<1>9. CalledNode(q, v) \in DOMAIN q
  BY <1>8 DEF CalledNode
<1> QED  BY <1>9, LenProperties

\* What is left when everything was used: nodes with a mark.
LEMMA MarkedOnly ==
  ASSUME NEW V, NEW q \in Seq(Item(V)), NEW t \in Seq(Item(V)), NEW u \in Seq(V),
         NEW f \in Seq(1 .. Len(t)), NEW e, Answers(q, t, u, f, e),
         \/ InTurn(f, t) /\ Kept(t, u)
         \/ InOrder(f, t) /\ KeptOrder(t, u)
  PROVE  \A k \in 1 .. Len(q) : q[k].count < -1 /\ t[e[k]].count < 0
<1>1. /\ Len(f) = Len(u) /\ Len(u) \in Nat /\ DOMAIN u = 1 .. Len(u)
      /\ DOMAIN t = 1 .. Len(t) /\ DOMAIN f = 1 .. Len(f)
      /\ \A n \in 1 .. Len(u) : t[f[n]].value = u[n]
  BY LenProperties DEF Answers
<1>2. PICK g \in Servings(t, u) :
        /\ AllUsed(g, t)
        /\ \/ InTurn(f, t) /\ InTurn(g, t)
           \/ InOrder(f, t) /\ InOrder(g, t)
  BY DEF Kept, KeptOrder
<1>3. /\ g \in [1 .. Len(u) -> 1 .. Len(t)]
      /\ \A n \in 1 .. Len(u) : t[g[n]].value = u[n]
  BY <1>1 DEF Servings
<1>4. g \in Seq(1 .. Len(t)) /\ Len(g) = Len(f)
  <2>1. PICK S : S = 1 .. Len(t)
    OBVIOUS
  <2>2. PICK n \in Nat : n = Len(u)
    BY <1>1
  <2>3. g \in [1 .. n -> S]
    BY <1>3, <2>1, <2>2
  <2>4. g \in Seq(S) /\ Len(g) = n
    BY ONLY <2>3, n \in Nat
  <2> QED  BY <1>1, <2>1, <2>2, <2>4
<1>5. \A i : UsedBefore(g, Len(f) + 1, i) = UsedBefore(f, Len(f) + 1, i)
  <2>1. Len(f) <= Len(g) /\ \A n \in 1 .. Len(f) : t[f[n]].value = t[g[n]].value
    BY <1>1, <1>3, <1>4
  <2> QED  BY <1>2, <1>4, <2>1, OneServing
<1>6. ASSUME NEW k \in 1 .. Len(q) PROVE q[k].count < -1 /\ t[e[k]].count < 0
  <2>1. PICK j \in 1 .. Len(t) : j = e[k]
    BY DEF Answers, Tracks
  <2>2. /\ q[k].count = Left(t[j].count, Uses(f, j))
        /\ t[j].count > 0 => Uses(f, j) < t[j].count
    BY <2>1 DEF Answers, Tracks
  <2>3. Uses(f, j) \in Nat /\ t[j].count \in Int \ {0}
    <3>1. t[j] \in Item(V) /\ Len(f) + 1 \in Nat
      BY <1>1, ElementOfSeq
    <3> QED  BY <3>1, UsesType DEF Uses, Item
  <2>4. \/ UsedUp(g, Len(f) + 1, t, j)
        \/ t[j].count = ALWAYS /\ UsedBefore(g, Len(f) + 1, j) > 0
        \/ t[j].count < ALWAYS
    BY <1>1, <1>2, <1>4 DEF AllUsed
  <2>5. PICK c \in Int : c = t[j].count
    BY <2>3
  <2>6. (c = -1 /\ Uses(f, j) > 0) \/ c < -1
    <3>1. c > 0 => Uses(f, j) # c
      BY <2>2, <2>3, <2>5
    <3>2. \/ c > 0 /\ Uses(f, j) = c
          \/ c = -1 /\ Uses(f, j) > 0
          \/ c < -1
      BY <1>5, <2>4, <2>5 DEF UsedUp, Uses, ALWAYS
    <3> QED  BY <3>1, <3>2
  <2>7. c < 0 /\ Left(c, Uses(f, j)) < -1
    BY <2>3, <2>6 DEF Left
  <2> QED  BY <2>1, <2>2, <2>5, <2>7
<1> QED  BY <1>6

\* A queue of which everything was used is found empty, unless something was
\* announced behind a value without end.
LEMMA QueueClean ==
  ASSUME NEW V, NEW q \in Seq(Item(V)), NEW t \in Seq(Item(V)), NEW u \in Seq(V),
         QueueOK(q, t, u), Kept(t, u), ~OutOfReach(t)
  PROVE  WithoutAlways(q) = <<>>
<1>1. PICK f \in Seq(1 .. Len(t)) : InTurn(f, t) /\ \E e : Answers(q, t, u, f, e)
  BY DEF QueueOK
<1>2. PICK e : Answers(q, t, u, f, e)
  BY <1>1
<1>3. \A k \in 1 .. Len(q) : q[k].count < -1 /\ t[e[k]].count < 0
  BY <1>1, <1>2, MarkedOnly
<1>4. Len(q) \in Nat /\ Len(t) \in Nat /\ DOMAIN t = 1 .. Len(t)
  BY LenProperties
<1>5. \A k \in 1 .. Len(q) : e[k] = Len(t)
  <2> TAKE k \in 1 .. Len(q)
  <2>1. PICK j \in 1 .. Len(t) : j = e[k]
    BY <1>2 DEF Answers, Tracks
  <2>2. ~(j < Len(t))
    BY <1>3, <1>4, <2>1 DEF OutOfReach
  <2> QED  BY <1>4, <2>1, <2>2
<1>6. Len(q) <= 1
  <2> SUFFICES ASSUME Len(q) > 1 PROVE FALSE
    BY <1>4
  <2>1. 1 \in 1 .. Len(q) /\ 2 \in 1 .. Len(q) /\ 1 < 2
    BY <1>4
  <2>2. e[1] < e[2] /\ e[1] = Len(t) /\ e[2] = Len(t)
    BY <1>2, <1>5, <2>1 DEF Answers, Tracks
  <2> QED  BY <1>4, <2>2
<1>7. CASE q = <<>>
  BY <1>7 DEF WithoutAlways
<1>8. CASE q # <<>>
  <2>1. Len(q) = 1
    <3>1. Len(q) # 0
      BY <1>8, EmptySeq
    <3>2. \A n \in Nat : n <= 1 /\ n # 0 => n = 1
      OBVIOUS
    <3> QED  BY <1>4, <1>6, <3>1, <3>2
  <2>2. /\ Head(q) = q[1] /\ Tail(q) \in Seq(Item(V)) /\ Len(Tail(q)) = 0
    BY <1>8, <2>1, HeadTailProperties
  <2>3. Tail(q) = <<>> /\ Head(q).count < -1
    <3>1. Tail(q) = <<>>
      BY <2>2, EmptySeq
    <3> QED  BY <1>3, <2>1, <2>2, <3>1
  <2> QED  BY <1>8, <2>3 DEF WithoutAlways
<1> QED  BY <1>7, <1>8

LEMMA OrderClean ==
  ASSUME NEW V, NEW q \in Seq(Item(V)), NEW t \in Seq(Item(V)), NEW u \in Seq(V),
         OrderOK(q, t, u), KeptOrder(t, u)
  PROVE  StillDue(q) = {}
<1>1. PICK f \in Seq(1 .. Len(t)) : InOrder(f, t) /\ \E e : Answers(q, t, u, f, e)
  BY DEF OrderOK
<1>2. PICK e : Answers(q, t, u, f, e)
  BY <1>1
<1>3. \A k \in 1 .. Len(q) : q[k].count < -1
  BY <1>1, <1>2, MarkedOnly
<1>4. ASSUME NEW k \in 1 .. Len(q) PROVE ~(q[k].count >= -1)
  <2>1. q[k] \in Item(V)
    BY ElementOfSeq
  <2>2. q[k].count \in Int
    BY <2>1 DEF Item
  <2> QED  BY <1>3, <2>2
<1> QED  BY <1>4, LenProperties DEF StillDue

-----------------------------------------------------------------------------
\* The lists hold what was announced and is not used up.
StoreOK ==
  /\ \A k \in Key : QueueOK(store.queue[k], told.queue[k], seen.queue[k])
  /\ OrderOK(store.order, told.order, seen.order)

\* A body that passed left nothing that fail_if_leftover_values finds.
ClearedOK == at \in Bodies /\ ~running /\ rc = 0 => ~Leftover

LEMMA EmptyStore ==
  /\ \A k \in Key : QueueOK(Empty.queue[k], Empty.queue[k], Empty.queue[k])
  /\ OrderOK(Empty.order, Empty.order, Empty.order)
BY NothingAnnounced DEF Empty

LEMMA RunnerLists ==
  Runner =>
    \/ UNCHANGED lists /\ at' \notin Bodies
    \/ running' = TRUE /\ store' = Empty /\ told' = Empty /\ seen' = Empty
<1> DEFINE Goal ==
             \/ UNCHANGED lists /\ at' \notin Bodies
             \/ running' = TRUE /\ store' = Empty /\ told' = Empty /\ seen' = Empty
<1> SUFFICES ASSUME Runner PROVE Goal
  OBVIOUS
<1>1. ASSUME NEW body, NEW point, Begin(body, point) PROVE Goal
  BY <1>1 DEF Begin
<1>2. ASSUME EndTests PROVE Goal
  BY <1>1, <1>2 DEF EndTests, Bodies
<1> HIDE DEF Goal
<1>3. ASSUME NEW i, BeginTest(i) PROVE Goal
  BY <1>1, <1>3 DEF BeginTest
<1>4. ASSUME NEW result, Count(result) PROVE Goal
  BY <1>2, <1>3, <1>4 DEF Count
<1>5. ASSUME NEW result, Teardown(result) PROVE Goal
  BY <1>1, <1>5 DEF Teardown
<1>6. CASE AfterGroupSetup
  BY <1>2, <1>3, <1>6 DEF AfterGroupSetup
<1>7. CASE AfterSetup
  BY <1>1, <1>4, <1>7 DEF AfterSetup
<1>8. CASE AfterTest
  BY <1>4, <1>5, <1>8 DEF AfterTest
<1>9. CASE AfterTeardown
  BY <1>4, <1>9 DEF AfterTeardown
<1>10. CASE AfterGroupTeardown \/ Finish
  BY <1>10 DEF AfterGroupTeardown, Finish, Bodies, Goal
<1> QED  BY <1>6, <1>7, <1>8, <1>9, <1>10 DEF Runner

LEMMA BodyStore == TInv /\ StoreOK /\ Body => StoreOK'
<1> SUFFICES ASSUME TInv, StoreOK, Body PROVE StoreOK'
  OBVIOUS
<1> DEFINE Q == SUBSET Value
<1>1. /\ store \in [queue : [Key -> Seq(Item(Q))], order : Seq(Item(Name))]
      /\ told \in [queue : [Key -> Seq(Item(Q))], order : Seq(Item(Name))]
      /\ seen \in [queue : [Key -> Seq(Q)], order : Seq(Name)]
  BY TypeParts DEF TInv, Parts, ListsOK
<1>2. BodyFrame
  BY BodyChange
<1> HIDE DEF Q
<1>3. ASSUME NEW k \in Key,
             \A h \in Key : h # k => /\ store'.queue[h] = store.queue[h]
                                     /\ told'.queue[h] = told.queue[h]
                                     /\ seen'.queue[h] = seen.queue[h],
             store'.order = store.order, told'.order = told.order, seen'.order = seen.order,
             QueueOK(store'.queue[k], told'.queue[k], seen'.queue[k])
      PROVE  StoreOK'
  BY <1>3 DEF StoreOK
<1>4. ASSUME NEW k \in Key, NEW item \in Offered[k], Announce(k, item) PROVE StoreOK'
  <2>1. /\ store' = [store EXCEPT !.queue[k] = Append(@, item)]
        /\ told' = [told EXCEPT !.queue[k] = Append(@, item)]
        /\ seen' = seen
    BY <1>4 DEF Announce
  <2>2. item \in Item(Q)
    BY CmockaAssumption DEF Q
  <2>3. PICK q \in Seq(Item(Q)) : q = store.queue[k]
    BY <1>1
  <2>4. PICK t \in Seq(Item(Q)) : t = told.queue[k]
    BY <1>1
  <2>5. PICK u \in Seq(Q) : u = seen.queue[k]
    BY <1>1
  <2>6. QueueOK(q, t, u)
    BY <2>3, <2>4, <2>5 DEF StoreOK
  <2>7. QueueOK(Append(q, item), Append(t, item), u)
    BY <2>2, <2>6, Announced
  <2>8. /\ store'.queue[k] = Append(q, item) /\ told'.queue[k] = Append(t, item)
        /\ \A h \in Key : h # k => /\ store'.queue[h] = store.queue[h]
                                   /\ told'.queue[h] = told.queue[h]
        /\ store'.order = store.order /\ told'.order = told.order
    BY <1>1, <2>1, <2>3, <2>4
  <2> QED  BY <1>3, <2>1, <2>5, <2>7, <2>8
<1>5. ASSUME NEW k \in Key, Take(k) PROVE StoreOK'
  <2>1. /\ store' = [store EXCEPT !.queue[k] = UseAt(@, 1)]
        /\ seen' = [seen EXCEPT !.queue[k] = Append(@, Head(store.queue[k]).value)]
        /\ told' = told /\ store.queue[k] # <<>>
    BY <1>5 DEF Take
  <2>2. PICK q \in Seq(Item(Q)) : q = store.queue[k]
    BY <1>1
  <2>3. PICK t \in Seq(Item(Q)) : t = told.queue[k]
    BY <1>1
  <2>4. PICK u \in Seq(Q) : u = seen.queue[k]
    BY <1>1
  <2>5. QueueOK(q, t, u) /\ q # <<>>
    BY <2>1, <2>2, <2>3, <2>4 DEF StoreOK
  <2>6. QueueOK(UseAt(q, 1), t, Append(u, Head(q).value))
    BY <2>5, Taken
  <2>7. /\ store'.queue[k] = UseAt(q, 1) /\ seen'.queue[k] = Append(u, Head(q).value)
        /\ \A h \in Key : h # k => /\ store'.queue[h] = store.queue[h]
                                   /\ seen'.queue[h] = seen.queue[h]
        /\ store'.order = store.order /\ seen'.order = seen.order
    BY <1>1, <2>1, <2>2, <2>4
  <2> QED  BY <1>3, <2>1, <2>3, <2>6, <2>7
<1>6. ASSUME store'.queue = store.queue, told'.queue = told.queue, seen'.queue = seen.queue,
             OrderOK(store'.order, told'.order, seen'.order)
      PROVE  StoreOK'
  BY <1>6 DEF StoreOK
<1>7. PICK q \in Seq(Item(Name)) : q = store.order
  BY <1>1
<1>8. PICK t \in Seq(Item(Name)) : t = told.order
  BY <1>1
<1>9. PICK u \in Seq(Name) : u = seen.order
  BY <1>1
<1>10. OrderOK(q, t, u)
  BY <1>7, <1>8, <1>9 DEF StoreOK
<1>11. ASSUME NEW item \in Ordered, AnnounceCall(item) PROVE StoreOK'
  <2>1. /\ store' = [store EXCEPT !.order = Append(@, item)]
        /\ told' = [told EXCEPT !.order = Append(@, item)]
        /\ seen' = seen
    BY <1>11 DEF AnnounceCall
  <2>2. item \in Item(Name)
    BY CmockaAssumption
  <2>3. OrderOK(Append(q, item), Append(t, item), u)
    BY <1>10, <2>2, Announced
  <2>4. /\ store'.order = Append(q, item) /\ told'.order = Append(t, item)
        /\ store'.queue = store.queue /\ told'.queue = told.queue
    BY <1>1, <1>7, <1>8, <2>1
  <2> QED  BY <1>6, <1>9, <2>1, <2>3, <2>4
<1>12. ASSUME NEW f \in Name, FunctionCalled(f) PROVE StoreOK'
  <2>1. CASE CalledNode(store.order, f) = 0
    <3>1. UNCHANGED <<store, told, seen>>
      BY <1>12, <2>1 DEF FunctionCalled
    <3> QED  BY <3>1 DEF StoreOK
  <2>2. CASE CalledNode(store.order, f) # 0
    <3>1. /\ store' = [store EXCEPT !.order = UseAt(@, CalledNode(q, f))]
          /\ seen' = [seen EXCEPT !.order = Append(@, f)]
          /\ told' = told
      BY <1>7, <1>12, <2>2 DEF FunctionCalled
    <3>2. OrderOK(UseAt(q, CalledNode(q, f)), t, Append(u, f))
      BY <1>7, <1>10, <2>2, Called
    <3>3. /\ store'.order = UseAt(q, CalledNode(q, f)) /\ seen'.order = Append(u, f)
          /\ store'.queue = store.queue /\ seen'.queue = seen.queue
      BY <1>1, <1>7, <1>9, <3>1
    <3> QED  BY <1>6, <1>8, <3>1, <3>2, <3>3
  <2> QED  BY <2>1, <2>2
<1>13. CASE UNCHANGED lists
  BY <1>13 DEF lists, StoreOK
<1> QED  BY <1>2, <1>4, <1>5, <1>11, <1>12, <1>13 DEF BodyFrame

LEMMA StoreHolds == Spec => [](StoreOK /\ ClearedOK)
<1>1. Init => StoreOK /\ ClearedOK
  BY EmptyStore DEF Init, StoreOK, ClearedOK
<1>2. TInv /\ StoreOK /\ ClearedOK /\ [Next]_vars => StoreOK' /\ ClearedOK'
  <2> SUFFICES ASSUME TInv, StoreOK, ClearedOK, [Next]_vars PROVE StoreOK' /\ ClearedOK'
    OBVIOUS
  <2>1. CASE UNCHANGED vars
    BY <2>1 DEF vars, heap, lists, results, verdict, StoreOK, ClearedOK, Leftover
  <2>2. CASE Body
    <3>1. StoreOK'
      BY <2>2, BodyStore
    <3>2. BodyFrame
      BY <2>2, BodyChange
    <3>3. CASE Return
      BY <3>1, <3>3 DEF Return, lists, ClearedOK, Leftover
    <3>4. CASE Jump
      <4>1. rc' # 0
        BY <3>4 DEF Jump
      <4> QED  BY <3>1, <4>1 DEF ClearedOK
    <3>5. CASE Stays
      BY <3>1, <3>2, <3>5 DEF Stays, BodyFrame, ClearedOK
    <3> QED  BY <3>1, <3>2, <3>3, <3>4, <3>5 DEF BodyFrame, Verdict
  <2>3. CASE Runner
    <3>1. CASE UNCHANGED lists /\ at' \notin Bodies
      BY <3>1 DEF lists, StoreOK, ClearedOK
    <3>2. CASE running' = TRUE /\ store' = Empty /\ told' = Empty /\ seen' = Empty
      BY <3>2, EmptyStore DEF StoreOK, ClearedOK
    <3> QED  BY <2>3, <3>1, <3>2, RunnerLists
  <2> QED  BY <2>1, <2>2, <2>3 DEF Next
<1> QED  BY <1>1, <1>2, CmockaTypes, PTL DEF Spec

\* Mocked functions return, parameters are checked against, and functions are
\* called in, what was announced of them, in its order and as often.
THEOREM ServedAsAnnounced == Spec => []ServedInOrder
<1>1. TInv /\ StoreOK => ServedInOrder
  <2> SUFFICES ASSUME TInv, StoreOK PROVE ServedInOrder
    OBVIOUS
  <2>1. /\ told \in [queue : [Key -> Seq(Item(SUBSET Value))], order : Seq(Item(Name))]
        /\ seen \in [queue : [Key -> Seq(SUBSET Value)], order : Seq(Name)]
    BY TypeParts DEF TInv, Parts, ListsOK
  <2>2. ASSUME NEW k \in Key PROVE Serves(told.queue[k], seen.queue[k])
    <3>1. PICK t \in Seq(Item(SUBSET Value)) : t = told.queue[k]
      BY <2>1
    <3>2. PICK u \in Seq(SUBSET Value) : u = seen.queue[k]
      BY <2>1
    <3>3. PICK q : q = store.queue[k]
      OBVIOUS
    <3>4. QueueOK(q, t, u)
      BY <3>1, <3>2, <3>3 DEF StoreOK
    <3> QED  BY <3>1, <3>2, <3>4, Served
  <2>3. ServesOrder(told.order, seen.order)
    <3>1. PICK t \in Seq(Item(Name)) : t = told.order
      BY <2>1
    <3>2. PICK u \in Seq(Name) : u = seen.order
      BY <2>1
    <3>3. PICK q : q = store.order
      OBVIOUS
    <3>4. OrderOK(q, t, u)
      BY <3>1, <3>2, <3>3 DEF StoreOK
    <3> QED  BY <3>1, <3>2, <3>4, Served
  <2> QED  BY <2>2, <2>3 DEF ServedInOrder
<1> QED  BY <1>1, CmockaTypes, StoreHolds, PTL

\* A body passes only if all it announced was used as announced.
THEOREM PassedAsAnnounced == Spec => []PassedMeansKept
<1>1. TInv /\ StoreOK /\ ClearedOK => PassedMeansKept
  <2> SUFFICES ASSUME TInv, StoreOK, ClearedOK, at \in Bodies, ~running, rc = 0
               PROVE  /\ \A k \in Key : Kept(told.queue[k], seen.queue[k])
                      /\ KeptOrder(told.order, seen.order)
    BY DEF PassedMeansKept
  <2>1. /\ store \in [queue : [Key -> Seq(Item(SUBSET Value))], order : Seq(Item(Name))]
        /\ told \in [queue : [Key -> Seq(Item(SUBSET Value))], order : Seq(Item(Name))]
        /\ seen \in [queue : [Key -> Seq(SUBSET Value)], order : Seq(Name)]
    BY TypeParts DEF TInv, Parts, ListsOK
  <2>2. /\ \A k \in Key : WithoutAlways(store.queue[k]) = <<>>
        /\ StillDue(store.order) = {}
    BY DEF ClearedOK, Leftover
  <2>3. ASSUME NEW k \in Key PROVE Kept(told.queue[k], seen.queue[k])
    <3>1. PICK t \in Seq(Item(SUBSET Value)) : t = told.queue[k]
      BY <2>1
    <3>2. PICK u \in Seq(SUBSET Value) : u = seen.queue[k]
      BY <2>1
    <3>3. PICK q \in Seq(Item(SUBSET Value)) : q = store.queue[k]
      BY <2>1
    <3>4. QueueOK(q, t, u) /\ WithoutAlways(q) = <<>>
      BY <2>2, <3>1, <3>2, <3>3 DEF StoreOK
    <3> QED  BY <3>1, <3>2, <3>4, QueueKept
  <2>4. KeptOrder(told.order, seen.order)
    <3>1. PICK t \in Seq(Item(Name)) : t = told.order
      BY <2>1
    <3>2. PICK u \in Seq(Name) : u = seen.order
      BY <2>1
    <3>3. PICK q \in Seq(Item(Name)) : q = store.order
      BY <2>1
    <3>4. OrderOK(q, t, u) /\ StillDue(q) = {}
      BY <2>2, <3>1, <3>2, <3>3 DEF StoreOK
    <3> QED  BY <3>1, <3>2, <3>4, OrderKept
  <2> QED  BY <2>3, <2>4
<1> QED  BY <1>1, CmockaTypes, StoreHolds, PTL

\* A body is failed for its mocks only if it used them otherwise than announced,
\* or announced something behind a value that is returned without end.
THEOREM FailedForCause == Spec => []RefusedForCause
<1>1. TInv /\ StoreOK => RefusedForCause
  <2> SUFFICES ASSUME TInv, StoreOK PROVE RefusedForCause
    OBVIOUS
  <2>1. /\ store \in [queue : [Key -> Seq(Item(SUBSET Value))], order : Seq(Item(Name))]
        /\ told \in [queue : [Key -> Seq(Item(SUBSET Value))], order : Seq(Item(Name))]
        /\ seen \in [queue : [Key -> Seq(SUBSET Value)], order : Seq(Name)]
    BY TypeParts DEF TInv, Parts, ListsOK
  <2>2. ASSUME NEW k \in Key
        PROVE  /\ store.queue[k] = <<>> =>
                    \A i \in DOMAIN told.queue[k] :
                      ~Serves(told.queue[k],
                              Append(seen.queue[k], told.queue[k][i].value))
               /\ WithoutAlways(store.queue[k]) # <<>> =>
                    ~Kept(told.queue[k], seen.queue[k]) \/ OutOfReach(told.queue[k])
    <3>1. PICK t \in Seq(Item(SUBSET Value)) : t = told.queue[k]
      BY <2>1
    <3>2. PICK u \in Seq(SUBSET Value) : u = seen.queue[k]
      BY <2>1
    <3>3. PICK q \in Seq(Item(SUBSET Value)) : q = store.queue[k]
      BY <2>1
    <3>4. QueueOK(q, t, u)
      BY <3>1, <3>2, <3>3 DEF StoreOK
    <3>5. ASSUME q = <<>>, NEW i \in DOMAIN t PROVE ~Serves(t, Append(u, t[i].value))
      <4>1. t[i] \in Item(SUBSET Value)
        BY ElementOfSeq, LenProperties
      <4>2. t[i].value \in SUBSET Value
        BY <4>1 DEF Item
      <4> QED  BY <3>4, <3>5, <4>2, NoneToServe
    <3>6. WithoutAlways(q) # <<>> => ~Kept(t, u) \/ OutOfReach(t)
      BY <3>4, QueueClean
    <3> QED  BY <3>1, <3>2, <3>3, <3>5, <3>6
  <2>3. PICK t \in Seq(Item(Name)) : t = told.order
    BY <2>1
  <2>4. PICK u \in Seq(Name) : u = seen.order
    BY <2>1
  <2>5. PICK q \in Seq(Item(Name)) : q = store.order
    BY <2>1
  <2>6. OrderOK(q, t, u)
    BY <2>3, <2>4, <2>5 DEF StoreOK
  <2>7. ASSUME NEW f \in Name, CalledNode(q, f) = 0 PROVE ~ServesOrder(t, Append(u, f))
    BY <2>6, <2>7, NoneToCall
  <2>8. StillDue(q) # {} => ~KeptOrder(t, u)
    BY <2>6, OrderClean
  <2> QED  BY <2>2, <2>3, <2>4, <2>5, <2>7, <2>8 DEF RefusedForCause, Leftover
<1> QED  BY <1>1, CmockaTypes, StoreHolds, PTL

=============================================================================
