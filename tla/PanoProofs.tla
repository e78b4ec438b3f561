----------------------------- MODULE PanoProofs -----------------------------
(***************************************************************************)
(* The renderer's pool and picture, for any number of render loops,        *)
(* positions, workers and rows.                                            *)
(***************************************************************************)
EXTENDS PanoRenderer, FiniteSetTheorems, TLAPS

(***************************************************************************)
(* Types.                                                                  *)
(***************************************************************************)
PicType == /\ buf \in [Rows -> Row]
           /\ osdSave \in [OSDRows -> Row]
           /\ rp \in Pos \cup {None}
           /\ cachedPos \in Pos \cup {None}

\* A range in the pool is one that Render cuts.
PoolType == /\ workCh \in [Worker -> BOOLEAN]
            /\ row \in [Worker -> 0..Height \cup {None}]
            /\ doneCh \in 0..NumWorkers
            /\ \A i \in Worker : workCh[i] \/ row[i] # None => i \in Dispatched

LoopType == /\ pc \in [Loop -> {"idle", "work", "save", "restore", "draw", "write"}]
            /\ pos \in [Loop -> Pos \cup {None}]
            /\ sent \in [Loop -> 0..NumWorkers]
            /\ got \in [Loop -> 0..NumWorkers]
            /\ overlapped \in [Loop -> BOOLEAN] /\ tainted \in BOOLEAN

\* What a loop has dispatched and received.
CountInv ==
    \A l \in Loop :
        /\ got[l] <= sent[l]
        /\ \A i \in 1..sent[l] : i \in Dispatched
        /\ pc[l] # "work" => got[l] = sent[l]
        /\ pc[l] \in {"idle", "restore"} => sent[l] = 0
        /\ pc[l] # "idle" => pos[l] \in Pos

PoolInv == PicType /\ PoolType /\ LoopType /\ CountInv /\ PoolBalanced

(***************************************************************************)
(* The picture.                                                            *)
(***************************************************************************)
Clean(p) == [img |-> p, ink |-> 0]

\* A loop that has met no other is alone.
Solo(l) == pc[l] # "idle" /\ ~overlapped[l]

SoloIsAlone == \A l \in Loop : Solo(l) => Busy = {l}

\* What a solo loop finds at each of its steps.
Projecting(l) ==
    /\ rp = pos[l]
    /\ \A i \in Worker :
        /\ workCh[i] \/ row[i] # None => i <= sent[l]
        /\ workCh[i] => row[i] = None
        /\ row[i] # None => \A y \in Rows :
              StartRow(i) <= y /\ y < row[i] => buf[y] = Clean(pos[l])
        /\ i <= sent[l] /\ ~workCh[i] /\ row[i] = None => \A y \in Rows :
              StartRow(i) <= y /\ y < EndRow(i) => buf[y] = Clean(pos[l])

Blank(p) == \A y \in Rows : buf[y] = Clean(p)

\* The cache holds a clean projection of p.
Cached(p) ==
    /\ \A y \in Rows \ OSDRows : buf[y] = Clean(p)
    /\ \A y \in OSDRows : osdSave[y] = Clean(p)

SoloPicture ==
    \A l \in Loop : Solo(l) =>
        /\ pc[l] = "work" => Projecting(l)
        /\ pc[l] = "save" => cachedPos = pos[l] /\ Blank(pos[l]) /\ ~tainted
        /\ pc[l] = "restore" => cachedPos = pos[l]
        /\ pc[l] = "draw" /\ ~tainted => cachedPos = pos[l] /\ Blank(pos[l])
        /\ pc[l] = "write" /\ ~tainted =>
              \A y \in Rows : buf[y] = [img |-> pos[l],
                                        ink |-> IF y \in OSDRows THEN 1 ELSE 0]

\* Unless a loop is about to replace it, the cache is good or marked.
CacheGood ==
    /\ ~tainted /\ cachedPos # None
    /\ \A l \in Loop : pc[l] \notin {"work", "save"}
    => Cached(cachedPos)

PictureInv == SoloIsAlone /\ SoloPicture /\ CacheGood
----------------------------------------------------------------------------
(***************************************************************************)
(* The partition of the rows.                                              *)
(***************************************************************************)
LEMMA MinOfTwo ==
    ASSUME NEW a \in Int, NEW b \in Int
    PROVE  Min({a, b}) = IF a <= b THEN a ELSE b
<1>1. \E x \in {a, b} : \A y \in {a, b} : x <= y
  OBVIOUS
<1> QED BY <1>1 DEF Min

\* Division rounds up.
LEMMA Shares ==
    /\ RowsPerWorker \in Nat \ {0}
    /\ Height <= NumWorkers * RowsPerWorker
<1>1. Height \in Nat \ {0} /\ NumWorkers \in Nat \ {0}
  BY PanoAssumption
<1> DEFINE h == Height + NumWorkers - 1
<1>2. h \in Nat /\ h >= NumWorkers
  BY <1>1
<1>3. /\ h \div NumWorkers \in Int
      /\ NumWorkers * (h \div NumWorkers) <= h
      /\ h < NumWorkers * (h \div NumWorkers) + NumWorkers
  BY <1>1, <1>2
<1>4. h \div NumWorkers >= 1
  BY <1>1, <1>2, <1>3
<1> QED BY <1>1, <1>3, <1>4 DEF RowsPerWorker

LEMMA Product ==
    ASSUME NEW a \in Nat, NEW b \in Nat, NEW r \in Nat, a <= b
    PROVE  a * r \in Nat /\ b * r \in Nat /\ a * r <= b * r
OBVIOUS

\* The ranges lie in the frame, and the ones before a range are not empty.
LEMMA Ranges ==
    ASSUME NEW i \in Worker
    PROVE  /\ StartRow(i) \in Nat /\ EndRow(i) \in Nat /\ EndRow(i) <= Height
           /\ EndRow(i) <= StartRow(i) + RowsPerWorker
           /\ i \in Dispatched => StartRow(i) < EndRow(i)
           /\ i \in Dispatched => \A j \in 1..i : j \in Dispatched
<1>1. Height \in Nat /\ NumWorkers \in Nat /\ i \in Nat /\ i >= 1
  BY PanoAssumption DEF Worker
<1>2. StartRow(i) \in Nat
  BY <1>1, Shares, Product DEF StartRow
<1>3. EndRow(i) = IF StartRow(i) + RowsPerWorker <= Height
                  THEN StartRow(i) + RowsPerWorker ELSE Height
  BY <1>1, <1>2, Shares, MinOfTwo DEF EndRow
<1>4. i \in Dispatched => StartRow(i) < EndRow(i)
  BY <1>1 DEF Dispatched
<1>5. i \in Dispatched => \A j \in 1..i : j \in Dispatched
  BY <1>1 DEF Dispatched, Worker
<1> QED BY <1>1, <1>2, <1>3, <1>4, <1>5, Shares

\* Every row is in a range.
LEMMA RowsCovered ==
    ASSUME NEW y \in Rows
    PROVE  \E i \in Dispatched : StartRow(i) <= y /\ y < EndRow(i)
<1>1. Height \in Nat /\ NumWorkers \in Nat \ {0} /\ y \in Nat /\ y < Height
  BY PanoAssumption DEF Rows
<1> DEFINE r == RowsPerWorker
           q == y \div r
<1>2. r \in Nat \ {0} /\ Height <= NumWorkers * r
  BY Shares
<1>3. q \in Nat /\ r * q <= y /\ y < r * q + r
  <2> HIDE DEF r
  <2> QED BY <1>1, <1>2
<1>4. q + 1 \in Worker
  <2>1. q < NumWorkers
    <3>1. CASE q >= NumWorkers
      <4> HIDE DEF r, q
      <4>1. NumWorkers * r <= q * r
        BY <1>1, <1>2, <1>3, <3>1, Product
      <4> QED BY <1>1, <1>2, <1>3, <4>1
    <3> HIDE DEF r, q
    <3> QED BY <1>1, <1>3, <3>1
  <2> HIDE DEF r, q
  <2> QED BY <1>1, <1>3, <2>1 DEF Worker
<1>5. StartRow(q + 1) = r * q
  <2>1. StartRow(q + 1) = ((q + 1) - 1) * r
    BY DEF StartRow
  <2> HIDE DEF r, q
  <2>2. (q + 1) - 1 = q
    BY <1>3
  <2>3. q * r = r * q
    BY <1>2, <1>3
  <2> QED BY <2>1, <2>2, <2>3
<1>6. ASSUME NEW j \in 1..(q + 1)
      PROVE  StartRow(j) <= y /\ StartRow(j) < EndRow(j)
  <2>0. j \in Worker /\ j - 1 \in Nat /\ j - 1 <= q
    <3> HIDE DEF r, q
    <3> QED BY <1>1, <1>3, <1>4, <1>6 DEF Worker
  <2>1. (j - 1) * r <= q * r /\ q * r = r * q
    <3> HIDE DEF r, q
    <3> QED BY <1>2, <1>3, <2>0, Product
  <2>2. StartRow(j) <= y /\ StartRow(j) \in Nat
    <3>1. StartRow(j) = (j - 1) * r
      BY DEF StartRow
    <3> HIDE DEF r, q
    <3> QED BY <1>1, <1>2, <1>3, <2>0, <2>1, <3>1, Ranges
  <2>3. EndRow(j) = IF StartRow(j) + r <= Height THEN StartRow(j) + r ELSE Height
    BY <1>1, <1>2, <2>2, MinOfTwo DEF EndRow
  <2> HIDE DEF r, q
  <2> QED BY <1>1, <1>2, <2>2, <2>3
<1>7. y < EndRow(q + 1)
  <2>1. EndRow(q + 1) = IF StartRow(q + 1) + r <= Height THEN StartRow(q + 1) + r ELSE Height
    <3>1. StartRow(q + 1) \in Nat
      BY <1>4, Ranges
    <3> QED BY <1>1, <1>2, <3>1, MinOfTwo DEF EndRow
  <2>2. StartRow(q + 1) + r = r * q + r
    BY <1>5
  <2> HIDE DEF r, q
  <2> QED BY <1>1, <1>3, <2>1, <2>2
<1>8. q + 1 \in Dispatched /\ StartRow(q + 1) <= y
  <2> HIDE DEF q
  <2>1. q + 1 \in 1..(q + 1)
    BY <1>3
  <2> QED BY <1>4, <1>6, <2>1 DEF Dispatched
<1> QED BY <1>7, <1>8
----------------------------------------------------------------------------
(***************************************************************************)
(* Types and counts, action by action.                                     *)
(***************************************************************************)
Counts == PicType /\ PoolType /\ LoopType /\ CountInv

LEMMA InitCounts == Init => Counts
<1> SUFFICES ASSUME Init PROVE Counts
  OBVIOUS
<1>1. NumWorkers \in Nat /\ Height \in Nat
  BY PanoAssumption
<1>2. PicType
  BY DEF Init, PicType, Row, MaxInk
<1>3. PoolType
  BY <1>1 DEF Init, PoolType
<1>4. LoopType
  <2>1. 0 \in 0..NumWorkers
    BY <1>1
  <2>2. sent \in [Loop -> 0..NumWorkers] /\ got \in [Loop -> 0..NumWorkers]
    BY <2>1 DEF Init
  <2>3. pc \in [Loop -> {"idle", "work", "save", "restore", "draw", "write"}]
    BY DEF Init
  <2>4. pos \in [Loop -> Pos \cup {None}]
    BY DEF Init
  <2>5. overlapped \in [Loop -> BOOLEAN] /\ tainted \in BOOLEAN
    BY Zenon DEF Init
  <2> QED BY <2>2, <2>3, <2>4, <2>5 DEF LoopType
<1>5. CountInv
  BY <1>1 DEF Init, CountInv
<1> QED BY <1>2, <1>3, <1>4, <1>5 DEF Counts

LEMMA BeginCounts ==
    ASSUME Counts, NEW l \in Loop, NEW p \in Pos, Begin(l, p)
    PROVE  Counts'
<1>1. PicType' /\ PoolType'
  BY DEF Counts, Begin, PicType, PoolType, poolVars
<1>2. LoopType'
  BY DEF Counts, Begin, At, Busy, LoopType
<1>3. CountInv'
  BY DEF Counts, Begin, At, CountInv, LoopType
<1> QED BY <1>1, <1>2, <1>3 DEF Counts

LEMMA SendCounts ==
    ASSUME Counts, NEW l \in Loop, Send(l)
    PROVE  Counts'
<1>0. sent[l] + 1 \in Worker /\ sent[l] \in Nat /\ NumWorkers \in Nat
  BY PanoAssumption DEF Send, Dispatched, Counts, LoopType
<1>1. PicType'
  BY DEF Counts, Send, PicType, picVars
<1>2. PoolType'
  BY <1>0 DEF Counts, Send, PoolType
<1>3. LoopType'
  BY <1>0 DEF Counts, Send, LoopType, hisVars, Worker
<1>4. CountInv'
  BY <1>0 DEF Counts, Send, CountInv, LoopType
<1> QED BY <1>1, <1>2, <1>3, <1>4 DEF Counts

LEMMA CollectCounts ==
    ASSUME Counts, NEW l \in Loop, Collect(l)
    PROVE  Counts'
<1>0. NumWorkers \in Nat
  BY PanoAssumption
<1>1. PicType' /\ PoolType'
  BY <1>0 DEF Counts, Collect, PicType, PoolType, picVars
<1>2. LoopType'
  BY <1>0 DEF Counts, Collect, LoopType, hisVars
<1>3. CountInv'
  BY <1>0 DEF Counts, Collect, CountInv, LoopType
<1> QED BY <1>1, <1>2, <1>3 DEF Counts

LEMMA CacheCounts ==
    ASSUME Counts, NEW l \in Loop, Cache(l)
    PROVE  Counts'
<1>1. PicType'
  BY DEF Counts, Cache, At, PicType, CountInv
<1>2. PoolType'
  BY DEF Counts, Cache, PoolType, poolVars
<1>3. LoopType' /\ CountInv'
  BY DEF Counts, Cache, At, Collected, LoopType, CountInv
<1> QED BY <1>1, <1>2, <1>3 DEF Counts

LEMMA SaveCounts ==
    ASSUME Counts, NEW l \in Loop, Save(l)
    PROVE  Counts'
<1>0. OSDRows \subseteq Rows
  BY PanoAssumption DEF OSDRows, Rows
<1>1. PicType'
  BY <1>0 DEF Counts, Save, PicType
<1>2. PoolType'
  BY DEF Counts, Save, PoolType, poolVars
<1>3. LoopType' /\ CountInv'
  BY DEF Counts, Save, At, LoopType, CountInv
<1> QED BY <1>1, <1>2, <1>3 DEF Counts

LEMMA RestoreCounts ==
    ASSUME Counts, NEW l \in Loop, Restore(l)
    PROVE  Counts'
<1>1. PicType'
  BY DEF Counts, Restore, PicType
<1>2. PoolType'
  BY DEF Counts, Restore, PoolType, poolVars
<1>3. LoopType' /\ CountInv'
  BY DEF Counts, Restore, At, LoopType, CountInv, hisVars
<1> QED BY <1>1, <1>2, <1>3 DEF Counts

LEMMA DrawCounts ==
    ASSUME Counts, NEW l \in Loop, Draw(l)
    PROVE  Counts'
<1>1. ASSUME NEW y \in Rows
      PROVE  [buf[y] EXCEPT !.ink = Min({@ + 1, MaxInk})] \in Row
  <2>1. buf[y] \in Row /\ buf[y].ink \in 0..2
    BY DEF Counts, PicType, Row, MaxInk
  <2>2. Min({buf[y].ink + 1, MaxInk}) \in 0..MaxInk
    BY <2>1, MinOfTwo DEF MaxInk
  <2> QED BY <2>1, <2>2 DEF Row
<1>2. PicType'
  BY <1>1 DEF Counts, Draw, PicType
<1>3. PoolType'
  BY DEF Counts, Draw, PoolType, poolVars
<1>4. LoopType' /\ CountInv'
  BY DEF Counts, Draw, At, LoopType, CountInv, hisVars
<1> QED BY <1>2, <1>3, <1>4 DEF Counts

LEMMA WrittenCounts ==
    ASSUME Counts, NEW l \in Loop, Written(l)
    PROVE  Counts'
<1>0. NumWorkers \in Nat
  BY PanoAssumption
<1>1. PicType' /\ PoolType'
  BY DEF Counts, Written, PicType, PoolType, picVars, poolVars
<1>2. LoopType' /\ CountInv'
  BY <1>0 DEF Counts, Written, At, LoopType, CountInv
<1> QED BY <1>1, <1>2 DEF Counts

LEMMA TakeRangeCounts ==
    ASSUME Counts, NEW i \in Worker, TakeRange(i)
    PROVE  Counts'
<1>0. i \in Dispatched /\ Height \in Nat
  BY PanoAssumption DEF Counts, PoolType, TakeRange
<1>1. StartRow(i) \in 0..Height
  BY <1>0, Ranges
<1>2. PicType'
  BY DEF Counts, TakeRange, PicType, picVars
<1>3. PoolType'
  BY <1>0, <1>1 DEF Counts, TakeRange, PoolType
<1>4. LoopType' /\ CountInv'
  BY DEF Counts, TakeRange, LoopType, CountInv, loopVars, hisVars
<1> QED BY <1>2, <1>3, <1>4 DEF Counts

\* The row a worker renders is one of the frame, and the next one a number.
LEMMA RowInFrame ==
    ASSUME Counts, NEW i \in Worker, RenderRow(i)
    PROVE  /\ row[i] \in Rows /\ row[i] < EndRow(i)
           /\ row[i] + 1 \in 0..Height /\ row[i] + 1 # None
<1>1. row[i] \in 0..Height /\ row[i] < EndRow(i)
  BY DEF Counts, PoolType, RenderRow
<1>2. EndRow(i) \in Nat /\ EndRow(i) <= Height /\ Height \in Nat
  BY Ranges, PanoAssumption
<1>3. row[i] + 1 \in 0..Height /\ row[i] \in Rows
  BY <1>1, <1>2 DEF Rows
<1> QED BY <1>1, <1>3, PanoAssumption

LEMMA RenderRowCounts ==
    ASSUME Counts, NEW i \in Worker, RenderRow(i)
    PROVE  Counts'
<1>1. [img |-> IF Cardinality(Busy) > 1 THEN Torn ELSE rp, ink |-> 0] \in Row
  BY DEF Counts, PicType, Row, MaxInk
<1>2. PicType'
  BY <1>1, RowInFrame DEF Counts, RenderRow, PicType
<1>3. PoolType'
  BY RowInFrame DEF Counts, RenderRow, PoolType
<1>4. LoopType' /\ CountInv'
  BY DEF Counts, RenderRow, LoopType, CountInv, loopVars, hisVars
<1> QED BY <1>2, <1>3, <1>4 DEF Counts

LEMMA DoneCounts ==
    ASSUME Counts, NEW i \in Worker, Done(i)
    PROVE  Counts'
<1>0. NumWorkers \in Nat
  BY PanoAssumption
<1>1. PicType' /\ PoolType'
  BY <1>0 DEF Counts, Done, PicType, PoolType, picVars
<1>2. LoopType' /\ CountInv'
  BY DEF Counts, Done, LoopType, CountInv, loopVars, hisVars
<1> QED BY <1>1, <1>2 DEF Counts

LEMMA StutterCounts ==
    ASSUME Counts, UNCHANGED vars
    PROVE  Counts'
<1>1. PicType' /\ PoolType'
  BY DEF Counts, PicType, PoolType, vars, picVars, poolVars
<1>2. LoopType' /\ CountInv'
  BY DEF Counts, LoopType, CountInv, vars, loopVars, hisVars
<1> QED BY <1>1, <1>2 DEF Counts

LEMMA NextCounts == Counts /\ [Next]_vars => Counts'
BY BeginCounts, SendCounts, CollectCounts, CacheCounts, SaveCounts, RestoreCounts,
   DrawCounts, WrittenCounts, TakeRangeCounts, RenderRowCounts, DoneCounts,
   StutterCounts DEF Next, Render, WorkerStep

LEMMA CountsAlways == Spec => []Counts
BY InitCounts, NextCounts, PTL DEF Spec

\* Every variable has its type: no worker writes outside the frame, and no
\* loop counts more ranges than there are workers.
THEOREM PanoTypes == Spec => []TypeOK
<1>1. Counts => TypeOK
  BY DEF Counts, PicType, PoolType, LoopType, TypeOK
<1> QED BY <1>1, CountsAlways, PTL
----------------------------------------------------------------------------
(***************************************************************************)
(* The balance of the pool.                                                *)
(***************************************************************************)
InChannel == {i \in Worker : workCh[i]}
InHand == {i \in Worker : row[i] # None}

LEMMA Counted ==
    /\ IsFiniteSet(Outstanding) /\ Cardinality(Outstanding) \in Nat
    /\ IsFiniteSet(InChannel) /\ Cardinality(InChannel) \in Nat
    /\ IsFiniteSet(InHand) /\ Cardinality(InHand) \in Nat
<1>1. IsFiniteSet(Worker)
  <2>1. 1 \in Int /\ NumWorkers \in Int
    BY PanoAssumption
  <2> QED BY <2>1, FS_Interval DEF Worker
<1>2. IsFiniteSet(Loop \X Worker)
  BY <1>1, PanoAssumption, FS_Product
<1>3. Outstanding \in SUBSET (Loop \X Worker)
  BY DEF Outstanding
<1>4. InChannel \in SUBSET Worker /\ InHand \in SUBSET Worker
  BY DEF InChannel, InHand
<1>5. IsFiniteSet(Outstanding)
  BY <1>2, <1>3, FS_Subset
<1>6. IsFiniteSet(InChannel) /\ IsFiniteSet(InHand)
  BY <1>1, <1>4, FS_Subset
<1> QED BY <1>5, <1>6, FS_CardinalityType

LEMMA OneMore ==
    ASSUME NEW S, NEW T, NEW x, IsFiniteSet(S), x \notin S, T = S \cup {x}
    PROVE  Cardinality(T) = Cardinality(S) + 1
BY FS_AddElement

LEMMA Balance ==
    PoolBalanced <=> Cardinality(Outstanding) =
                     doneCh + Cardinality(InChannel) + Cardinality(InHand)
BY DEF PoolBalanced, InChannel, InHand

LEMMA InitBalance == Init => PoolBalanced
<1> SUFFICES ASSUME Init PROVE PoolBalanced
  OBVIOUS
<1>1. Outstanding = {}
  BY DEF Init, Outstanding, Worker
<1>2. InChannel = {} /\ InHand = {} /\ doneCh = 0
  BY DEF Init, InChannel, InHand
<1> QED BY <1>1, <1>2, Balance, FS_EmptySet

\* A range that is sent is outstanding and in its worker's channel.
LEMMA SendBalance ==
    ASSUME Counts, PoolBalanced, NEW l \in Loop, Send(l)
    PROVE  PoolBalanced'
<1> DEFINE k == sent[l] + 1
<1>1. k \in Worker /\ sent[l] \in Nat /\ got[l] \in Nat /\ got[l] <= sent[l]
  BY PanoAssumption DEF Send, Dispatched, Counts, LoopType, CountInv
<1>2. Outstanding' = Outstanding \cup {<<l, k>>} /\ <<l, k>> \notin Outstanding
  BY <1>1 DEF Outstanding, Send, Counts, LoopType, Worker
<1>3. InChannel' = InChannel \cup {k} /\ k \notin InChannel
  BY <1>1 DEF InChannel, Send, Counts, PoolType
<1>4. InHand' = InHand /\ doneCh' = doneCh /\ doneCh \in Nat
  BY PanoAssumption DEF InHand, Send, Counts, PoolType
<1>5. /\ Cardinality(Outstanding') = Cardinality(Outstanding) + 1
      /\ Cardinality(InChannel') = Cardinality(InChannel) + 1
  BY <1>2, <1>3, Counted, OneMore
<1>6. Cardinality(Outstanding)' = doneCh' + Cardinality(InChannel)' + Cardinality(InHand)'
  BY <1>4, <1>5, Counted, Balance
<1> QED BY <1>6 DEF PoolBalanced, InChannel, InHand

\* A token pays for one range of the loop that receives it.
LEMMA CollectBalance ==
    ASSUME Counts, PoolBalanced, NEW l \in Loop, Collect(l)
    PROVE  PoolBalanced'
<1> DEFINE k == got[l] + 1
<1>1. k \in Worker /\ sent[l] \in Nat /\ got[l] \in Nat /\ got[l] < sent[l]
  BY PanoAssumption DEF Collect, Counts, LoopType, Worker
<1>2. Outstanding = Outstanding' \cup {<<l, k>>} /\ <<l, k>> \notin Outstanding'
  BY <1>1 DEF Outstanding, Collect, Counts, LoopType, Worker
<1>3. InChannel' = InChannel /\ InHand' = InHand
  BY DEF InChannel, InHand, Collect
<1>4. doneCh \in Nat /\ doneCh > 0 /\ doneCh' = doneCh - 1
  BY PanoAssumption DEF Collect, Counts, PoolType
<1>5. IsFiniteSet(Outstanding') /\ Cardinality(Outstanding') \in Nat
  <2>1. Outstanding' \in SUBSET Outstanding
    BY <1>2
  <2>2. IsFiniteSet(Outstanding')
    BY <2>1, Counted, FS_Subset
  <2> QED BY <2>2, FS_CardinalityType
<1>6. Cardinality(Outstanding) = Cardinality(Outstanding') + 1
  BY <1>2, <1>5, OneMore
<1>7. /\ Cardinality(Outstanding) = doneCh + Cardinality(InChannel) + Cardinality(InHand)
      /\ Cardinality(InChannel) \in Nat /\ Cardinality(InHand) \in Nat
  BY Balance, Counted
<1>8. Cardinality(Outstanding)' = doneCh' + Cardinality(InChannel)' + Cardinality(InHand)'
  <2>1. Cardinality(InChannel)' = Cardinality(InChannel) /\ Cardinality(InHand)' = Cardinality(InHand)
    BY <1>3
  <2>2. Cardinality(Outstanding)' = Cardinality(Outstanding) - 1
    BY <1>5, <1>6
  <2> QED BY <1>4, <1>7, <2>1, <2>2
<1> QED BY <1>8 DEF PoolBalanced, InChannel, InHand

\* The loop that leaves has received as many tokens as it sent ranges.
LEMMA WrittenBalance ==
    ASSUME Counts, PoolBalanced, NEW l \in Loop, Written(l)
    PROVE  PoolBalanced'
<1>1. got[l] = sent[l]
  BY DEF Written, At, Counts, CountInv
<1>2. Outstanding' = Outstanding
  BY <1>1 DEF Outstanding, Written, Counts, LoopType, Worker
<1> QED BY <1>2 DEF PoolBalanced, Written, poolVars

LEMMA TakeRangeBalance ==
    ASSUME Counts, PoolBalanced, NEW i \in Worker, TakeRange(i)
    PROVE  PoolBalanced'
<1>1. StartRow(i) # None
  <2>1. StartRow(i) \in 0..Height
    BY Ranges, PanoAssumption DEF Counts, PoolType, TakeRange
  <2> QED BY <2>1, PanoAssumption
<1>2. Outstanding' = Outstanding /\ doneCh' = doneCh /\ doneCh \in Nat
  BY PanoAssumption DEF Outstanding, TakeRange, loopVars, Counts, PoolType
<1>3. InChannel = InChannel' \cup {i} /\ i \notin InChannel'
  BY DEF InChannel, TakeRange, Counts, PoolType
<1>4. InHand' = InHand \cup {i} /\ i \notin InHand
  BY <1>1 DEF InHand, TakeRange, Counts, PoolType
<1>5. IsFiniteSet(InChannel') /\ Cardinality(InChannel') \in Nat
  <2>1. InChannel' \in SUBSET InChannel
    BY <1>3
  <2>2. IsFiniteSet(InChannel')
    BY <2>1, Counted, FS_Subset
  <2> QED BY <2>2, FS_CardinalityType
<1>6. /\ Cardinality(InChannel) = Cardinality(InChannel') + 1
      /\ Cardinality(InHand') = Cardinality(InHand) + 1
  BY <1>3, <1>4, <1>5, Counted, OneMore
<1>7. /\ Cardinality(Outstanding) = doneCh + Cardinality(InChannel) + Cardinality(InHand)
      /\ Cardinality(InHand) \in Nat
  BY Balance, Counted
<1>8. Cardinality(Outstanding)' = doneCh' + Cardinality(InChannel)' + Cardinality(InHand)'
  BY <1>2, <1>5, <1>6, <1>7
<1> QED BY <1>8 DEF PoolBalanced, InChannel, InHand

LEMMA RenderRowBalance ==
    ASSUME Counts, PoolBalanced, NEW i \in Worker, RenderRow(i)
    PROVE  PoolBalanced'
<1>1. InHand' = InHand
  BY RowInFrame DEF InHand, RenderRow, Counts, PoolType
<1>2. Outstanding' = Outstanding
  BY DEF Outstanding, RenderRow, loopVars
<1> QED BY <1>1, <1>2 DEF PoolBalanced, InHand, RenderRow

LEMMA DoneBalance ==
    ASSUME Counts, PoolBalanced, NEW i \in Worker, Done(i)
    PROVE  PoolBalanced'
<1>1. Outstanding' = Outstanding /\ InChannel' = InChannel
  BY DEF Outstanding, InChannel, Done, loopVars
<1>2. doneCh \in Nat /\ doneCh' = doneCh + 1
  BY PanoAssumption DEF Done, Counts, PoolType
<1>3. InHand = InHand' \cup {i} /\ i \notin InHand'
  BY DEF InHand, Done, Counts, PoolType
<1>4. IsFiniteSet(InHand') /\ Cardinality(InHand') \in Nat
  <2>1. InHand' \in SUBSET InHand
    BY <1>3
  <2>2. IsFiniteSet(InHand')
    BY <2>1, Counted, FS_Subset
  <2> QED BY <2>2, FS_CardinalityType
<1>5. Cardinality(InHand) = Cardinality(InHand') + 1
  BY <1>3, <1>4, OneMore
<1>6. Cardinality(Outstanding)' = doneCh' + Cardinality(InChannel)' + Cardinality(InHand)'
  BY <1>1, <1>2, <1>4, <1>5, Counted, Balance
<1> QED BY <1>6 DEF PoolBalanced, InChannel, InHand

\* The other steps move no range and no token.
LEMMA OtherBalance ==
    ASSUME PoolBalanced, UNCHANGED <<workCh, row, doneCh, sent, got>>
    PROVE  PoolBalanced'
BY DEF PoolBalanced, Outstanding

LEMMA NextBalance == Counts /\ PoolBalanced /\ [Next]_vars => PoolBalanced'
<1> SUFFICES ASSUME Counts, PoolBalanced, [Next]_vars PROVE PoolBalanced'
  OBVIOUS
<1>1. ASSUME NEW l \in Loop, Cache(l) \/ Save(l) \/ Restore(l) \/ Draw(l)
      PROVE  PoolBalanced'
  BY <1>1, OtherBalance DEF Cache, Save, Restore, Draw, poolVars
<1>2. ASSUME NEW l \in Loop, NEW p \in Pos, Begin(l, p)
      PROVE  PoolBalanced'
  BY <1>2, OtherBalance DEF Begin, poolVars
<1>3. CASE UNCHANGED vars
  BY <1>3, OtherBalance DEF vars, poolVars, loopVars
<1> QED BY <1>1, <1>2, <1>3, SendBalance, CollectBalance, WrittenBalance,
           TakeRangeBalance, RenderRowBalance, DoneBalance
        DEF Next, Render, WorkerStep

LEMMA InitPoolInv == Init => PoolInv
BY InitCounts, InitBalance DEF PoolInv, Counts

LEMMA NextPoolInv == PoolInv /\ [Next]_vars => PoolInv'
BY NextCounts, NextBalance DEF PoolInv, Counts

LEMMA PoolInvAlways == Spec => []PoolInv
BY InitPoolInv, NextPoolInv, PTL DEF Spec

\* Whoever receives whose completion, what the loops have dispatched and not
\* been told of is in a worker's channel, in its hands, or a token.
THEOREM PoolBalances == Spec => []PoolBalanced
<1>1. PoolInv => PoolBalanced
  BY DEF PoolInv
<1> QED BY <1>1, PoolInvAlways, PTL
----------------------------------------------------------------------------
(***************************************************************************)
(* The picture, step by step.                                              *)
(***************************************************************************)
\* With every loop told of all it has sent, the workers have nothing to do.
LEMMA PoolEmpty ==
    ASSUME PoolInv, \A l \in Loop : pc[l] = "work" => got[l] = sent[l]
    PROVE  \A i \in Worker : ~workCh[i] /\ row[i] = None
<1>1. \A l \in Loop : got[l] = sent[l]
  BY DEF PoolInv, CountInv
<1>2. Outstanding = {}
  <2>1. ASSUME NEW r \in Loop \X Worker, got[r[1]] < r[2], r[2] <= sent[r[1]]
        PROVE  FALSE
    <3>1. r[1] \in Loop /\ r[2] \in Nat
      BY DEF Worker
    <3>2. got[r[1]] = sent[r[1]] /\ sent[r[1]] \in Nat
      BY <1>1, <3>1 DEF PoolInv, LoopType
    <3> QED BY <2>1, <3>1, <3>2
  <2> QED BY <2>1 DEF Outstanding
<1>3. Cardinality(Outstanding) = 0
  BY <1>2, FS_EmptySet
<1>4. PoolBalanced /\ doneCh \in Nat
  BY PanoAssumption DEF PoolInv, PoolType
<1>5. Cardinality(InChannel) = 0 /\ Cardinality(InHand) = 0
  BY <1>3, <1>4, Balance, Counted
<1>6. InChannel = {} /\ InHand = {}
  BY <1>5, Counted, FS_EmptySet
<1> QED BY <1>6 DEF InChannel, InHand

\* Once no loop waits for its ranges, no worker is about to write to the
\* buffer: a loop that has left the pool alone draws the OSD and hands the
\* frame to the encoder undisturbed.
QuietPool ==
    (\A l \in Loop : pc[l] # "work") => \A i \in Worker : ~workCh[i] /\ row[i] = None

THEOREM PoolQuiet == Spec => []QuietPool
<1>1. PoolInv => QuietPool
  BY PoolEmpty DEF QuietPool
<1> QED BY <1>1, PoolInvAlways, PTL

LEMMA Alone ==
    ASSUME SoloIsAlone, NEW m \in Loop, Solo(m)
    PROVE  /\ \A l \in Loop : pc[l] # "idle" => l = m
           /\ Cardinality(Busy) = 1
<1>1. Busy = {m}
  BY DEF SoloIsAlone
<1>2. \A l \in Loop : pc[l] # "idle" => l = m
  BY <1>1 DEF Busy
<1> QED BY <1>1, <1>2, FS_Singleton

\* A step that starts and ends no frame leaves the loops as alone as they were.
LEMMA SameCompany ==
    ASSUME SoloIsAlone, UNCHANGED overlapped,
           \A l \in Loop : pc'[l] = "idle" <=> pc[l] = "idle"
    PROVE  SoloIsAlone' /\ \A m \in Loop : Solo(m)' <=> Solo(m)
<1>1. Busy' = Busy
  BY DEF Busy
<1>2. \A m \in Loop : Solo(m)' <=> Solo(m)
  BY DEF Solo
<1> QED BY <1>1, <1>2 DEF SoloIsAlone

LEMMA InitPicture == Init => PictureInv
BY DEF Init, PictureInv, SoloIsAlone, SoloPicture, CacheGood, Solo

\* A frame that starts while another is under way marks both.
LEMMA BeginPicture ==
    ASSUME PoolInv, PictureInv, NEW l \in Loop, NEW p \in Pos, Begin(l, p)
    PROVE  PictureInv'
<1>1. ASSUME NEW m \in Loop, Solo(m)'
      PROVE  m = l /\ Busy = {} /\ Busy' = {l}
  <2>1. Busy = {}
    BY <1>1 DEF Begin, At, Solo, Busy, PoolInv, LoopType
  <2>2. m = l
    BY <1>1, <2>1 DEF Begin, At, Solo, Busy, PoolInv, LoopType
  <2>3. Busy' = {l}
    BY <2>1 DEF Begin, At, Busy, PoolInv, LoopType
  <2> QED BY <2>1, <2>2, <2>3
<1>2. SoloIsAlone'
  BY <1>1 DEF SoloIsAlone
<1>3. ASSUME Solo(l)'
      PROVE  pc'[l] = "work" => Projecting(l)'
  <2>1. Busy = {}
    BY <1>1, <1>3
  <2>2. \A i \in Worker : ~workCh[i] /\ row[i] = None
    BY <2>1, PoolEmpty DEF Busy
  <2>3. sent[l] = 0
    BY DEF Begin, At, PoolInv, CountInv
  <2>4. pc'[l] = "work" => rp' = pos'[l]
    BY DEF Begin, At, PoolInv, LoopType
  <2>5. UNCHANGED <<workCh, row, sent, buf>>
    BY DEF Begin, poolVars
  <2> QED BY <2>2, <2>3, <2>4, <2>5 DEF Projecting, Worker
<1>4. /\ pc'[l] \in {"work", "restore"}
      /\ pc'[l] = "restore" => cachedPos' = pos'[l]
  BY DEF Begin, At, PoolInv, LoopType
<1>5. SoloPicture'
  BY <1>1, <1>3, <1>4 DEF SoloPicture
<1>6. CacheGood'
  BY DEF PictureInv, CacheGood, Cached, Begin, At, PoolInv, LoopType
<1> QED BY <1>2, <1>5, <1>6 DEF PictureInv

LEMMA SendPicture ==
    ASSUME PoolInv, PictureInv, NEW l \in Loop, Send(l)
    PROVE  PictureInv'
<1>1. SoloIsAlone' /\ \A m \in Loop : Solo(m)' <=> Solo(m)
  BY SameCompany DEF PictureInv, Send, hisVars
<1>2. ASSUME Solo(l)
      PROVE  Projecting(l)'
  <2>0. sent[l] + 1 \in Worker /\ sent[l] \in Nat /\ ~workCh[sent[l] + 1]
    BY PanoAssumption DEF Send, Dispatched, PoolInv, LoopType
  <2>1. Projecting(l)
    BY <1>2 DEF PictureInv, SoloPicture, Send
  <2>2. row[sent[l] + 1] = None
    BY <2>0, <2>1 DEF Projecting
  <2>3. /\ workCh' = [workCh EXCEPT ![sent[l] + 1] = TRUE]
        /\ sent'[l] = sent[l] + 1
        /\ UNCHANGED <<rp, pos, row, buf>>
    BY DEF Send, picVars, PoolInv, LoopType
  <2>4. ASSUME NEW i \in Worker
        PROVE  workCh'[i] = IF i = sent[l] + 1 THEN TRUE ELSE workCh[i]
    BY <2>3, Zenon DEF PoolInv, PoolType
  <2>5. ASSUME NEW i \in Worker, NEW n \in Nat
        PROVE  i <= n + 1 <=> i <= n \/ i = n + 1
    BY DEF Worker
  <2>6. \A i \in Worker : i <= sent'[l] <=> i <= sent[l] \/ i = sent[l] + 1
    BY <2>0, <2>3, <2>5
  <2> DEFINE s == sent[l] + 1
  <2>7. \A i \in Worker : workCh'[i] <=> i = s \/ workCh[i]
    BY <2>4
  <2>8. /\ rp' = pos'[l] /\ pos' = pos /\ row' = row /\ buf' = buf
        /\ row[s] = None
    BY <2>1, <2>2, <2>3 DEF Projecting
  <2>9. \A i \in Worker : workCh'[i] \/ row'[i] # None => i <= sent'[l]
    BY <2>1, <2>6, <2>7, <2>8 DEF Projecting
  <2>10. \A i \in Worker : workCh'[i] => row'[i] = None
    BY <2>1, <2>7, <2>8 DEF Projecting
  <2>11. \A i \in Worker : i <= sent'[l] /\ ~workCh'[i] => i <= sent[l] /\ ~workCh[i]
    BY <2>6, <2>7
  <2> QED BY <2>1, <2>8, <2>9, <2>10, <2>11 DEF Projecting
<1>3. SoloPicture'
  <2>1. ASSUME NEW m \in Loop, Solo(m)'
        PROVE  m = l
    BY <1>1, <2>1, Alone DEF PictureInv, Send
  <2>2. pc'[l] = "work"
    BY DEF Send
  <2> QED BY <1>1, <1>2, <2>1, <2>2 DEF SoloPicture
<1>4. CacheGood'
  BY DEF CacheGood, Send
<1> QED BY <1>1, <1>3, <1>4 DEF PictureInv

LEMMA CollectPicture ==
    ASSUME PoolInv, PictureInv, NEW l \in Loop, Collect(l)
    PROVE  PictureInv'
<1>1. SoloIsAlone' /\ \A m \in Loop : Solo(m)' <=> Solo(m)
  BY SameCompany DEF PictureInv, Collect, hisVars
<1>2. SoloPicture'
  <2>1. ASSUME NEW m \in Loop, Solo(m)'
        PROVE  m = l /\ pc'[l] = "work" /\ Projecting(l)
    BY <1>1, <2>1, Alone DEF PictureInv, SoloPicture, Collect
  <2>2. Projecting(l) => Projecting(l)'
    BY DEF Projecting, Collect, picVars
  <2> QED BY <2>1, <2>2 DEF SoloPicture
<1>3. CacheGood'
  BY DEF CacheGood, Collect
<1> QED BY <1>1, <1>2, <1>3 DEF PictureInv

\* A loop that is alone and has all its completions finds every row rendered.
LEMMA CachePicture ==
    ASSUME PoolInv, PictureInv, NEW l \in Loop, Cache(l)
    PROVE  PictureInv'
<1>0. pc[l] = "work" /\ pc'[l] = "save" /\ \A m \in Loop : m # l => pc'[m] = pc[m]
  BY DEF Cache, At, PoolInv, LoopType
<1>1. SoloIsAlone' /\ \A m \in Loop : Solo(m)' <=> Solo(m)
  BY <1>0, SameCompany DEF PictureInv, Cache
<1>2. ASSUME Solo(l)
      PROVE  Blank(pos[l])
  <2>1. Projecting(l)
    BY <1>0, <1>2 DEF PictureInv, SoloPicture
  <2>2. \A m \in Loop : pc[m] = "work" => got[m] = sent[m]
    BY <1>2, Alone DEF PictureInv, Cache, Collected
  <2>3. \A i \in Worker : ~workCh[i] /\ row[i] = None
    BY <2>2, PoolEmpty
  <2>4. ASSUME NEW i \in Dispatched
        PROVE  i <= sent[l] /\ i \in Worker
    <3>1. i \in Worker /\ i \in Nat /\ sent[l] \in Nat /\ NumWorkers \in Nat
      BY PanoAssumption DEF Dispatched, Worker, PoolInv, LoopType
    <3>2. sent[l] + 1 \notin 1..i
      BY <3>1, Ranges DEF Cache, AllSent
    <3> QED BY <3>1, <3>2
  <2>5. ASSUME NEW y \in Rows
        PROVE  buf[y] = Clean(pos[l])
    BY <2>1, <2>3, <2>4, RowsCovered DEF Projecting
  <2> QED BY <2>5 DEF Blank
<1>3. SoloPicture'
  <2>1. ASSUME NEW m \in Loop, Solo(m)'
        PROVE  m = l /\ Solo(l)
    BY <1>0, <1>1, <2>1, Alone DEF PictureInv
  <2>2. Solo(l) => cachedPos' = pos'[l] /\ Blank(pos[l])' /\ ~tainted'
    BY <1>2 DEF Cache, Blank, Solo
  <2> QED BY <1>0, <2>1, <2>2 DEF SoloPicture, Blank
<1>4. CacheGood'
  BY <1>0 DEF CacheGood
<1> QED BY <1>1, <1>3, <1>4 DEF PictureInv

LEMMA SavePicture ==
    ASSUME PoolInv, PictureInv, NEW l \in Loop, Save(l)
    PROVE  PictureInv'
<1>0. pc[l] = "save" /\ pc'[l] = "draw" /\ \A m \in Loop : m # l => pc'[m] = pc[m]
  BY DEF Save, At, PoolInv, LoopType
<1>1. SoloIsAlone' /\ \A m \in Loop : Solo(m)' <=> Solo(m)
  BY <1>0, SameCompany DEF PictureInv, Save
<1>2. Solo(l) => cachedPos = pos[l] /\ Blank(pos[l])
  BY <1>0 DEF PictureInv, SoloPicture
<1>3. SoloPicture'
  <2>1. ASSUME NEW m \in Loop, Solo(m)'
        PROVE  m = l /\ Solo(l)
    BY <1>0, <1>1, <2>1, Alone DEF PictureInv
  <2>2. Solo(l) => cachedPos' = pos'[l] /\ Blank(pos[l])' /\ pos' = pos
    BY <1>2 DEF Save, Blank
  <2> QED BY <1>0, <2>1, <2>2 DEF SoloPicture, Blank
<1>4. CacheGood'
  <2>1. ~tainted' => Solo(l)
    BY <1>0 DEF Save, Solo, PoolInv, LoopType
  <2>2. OSDRows \subseteq Rows
    BY PanoAssumption DEF OSDRows, Rows
  <2>3. Solo(l) => Cached(cachedPos)'
    BY <1>2, <2>2 DEF Save, Cached, Blank
  <2> QED BY <2>1, <2>3 DEF CacheGood
<1> QED BY <1>1, <1>3, <1>4 DEF PictureInv

\* The restored region and the rows below it are the cached projection.
LEMMA RestorePicture ==
    ASSUME PoolInv, PictureInv, NEW l \in Loop, Restore(l)
    PROVE  PictureInv'
<1>0. pc[l] = "restore" /\ pc'[l] = "draw" /\ \A m \in Loop : m # l => pc'[m] = pc[m]
  BY DEF Restore, At, PoolInv, LoopType
<1>1. SoloIsAlone' /\ \A m \in Loop : Solo(m)' <=> Solo(m)
  BY <1>0, SameCompany DEF PictureInv, Restore, hisVars
<1>2. UNCHANGED <<osdSave, cachedPos, pos, tainted>>
  BY DEF Restore, hisVars
<1>3. buf' = [y \in Rows |-> IF y \in OSDRows THEN osdSave[y] ELSE buf[y]]
  BY DEF Restore
<1>4. ASSUME Solo(l), ~tainted
      PROVE  cachedPos = pos[l] /\ Blank(pos[l])'
  <2>1. cachedPos = pos[l] /\ cachedPos # None
    BY <1>0, <1>4, PanoAssumption DEF PictureInv, SoloPicture, PoolInv, CountInv
  <2>2. \A m \in Loop : pc[m] \notin {"work", "save"}
    BY <1>0, <1>4, Alone DEF PictureInv
  <2>3. Cached(pos[l])
    BY <1>4, <2>1, <2>2 DEF PictureInv, CacheGood
  <2>4. Blank(pos[l])'
    BY <1>2, <1>3, <2>3 DEF Blank, Cached
  <2> QED BY <2>1, <2>4
<1>5. SoloPicture'
  <2>1. ASSUME NEW m \in Loop, Solo(m)'
        PROVE  m = l /\ Solo(l)
    BY <1>0, <1>1, <2>1, Alone DEF PictureInv
  <2> QED BY <1>0, <1>2, <1>4, <2>1 DEF SoloPicture, Blank
<1>6. CacheGood'
  <2>1. CacheGood
    BY DEF PictureInv
  <2>2. (\A m \in Loop : pc'[m] \notin {"work", "save"})
           => \A m \in Loop : pc[m] \notin {"work", "save"}
    BY <1>0
  <2>3. Cached(cachedPos) => Cached(cachedPos)'
    BY <1>2, <1>3 DEF Cached
  <2> QED BY <1>2, <2>1, <2>2, <2>3 DEF CacheGood
<1> QED BY <1>1, <1>5, <1>6 DEF PictureInv

\* The OSD is drawn on a clean region, so it is there once.
LEMMA DrawPicture ==
    ASSUME PoolInv, PictureInv, NEW l \in Loop, Draw(l)
    PROVE  PictureInv'
<1>0. pc[l] = "draw" /\ pc'[l] = "write" /\ \A m \in Loop : m # l => pc'[m] = pc[m]
  BY DEF Draw, At, PoolInv, LoopType
<1>1. SoloIsAlone' /\ \A m \in Loop : Solo(m)' <=> Solo(m)
  BY <1>0, SameCompany DEF PictureInv, Draw, hisVars
<1>2. UNCHANGED <<osdSave, cachedPos, pos, tainted>>
  BY DEF Draw, hisVars
<1>3. buf' = [y \in Rows |->
                 IF y \in OSDRows THEN [buf[y] EXCEPT !.ink = Min({@ + 1, MaxInk})]
                 ELSE buf[y]]
  BY DEF Draw
<1>4. ASSUME NEW y \in Rows, NEW p, buf[y] = Clean(p)
      PROVE  buf'[y] = [img |-> p, ink |-> IF y \in OSDRows THEN 1 ELSE 0]
  <2>1. Min({0 + 1, MaxInk}) = 1
    BY MinOfTwo DEF MaxInk
  <2>2. [Clean(p) EXCEPT !.ink = Min({@ + 1, MaxInk})] = [img |-> p, ink |-> 1]
    BY <2>1 DEF Clean
  <2> QED BY <1>3, <1>4, <2>2 DEF Clean
<1>5. SoloPicture'
  <2>1. ASSUME NEW m \in Loop, Solo(m)'
        PROVE  m = l /\ Solo(l)
    BY <1>0, <1>1, <2>1, Alone DEF PictureInv
  <2>2. Solo(l) /\ ~tainted => Blank(pos[l])
    BY <1>0 DEF PictureInv, SoloPicture
  <2> QED BY <1>0, <1>2, <1>4, <2>1, <2>2 DEF SoloPicture, Blank
<1>6. CacheGood'
  <2>1. CacheGood
    BY DEF PictureInv
  <2>2. (\A m \in Loop : pc'[m] \notin {"work", "save"})
           => \A m \in Loop : pc[m] \notin {"work", "save"}
    BY <1>0
  <2>3. Cached(cachedPos) => Cached(cachedPos)'
    BY <1>2, <1>3 DEF Cached
  <2> QED BY <1>2, <2>1, <2>2, <2>3 DEF CacheGood
<1> QED BY <1>1, <1>5, <1>6 DEF PictureInv

LEMMA WrittenPicture ==
    ASSUME PoolInv, PictureInv, NEW l \in Loop, Written(l)
    PROVE  PictureInv'
<1>0. pc[l] = "write" /\ pc'[l] = "idle" /\ \A m \in Loop : m # l => pc'[m] = pc[m]
  BY DEF Written, At, PoolInv, LoopType
<1>1. ASSUME NEW m \in Loop, Solo(m)'
      PROVE  FALSE
  <2>1. m # l /\ Solo(m)
    BY <1>0, <1>1 DEF Written, Solo, PoolInv, LoopType
  <2> QED BY <1>0, <2>1, Alone DEF PictureInv
<1>2. SoloIsAlone' /\ SoloPicture'
  BY <1>1 DEF SoloIsAlone, SoloPicture
<1>3. CacheGood'
  <2>1. CacheGood /\ UNCHANGED <<tainted, cachedPos, buf, osdSave>>
    BY DEF PictureInv, Written, picVars
  <2>2. (\A m \in Loop : pc'[m] \notin {"work", "save"})
           => \A m \in Loop : pc[m] \notin {"work", "save"}
    BY <1>0
  <2> QED BY <2>1, <2>2 DEF CacheGood, Cached
<1> QED BY <1>2, <1>3 DEF PictureInv

\* A worker with a range works for a loop that waits for it.
LEMMA WorkedFor ==
    ASSUME PoolInv, NEW i \in Worker, workCh[i] \/ row[i] # None
    PROVE  \E l \in Loop : pc[l] = "work"
BY PoolEmpty

LEMMA TakeRangePicture ==
    ASSUME PoolInv, PictureInv, NEW i \in Worker, TakeRange(i)
    PROVE  PictureInv'
<1>1. UNCHANGED <<buf, osdSave, rp, cachedPos, pc, pos, sent, overlapped, tainted>>
  BY DEF TakeRange, picVars, loopVars, hisVars
<1>2. SoloIsAlone' /\ \A m \in Loop : Solo(m)' <=> Solo(m)
  BY <1>1, SameCompany DEF PictureInv
<1>3. /\ workCh[i] /\ ~workCh'[i] /\ row'[i] = StartRow(i)
      /\ \A j \in Worker : j # i => workCh'[j] = workCh[j] /\ row'[j] = row[j]
  BY DEF TakeRange, PoolInv, PoolType
<1>4. StartRow(i) \in 0..Height /\ StartRow(i) # None /\ StartRow(i) \in Nat
  <2>1. StartRow(i) \in 0..Height
    BY Ranges, PanoAssumption, <1>3 DEF PoolInv, PoolType
  <2> QED BY <2>1, PanoAssumption
<1>5. ASSUME NEW m \in Loop, Projecting(m)
      PROVE  Projecting(m)'
  <2>1. ASSUME NEW j \in Worker
        PROVE  /\ workCh'[j] \/ row'[j] # None => j <= sent[m]
               /\ workCh'[j] => row'[j] = None
               /\ row'[j] # None => \A y \in Rows :
                    StartRow(j) <= y /\ y < row'[j] => buf[y] = Clean(pos[m])
               /\ j <= sent[m] /\ ~workCh'[j] /\ row'[j] = None => \A y \in Rows :
                    StartRow(j) <= y /\ y < EndRow(j) => buf[y] = Clean(pos[m])
    <3>1. CASE j = i
      BY <1>3, <1>4, <1>5, <3>1 DEF Projecting, Rows
    <3>2. CASE j # i
      BY <1>3, <1>5, <3>2 DEF Projecting
    <3> QED BY <3>1, <3>2
  <2>2. rp = pos[m]
    BY <1>5 DEF Projecting
  <2> QED BY <1>1, <2>1, <2>2 DEF Projecting
<1>6. SoloPicture'
  BY <1>1, <1>2, <1>5 DEF PictureInv, SoloPicture, Blank
<1>7. CacheGood'
  BY <1>1 DEF PictureInv, CacheGood, Cached
<1> QED BY <1>2, <1>6, <1>7 DEF PictureInv

\* A row that is rendered for a loop that is alone shows its position.
LEMMA RenderRowPicture ==
    ASSUME PoolInv, PictureInv, NEW i \in Worker, RenderRow(i)
    PROVE  PictureInv'
<1>1. UNCHANGED <<osdSave, rp, cachedPos, workCh, pc, pos, sent, overlapped, tainted>>
  BY DEF RenderRow, loopVars, hisVars
<1>2. SoloIsAlone' /\ \A m \in Loop : Solo(m)' <=> Solo(m)
  BY <1>1, SameCompany DEF PictureInv
<1>3. row[i] \in Rows /\ row[i] # None /\ row[i] + 1 # None /\ row[i] \in Nat
  <2>1. row[i] \in Rows /\ row[i] # None /\ row[i] + 1 # None
    BY RowInFrame DEF PoolInv, Counts, RenderRow
  <2> QED BY <2>1 DEF Rows
<1>4. \E l \in Loop : pc[l] = "work"
  BY <1>3, WorkedFor
<1>5. ASSUME NEW m \in Loop, Solo(m)
      PROVE  /\ pc[m] = "work" /\ Projecting(m)
             /\ buf' = [buf EXCEPT ![row[i]] = Clean(pos[m])]
  <2>1. pc[m] = "work" /\ Cardinality(Busy) = 1
    BY <1>4, <1>5, Alone DEF PictureInv
  <2>2. Projecting(m)
    BY <1>5, <2>1 DEF PictureInv, SoloPicture
  <2>3. rp = pos[m]
    BY <2>2 DEF Projecting
  <2> QED BY <2>1, <2>2, <2>3 DEF RenderRow, Clean
<1>6. ASSUME NEW m \in Loop, Solo(m)
      PROVE  Projecting(m)'
  <2>1. \A y \in Rows : buf'[y] = IF y = row[i] THEN Clean(pos[m]) ELSE buf[y]
    BY <1>3, <1>5, <1>6 DEF PoolInv, PicType
  <2>2. /\ row'[i] = row[i] + 1
        /\ \A j \in Worker : j # i => row'[j] = row[j]
    BY DEF RenderRow, PoolInv, PoolType
  <2>3. ASSUME NEW j \in Worker
        PROVE  /\ workCh[j] \/ row'[j] # None => j <= sent[m]
               /\ workCh[j] => row'[j] = None
               /\ row'[j] # None => \A y \in Rows :
                    StartRow(j) <= y /\ y < row'[j] => buf'[y] = Clean(pos[m])
               /\ j <= sent[m] /\ ~workCh[j] /\ row'[j] = None => \A y \in Rows :
                    StartRow(j) <= y /\ y < EndRow(j) => buf'[y] = Clean(pos[m])
    <3>1. CASE j = i
      <4>1. ASSUME NEW y \in Rows, StartRow(i) <= y, y < row[i] + 1
            PROVE  buf'[y] = Clean(pos[m])
        <5>1. y = row[i] \/ y < row[i]
          BY <1>3, <4>1 DEF Rows
        <5> QED BY <1>3, <1>5, <1>6, <2>1, <4>1, <5>1 DEF Projecting
      <4> QED BY <1>3, <1>5, <1>6, <2>2, <3>1, <4>1 DEF Projecting
    <3>2. CASE j # i
      BY <1>5, <1>6, <2>1, <2>2, <3>2 DEF Projecting
    <3> QED BY <3>1, <3>2
  <2>4. rp = pos[m]
    BY <1>5, <1>6 DEF Projecting
  <2> QED BY <1>1, <2>3, <2>4 DEF Projecting
<1>7. SoloPicture'
  BY <1>1, <1>2, <1>5, <1>6 DEF SoloPicture
<1>8. CacheGood'
  BY <1>1, <1>4 DEF CacheGood
<1> QED BY <1>2, <1>7, <1>8 DEF PictureInv

LEMMA DonePicture ==
    ASSUME PoolInv, PictureInv, NEW i \in Worker, Done(i)
    PROVE  PictureInv'
<1>1. UNCHANGED <<buf, osdSave, rp, cachedPos, workCh, pc, pos, sent, overlapped, tainted>>
  BY DEF Done, picVars, loopVars, hisVars
<1>2. SoloIsAlone' /\ \A m \in Loop : Solo(m)' <=> Solo(m)
  BY <1>1, SameCompany DEF PictureInv
<1>3. /\ row'[i] = None /\ \A j \in Worker : j # i => row'[j] = row[j]
      /\ row[i] # None /\ row[i] >= EndRow(i)
  BY DEF Done, PoolInv, PoolType
<1>4. row[i] \in Nat /\ EndRow(i) \in Nat
  BY <1>3, Ranges DEF PoolInv, PoolType
<1>5. ASSUME NEW m \in Loop, Projecting(m)
      PROVE  Projecting(m)'
  <2>1. ASSUME NEW y \in Rows, StartRow(i) <= y, y < EndRow(i)
        PROVE  buf[y] = Clean(pos[m])
    <3>1. y < row[i]
      BY <1>3, <1>4, <2>1 DEF Rows
    <3> QED BY <1>3, <1>5, <2>1, <3>1 DEF Projecting
  <2>2. ASSUME NEW j \in Worker
        PROVE  /\ workCh[j] \/ row'[j] # None => j <= sent[m]
               /\ workCh[j] => row'[j] = None
               /\ row'[j] # None => \A y \in Rows :
                    StartRow(j) <= y /\ y < row'[j] => buf[y] = Clean(pos[m])
               /\ j <= sent[m] /\ ~workCh[j] /\ row'[j] = None => \A y \in Rows :
                    StartRow(j) <= y /\ y < EndRow(j) => buf[y] = Clean(pos[m])
    <3>1. CASE j = i
      BY <1>3, <1>5, <2>1, <3>1 DEF Projecting
    <3>2. CASE j # i
      BY <1>3, <1>5, <3>2 DEF Projecting
    <3> QED BY <3>1, <3>2
  <2>3. rp = pos[m]
    BY <1>5 DEF Projecting
  <2> QED BY <1>1, <2>2, <2>3 DEF Projecting
<1>6. SoloPicture'
  BY <1>1, <1>2, <1>5 DEF PictureInv, SoloPicture, Blank
<1>7. CacheGood'
  BY <1>1 DEF PictureInv, CacheGood, Cached
<1> QED BY <1>2, <1>6, <1>7 DEF PictureInv

LEMMA StutterPicture ==
    ASSUME PictureInv, UNCHANGED vars
    PROVE  PictureInv'
<1>1. UNCHANGED <<buf, osdSave, rp, cachedPos, workCh, row, pc, pos, sent, overlapped, tainted>>
  BY DEF vars, picVars, poolVars, loopVars, hisVars
<1>2. SoloIsAlone' /\ \A m \in Loop : Solo(m)' <=> Solo(m)
  BY <1>1, SameCompany DEF PictureInv
<1>3. SoloPicture'
  BY <1>1, <1>2 DEF PictureInv, SoloPicture, Projecting, Blank
<1>4. CacheGood'
  BY <1>1 DEF PictureInv, CacheGood, Cached
<1> QED BY <1>2, <1>3, <1>4 DEF PictureInv

LEMMA NextPicture == PoolInv /\ PictureInv /\ [Next]_vars => PictureInv'
BY BeginPicture, SendPicture, CollectPicture, CachePicture, SavePicture, RestorePicture,
   DrawPicture, WrittenPicture, TakeRangePicture, RenderRowPicture, DonePicture,
   StutterPicture DEF Next, Render, WorkerStep

LEMMA PictureAlways == Spec => [](PoolInv /\ PictureInv)
BY InitPoolInv, InitPicture, NextPoolInv, NextPicture, PTL DEF Spec

\* A frame that met no other loop's shows its position in every row, with the
\* OSD drawn once, projected or reused.
THEOREM FramesAreWhole == Spec => []FrameWhole
<1>1. PictureInv => FrameWhole
  BY DEF PictureInv, SoloPicture, Solo, FrameWhole
<1> QED BY <1>1, PictureAlways, PTL
=============================================================================
