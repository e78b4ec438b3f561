---------------------------- MODULE PanoRenderer ----------------------------
(***************************************************************************)
(* The panorama renderer of renderer/pano.go: Render, its pool of workers, *)
(* the one frame buffer and the cache of the last projection.  main makes  *)
(* one renderer, and every pipeline's render loop uses it: Stop does not   *)
(* join the old loop, so two loops may be in Render, or in WriteFrame with *)
(* the buffer Render returned, at once.                                    *)
(*                                                                         *)
(* A row of the frame is the position it was projected for and the number  *)
(* of times the OSD was drawn on it (DarkenRect halves what it finds, so   *)
(* twice is not once).  The projection itself is floating-point data.      *)
(***************************************************************************)
EXTENDS Naturals, FiniteSets, FiniteSetsExt

CONSTANTS
    Loop,        \* render loops
    Pos,         \* PTZ positions
    NumWorkers,  \* p.numWorkers (runtime.NumCPU)
    Height,      \* rows of the frame
    OSDHeight,   \* rows of the OSD region
    Torn,        \* what two loops at once leave in a row
    None         \* nothing yet

ASSUME PanoAssumption ==
    /\ NumWorkers \in Nat \ {0}
    /\ Height \in Nat \ {0}
    /\ OSDHeight \in 1..Height
    /\ Torn \notin Pos /\ None \notin Pos /\ None \notin 0..Height
    /\ IsFiniteSet(Loop)

VARIABLES
    buf,        \* buf[y]: row y of p.buf
    osdSave,    \* osdSave[y]: row y of p.osdSave
    rp,         \* the position of p.rp and the column products it points to
    cachedPos,  \* p.cachedPos; None: p.hasCache is false
    workCh,     \* workCh[i]: the range is in worker i's channel
    row,        \* row[i]: the next row worker i renders, or None
    doneCh,     \* tokens in p.doneCh
    pc,         \* pc[l]: where loop l is
    pos,        \* pos[l]: the position it renders
    sent,       \* sent[l]: active, the ranges it has dispatched
    got,        \* got[l]: the tokens it has received
    overlapped, \* history: overlapped[l], its frame met another loop's
    tainted     \* history: the cache was filled by such a frame

poolVars == <<workCh, row, doneCh>>
picVars  == <<buf, osdSave, rp, cachedPos>>
loopVars == <<pc, pos, sent, got>>
hisVars  == <<overlapped, tainted>>
vars     == <<picVars, poolVars, loopVars, hisVars>>

Rows    == 0..(Height - 1)
OSDRows == 0..(OSDHeight - 1)
Worker  == 1..NumWorkers
MaxInk  == 2

Row == [img : Pos \cup {Torn, None}, ink : 0..MaxInk]

TypeOK ==
    /\ buf \in [Rows -> Row]
    /\ osdSave \in [OSDRows -> Row]
    /\ rp \in Pos \cup {None}
    /\ cachedPos \in Pos \cup {None}
    /\ workCh \in [Worker -> BOOLEAN]
    /\ row \in [Worker -> 0..Height \cup {None}]
    /\ doneCh \in 0..NumWorkers
    /\ pc \in [Loop -> {"idle", "work", "save", "restore", "draw",
                        "write"}]
    /\ pos \in [Loop -> Pos \cup {None}]
    /\ sent \in [Loop -> 0..NumWorkers]
    /\ got \in [Loop -> 0..NumWorkers]
    /\ overlapped \in [Loop -> BOOLEAN]
    /\ tainted \in BOOLEAN

Init ==
    /\ buf = [y \in Rows |-> [img |-> None, ink |-> 0]]
    /\ osdSave = [y \in OSDRows |-> [img |-> None, ink |-> 0]]
    /\ rp = None /\ cachedPos = None
    /\ workCh = [i \in Worker |-> FALSE]
    /\ row = [i \in Worker |-> None]
    /\ doneCh = 0
    /\ pc = [l \in Loop |-> "idle"]
    /\ pos = [l \in Loop |-> None]
    /\ sent = [l \in Loop |-> 0]
    /\ got = [l \in Loop |-> 0]
    /\ overlapped = [l \in Loop |-> FALSE]
    /\ tainted = FALSE

At(l, from, to) == pc[l] = from /\ pc' = [pc EXCEPT ![l] = to]
----------------------------------------------------------------------------
\* The partition of the rows

RowsPerWorker == (Height + NumWorkers - 1) \div NumWorkers

StartRow(i) == (i - 1) * RowsPerWorker

\* Mutant: the last range is not cut at the height.
EndRowUncut(i) == StartRow(i) + RowsPerWorker

\* One after the last row of worker i.
EndRow(i) == Min({StartRow(i) + RowsPerWorker, Height})

\* The loop breaks at the first worker that has no rows left.
Dispatched == {i \in Worker : \A j \in 1..i : StartRow(j) < EndRow(j)}
----------------------------------------------------------------------------
\* Render, called by loop l

Busy == {l \in Loop : pc[l] # "idle"}

\* The cache decides; a new projection starts with its parameters.
Begin(l, p) ==
    /\ At(l, "idle", IF cachedPos = p THEN "restore" ELSE "work")
    /\ pos' = [pos EXCEPT ![l] = p]
    /\ rp' = IF cachedPos = p THEN rp ELSE p
    /\ overlapped' = IF Busy = {} THEN overlapped
                     ELSE [m \in Loop |-> m = l \/ m \in Busy]
    /\ UNCHANGED <<buf, osdSave, cachedPos, poolVars, sent, got, tainted>>

\* A range goes to the next worker; its channel holds one.
Send(l) ==
    /\ pc[l] = "work"
    /\ sent[l] + 1 \in Dispatched
    /\ ~workCh[sent[l] + 1]
    /\ workCh' = [workCh EXCEPT ![sent[l] + 1] = TRUE]
    /\ sent' = [sent EXCEPT ![l] = @ + 1]
    /\ UNCHANGED <<picVars, row, doneCh, pc, pos, got, hisVars>>

AllSent(l) == sent[l] + 1 \notin Dispatched

\* A completion, of whichever loop's range.
Collect(l) ==
    /\ pc[l] = "work"
    /\ AllSent(l) /\ got[l] < sent[l]
    /\ doneCh > 0
    /\ doneCh' = doneCh - 1
    /\ got' = [got EXCEPT ![l] = @ + 1]
    /\ UNCHANGED <<picVars, workCh, row, pc, pos, sent, hisVars>>

\* Mutant: one completion too few is waited for.
CollectedEarly(l) == got[l] + 1 >= sent[l]

\* Mutant: every worker is waited for, also those without rows.
CollectedFromAll(l) == got[l] = NumWorkers

Collected(l) == got[l] = sent[l]

\* The projection is remembered.
Cache(l) ==
    /\ AllSent(l) /\ Collected(l)
    /\ At(l, "work", "save")
    /\ cachedPos' = pos[l]
    /\ tainted' = overlapped[l]
    /\ UNCHANGED <<buf, osdSave, rp, poolVars, pos, sent, got, overlapped>>

\* saveOSDRegion
Save(l) ==
    /\ At(l, "save", "draw")
    /\ osdSave' = [y \in OSDRows |-> buf[y]]
    /\ tainted' = (tainted \/ overlapped[l])
    /\ UNCHANGED <<buf, rp, cachedPos, poolVars, pos, sent, got, overlapped>>

\* Mutant: the cached frame is reused without restoring the region.
RestoreNothing(l) == At(l, "restore", "draw")
    /\ UNCHANGED <<picVars, poolVars, pos, sent, got, hisVars>>

\* restoreOSDRegion
Restore(l) ==
    /\ At(l, "restore", "draw")
    /\ buf' = [y \in Rows |-> IF y \in OSDRows THEN osdSave[y] ELSE buf[y]]
    /\ UNCHANGED <<osdSave, rp, cachedPos, poolVars, pos, sent, got, hisVars>>

\* DrawOSD; Render returns the buffer.
Draw(l) ==
    /\ At(l, "draw", "write")
    /\ buf' = [y \in Rows |->
                  IF y \in OSDRows THEN [buf[y] EXCEPT !.ink = Min({@ + 1, MaxInk})]
                  ELSE buf[y]]
    /\ UNCHANGED <<osdSave, rp, cachedPos, poolVars, pos, sent, got, hisVars>>

\* WriteFrame has read the buffer; the loop waits for its next tick.
Written(l) ==
    /\ At(l, "write", "idle")
    /\ pos' = [pos EXCEPT ![l] = None]
    /\ sent' = [sent EXCEPT ![l] = 0]
    /\ got' = [got EXCEPT ![l] = 0]
    /\ overlapped' = [overlapped EXCEPT ![l] = FALSE]
    /\ UNCHANGED <<picVars, poolVars, tainted>>
----------------------------------------------------------------------------
\* worker

TakeRange(i) ==
    /\ row[i] = None
    /\ workCh[i]
    /\ workCh' = [workCh EXCEPT ![i] = FALSE]
    /\ row' = [row EXCEPT ![i] = StartRow(i)]
    /\ UNCHANGED <<picVars, doneCh, loopVars, hisVars>>

\* A row of renderRows.  It reads p.rp without a lock: while a second loop is
\* in Render, nothing is known of the row.
RenderRow(i) ==
    /\ row[i] # None /\ row[i] < EndRow(i)
    /\ buf' = [buf EXCEPT ![row[i]] =
                  [img |-> IF Cardinality(Busy) > 1 THEN Torn ELSE rp, ink |-> 0]]
    /\ row' = [row EXCEPT ![i] = @ + 1]
    /\ UNCHANGED <<osdSave, rp, cachedPos, workCh, doneCh, loopVars, hisVars>>

\* doneCh holds one token per worker.
Done(i) ==
    /\ row[i] # None /\ row[i] >= EndRow(i)
    /\ doneCh < NumWorkers
    /\ doneCh' = doneCh + 1
    /\ row' = [row EXCEPT ![i] = None]
    /\ UNCHANGED <<picVars, workCh, loopVars, hisVars>>
----------------------------------------------------------------------------
Render(l) == \/ Send(l) \/ Collect(l) \/ Cache(l) \/ Save(l)
             \/ Restore(l) \/ Draw(l) \/ Written(l)

WorkerStep(i) == TakeRange(i) \/ RenderRow(i) \/ Done(i)

Next ==
    \/ \E l \in Loop : Render(l) \/ \E p \in Pos : Begin(l, p)
    \/ \E i \in Worker : WorkerStep(i)

Spec == Init /\ [][Next]_vars

\* Whoever is in Render goes on, and so do the workers; a channel serves the
\* goroutines that wait for it in their order.
FairSpec ==
    /\ Spec
    /\ \A l \in Loop : SF_vars(Render(l))
    /\ \A i \in Worker : WF_vars(WorkerStep(i))
----------------------------------------------------------------------------
\* The ranges that loops have dispatched and not been told of: loop and rank.
Outstanding == {r \in Loop \X Worker : got[r[1]] < r[2] /\ r[2] <= sent[r[1]]}

\* Ranges and tokens balance, whoever receives whose completion: what the
\* loops have dispatched and not yet been told of is in the pool.  So when no
\* loop is in Render no worker has anything left to write to the buffer.
PoolBalanced ==
    Cardinality(Outstanding) = doneCh + Cardinality({i \in Worker : workCh[i]})
                                      + Cardinality({i \in Worker : row[i] # None})

\* The frame a loop hands to the encoder shows its position in every row,
\* with the OSD drawn once - unless it met another loop's frame, or reuses a
\* projection that did: the cache keeps such a frame for as long as the head
\* does not move.
FrameWhole ==
    \A l \in Loop :
        pc[l] = "write" /\ ~overlapped[l] /\ ~tainted =>
            \A y \in Rows : buf[y] = [img |-> pos[l],
                                      ink |-> IF y \in OSDRows THEN 1 ELSE 0]

\* Every Render returns, also when loops overlap and take each other's
\* completions, and when there are fewer rows than workers.
RenderReturns == \A l \in Loop : pc[l] # "idle" ~> pc[l] = "idle"
=============================================================================
