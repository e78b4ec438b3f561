------------------------------- MODULE AUHub -------------------------------
(***************************************************************************)
(* The access-unit fan-out hub of media/auhub.go.                          *)
(*                                                                         *)
(* Each element of Sub is one *AUSub: the value one call of Subscribe      *)
(* allocates, used by one viewer (an RTSP stream loop or a /ws/video       *)
(* handler) and never again after Unsubscribe.  Everything a hub method    *)
(* does under h.mu is one action.  The lifecycle callbacks run after h.mu  *)
(* is released, so between the decision ("I was the first", "I was the     *)
(* last") and the callback every other goroutine may move; callPC holds    *)
(* that decision.  What the callbacks do is in Pipeline.                   *)
(***************************************************************************)
EXTENDS Naturals, Sequences

CONSTANTS
    Sub,        \* the subscriptions that are ever created
    BufSize,    \* capacity of AUSub.C (8 in both callers)
    GOP,        \* an encoder's frames 1, GOP+1, 2*GOP+1, ... are IDR frames
    None        \* nil

ASSUME HubAssumption ==
    /\ BufSize \in Nat \ {0}
    /\ GOP \in Nat \ {0}
    /\ None \notin Sub

VARIABLES
    subs,        \* h.subs
    chan,        \* chan[s]: the buffered content of s.C
    closed,      \* closed[s]: s.C has been closed
    lastIDR,     \* h.lastIDR
    registered,  \* h.onActive # nil and h.onIdle # nil
    callPC       \* callPC[s]: where the goroutine that owns s is

hubVars == <<subs, chan, closed, lastIDR, registered, callPC>>

\* An access unit: the encoder that made it (named by the subscription whose
\* Subscribe started it, see Pipeline) and its frame number there.
AU == [gen : Sub, seq : Nat \ {0}]

IsIDR(au) == (au.seq - 1) % GOP = 0

CallPC == {"new", "starting", "open", "stopping", "gone"}

HubTypeOK ==
    /\ subs \subseteq Sub
    /\ chan \in [Sub -> Seq(AU)]
    /\ closed \in [Sub -> BOOLEAN]
    /\ lastIDR \in AU \cup {None}
    /\ registered \in BOOLEAN
    /\ callPC \in [Sub -> CallPC]

HubInit ==
    /\ subs = {}
    /\ chan = [s \in Sub |-> <<>>]
    /\ closed = [s \in Sub |-> FALSE]
    /\ lastIDR = None
    /\ registered = FALSE
    /\ callPC = [s \in Sub |-> "new"]
----------------------------------------------------------------------------
SetCallbacks ==
    /\ ~registered
    /\ registered' = TRUE
    /\ UNCHANGED <<subs, chan, closed, lastIDR, callPC>>

\* Subscribe up to its unlock: the caller goes on to onActive only if the
\* hub was empty and the callback was set when it looked.
Subscribe(s) ==
    /\ callPC[s] = "new"
    /\ subs' = subs \cup {s}
    /\ callPC' = [callPC EXCEPT ![s] = IF subs = {} /\ registered
                                       THEN "starting" ELSE "open"]
    /\ UNCHANGED <<chan, closed, lastIDR, registered>>

\* Mutant: emptiness is decided before the delete.
UnsubscribeEarly(s) ==
    /\ callPC[s] = "open"
    /\ subs' = subs \ {s}
    /\ closed' = [closed EXCEPT ![s] = TRUE]
    /\ callPC' = [callPC EXCEPT ![s] = IF subs = {} /\ registered
                                       THEN "stopping" ELSE "gone"]
    /\ UNCHANGED <<chan, lastIDR, registered>>

\* Mutant: the channel is not closed.
UnsubscribeLeavesOpen(s) ==
    /\ callPC[s] = "open"
    /\ subs' = subs \ {s}
    /\ callPC' = [callPC EXCEPT ![s] = IF subs \ {s} = {} /\ registered
                                       THEN "stopping" ELSE "gone"]
    /\ UNCHANGED <<chan, closed, lastIDR, registered>>

\* Unsubscribe up to its unlock.  Both callers unsubscribe once, so s is
\* still in subs (the code tolerates a second call).
Unsubscribe(s) ==
    /\ callPC[s] = "open"
    /\ subs' = subs \ {s}
    /\ closed' = [closed EXCEPT ![s] = TRUE]
    /\ callPC' = [callPC EXCEPT ![s] = IF subs \ {s} = {} /\ registered
                                       THEN "stopping" ELSE "gone"]
    /\ UNCHANGED <<chan, lastIDR, registered>>

\* The callback of s has returned.
CallReturns(s) ==
    /\ callPC' = [callPC EXCEPT ![s] = IF callPC[s] = "starting"
                                       THEN "open" ELSE "gone"]
    /\ UNCHANGED <<subs, chan, closed, lastIDR, registered>>

\* Mutant: the channel holds one more.
HasRoomOneMore(s) == Len(chan[s]) <= BufSize

HasRoom(s) == Len(chan[s]) < BufSize

\* Mutant: only the first keyframe is cached.
BroadcastFirstIDR(au) ==
    /\ lastIDR' = IF IsIDR(au) /\ lastIDR = None THEN au ELSE lastIDR
    /\ chan' = [s \in Sub |-> IF s \in subs /\ HasRoom(s)
                              THEN Append(chan[s], au) ELSE chan[s]]
    /\ UNCHANGED <<subs, closed, registered, callPC>>

\* Mutant: a blocking send.
BroadcastBlocking(au) ==
    /\ \A s \in subs : HasRoom(s)
    /\ lastIDR' = IF IsIDR(au) THEN au ELSE lastIDR
    /\ chan' = [s \in Sub |-> IF s \in subs THEN Append(chan[s], au) ELSE chan[s]]
    /\ UNCHANGED <<subs, closed, registered, callPC>>

\* Broadcast: cache an IDR, then a non-blocking send to every subscriber.
Broadcast(au) ==
    /\ lastIDR' = IF IsIDR(au) THEN au ELSE lastIDR
    /\ chan' = [s \in Sub |-> IF s \in subs /\ HasRoom(s)
                              THEN Append(chan[s], au) ELSE chan[s]]
    /\ UNCHANGED <<subs, closed, registered, callPC>>

\* The viewer takes one access unit; a closed channel still yields what it
\* holds (for au := range src.AccessUnits()).
Receive(s) ==
    /\ callPC[s] \notin {"new", "starting"}
    /\ chan[s] # <<>>
    /\ chan' = [chan EXCEPT ![s] = Tail(@)]
    /\ UNCHANGED <<subs, closed, lastIDR, registered, callPC>>
=============================================================================
