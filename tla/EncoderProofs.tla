--------------------------- MODULE EncoderProofs ---------------------------
(***************************************************************************)
(* What the run Encoder_faults checks for two processes and one crash,     *)
(* proved for every number of processes and crashes, every pipe and        *)
(* channel size, and also for goroutines whose first statement comes after *)
(* the crash (LateStart): type correctness, one watched process, and no    *)
(* misuse of a channel before the first crash.                             *)
(***************************************************************************)
EXTENDS Encoder, TLAPS

(***************************************************************************)
(* The types, group by group, so that a leaf cites what it needs.          *)
(***************************************************************************)
OSType == /\ proc \in [Proc -> {"none", "alive", "exited"}]
          /\ inp \in [Proc -> 0..InCap]
          /\ out \in [Proc -> 0..OutCap]
          /\ crashes \in 0..MaxCrash

FieldType == /\ cmd \in Proc
             /\ running \in BOOLEAN /\ done \in BOOLEAN
             /\ stopper \in {"idle", "locking", "returned"}

ChanType == /\ chan \in [Chan -> Seq(Proc)]
            /\ closed \in [Chan -> BOOLEAN]
            /\ panicked \in BOOLEAN

WaiterType == waiter \in [Proc -> {"none", "waiting", "check", "spawn",
                                   "publish", "exited"}]

ReaderType == /\ reader \in [Proc -> {"none", "starting", "top", "reading",
                                      "extract", "final", "exited"}]
              /\ defers \in [Proc -> Chan]
              /\ acc \in [Proc -> 0..OutCap]
              /\ dest \in [Proc -> 0..(MaxProc + 1)]

ClientType == /\ writer \in {"ticking", "exited"}
              /\ target \in 0..MaxProc
              /\ consumer \in {"starting", "ranging", "exited"}
              /\ source \in Chan

(***************************************************************************)
(* The chain of restarts.  A living process is waited for, or is being     *)
(* published by the waiter of its predecessor; the waiter that acts knows  *)
(* which channel e.aus is.                                                 *)
(***************************************************************************)
AliveIsWatched ==
    \A p \in Proc : proc[p] = "alive" =>
        \/ waiter[p] = "waiting"
        \/ \E q \in Proc : p = q + 1 /\ waiter[q] = "publish"

PublishInProc == \A p \in Proc : waiter[p] = "publish" => p + 1 \in Proc

ChannelOfWaiter ==
    \A p \in Proc :
        /\ waiter[p] \in {"waiting", "check"} => ausRef = p
        /\ waiter[p] \in {"spawn", "publish"} => ausRef = p + 1

WatchInv == /\ WaiterType
            /\ proc \in [Proc -> {"none", "alive", "exited"}]
            /\ cmd \in Proc
            /\ OneWatcher
            /\ RunningIsWatched
            /\ AliveIsWatched
            /\ PublishInProc

\* A reader is in its send only with something to send.
SendHasUnit ==
    \A p \in Proc :
        /\ reader[p] \in {"none", "starting", "top", "reading"} => dest[p] = 0
        /\ reader[p] = "extract" /\ dest[p] # 0 => acc[p] > 0

\* The reader of a process still to come has not been launched.
LaterReaders ==
    \A p, q \in Proc : Watching(p) /\ q > p => reader[q] = "none"

TypeInv == /\ OSType /\ FieldType /\ ausRef \in Chan /\ ChanType
           /\ WaiterType /\ ReaderType /\ ClientType
           /\ PublishInProc /\ ChannelOfWaiter /\ SendHasUnit
           /\ LaterReaders

(***************************************************************************)
(* Until the first crash there is one process, one reader, one channel,    *)
(* and the reader closes it as the last thing it does.                     *)
(***************************************************************************)
FirstLife ==
    crashes = 0 =>
        /\ ~panicked
        /\ ausRef = 1
        /\ \A p \in Proc \ {1} : reader[p] = "none" /\ waiter[p] = "none"
        /\ waiter[1] \in {"waiting", "check", "exited"}
        /\ proc[1] = "exited" => done
        /\ waiter[1] # "waiting" => proc[1] = "exited"
        /\ stopper # "idle" => done
        /\ defers[1] = 1 /\ dest[1] \in {0, 1}
        /\ closed[1] => reader[1] = "exited"

EncoderInv == WatchInv /\ TypeInv /\ FirstLife
----------------------------------------------------------------------------
(***************************************************************************)
(* One watched process.                                                    *)
(***************************************************************************)

\* The goroutines that neither launch, await nor end a process leave alone
\* what the invariant is about.
LEMMA OthersLeaveWatch ==
    ASSUME NEW p \in Proc, ReaderStep(p) \/ Code(p) \/ Writer \/ Consumer
           \/ StopCloseDone
    PROVE  UNCHANGED <<proc, waiter, cmd, running>>
<1>1. CASE ReaderStep(p)
  BY <1>1 DEF ReaderStep, ReaderStart, ReaderTopDone, ReaderTopGo, ReaderRead,
     ReaderEOF, ReaderSelect, ReaderSend, ReaderSendDone, ReaderEOFPending,
     ReaderFinalSend, ReaderFinalReturns, ReaderReturns, Send, osVars, fieldVars
<1>2. CASE Code(p)
  BY <1>2 DEF Code, fieldVars
<1>3. CASE Writer
  BY <1>3 DEF Writer, WriteFrameLock, WriteFrameWrite, RenderExit, osVars,
     fieldVars
<1>4. CASE Consumer
  BY <1>4 DEF Consumer, ConsumerStart, ConsumerReceive, ConsumerExit, osVars,
     fieldVars
<1>5. CASE StopCloseDone
  BY <1>5 DEF StopCloseDone, osVars
<1> QED BY <1>1, <1>2, <1>3, <1>4, <1>5

\* A process that ends, at its own will or killed, needs no watcher.
LEMMA ExitKeepsWatch ==
    ASSUME WatchInv, NEW p \in Proc,
           proc' = [proc EXCEPT ![p] = "exited"], waiter' = waiter,
           cmd' = cmd, running' => running
    PROVE  WatchInv'
<1>1. WaiterType' /\ OneWatcher' /\ PublishInProc'
  BY DEF WatchInv, WaiterType, OneWatcher, Watching, PublishInProc
<1>2. RunningIsWatched'
  BY DEF WatchInv, RunningIsWatched
<1>3. AliveIsWatched' /\ proc' \in [Proc -> {"none", "alive", "exited"}]
  BY DEF WatchInv, AliveIsWatched
<1> QED BY <1>1, <1>2, <1>3 DEF WatchInv

\* What the waiter of a process does, step by step.
LEMMA WaiterKeepsWatch ==
    ASSUME WatchInv, NEW p \in Proc, Waiter(p)
    PROVE  WatchInv'
<1> USE DEF WatchInv, WaiterType, WaiterAt
<1>1. CASE WaitReturns(p)
  BY <1>1 DEF WaitReturns, OneWatcher, Watching, RunningIsWatched,
     AliveIsWatched, PublishInProc, osVars
<1>2. CASE WaiterSeesDone(p) \/ SpawnFails(p)
  BY <1>2 DEF WaiterSeesDone, SpawnFails, OneWatcher, Watching,
     RunningIsWatched, AliveIsWatched, PublishInProc, osVars, fieldVars
<1>3. CASE FreshChannel(p)
  BY <1>3 DEF FreshChannel, OneWatcher, Watching, RunningIsWatched,
     AliveIsWatched, PublishInProc, osVars, fieldVars
<1>4. CASE Spawn(p)
  <2>1. /\ waiter[p] = "spawn" /\ p + 1 \in Proc
        /\ proc' = [proc EXCEPT ![p + 1] = "alive"]
        /\ waiter' = [waiter EXCEPT ![p] = "publish"]
        /\ UNCHANGED <<cmd, running>>
    BY <1>4, EncoderAssumption DEF Spawn, fieldVars, Proc
  <2>2. \A q \in Proc : proc[q] # "alive"
    BY <2>1 DEF AliveIsWatched, OneWatcher, Watching
  <2>3. AliveIsWatched'
    BY <2>1, <2>2 DEF AliveIsWatched
  <2>4. OneWatcher' /\ PublishInProc'
    BY <2>1 DEF OneWatcher, Watching, PublishInProc
  <2>5. RunningIsWatched'
    BY <2>1 DEF RunningIsWatched
  <2> QED BY <2>1, <2>3, <2>4, <2>5
<1>5. CASE Publish(p)
  <2>1. /\ waiter[p] = "publish" /\ p + 1 \in Proc
        /\ cmd' = p + 1 /\ proc' = proc
        /\ waiter' = [waiter EXCEPT ![p] = "exited", ![p + 1] = "waiting"]
    BY <1>5 DEF Publish, PublishInProc, osVars
  <2>2. \A q \in Proc : q # p => ~Watching(q)
    BY <2>1 DEF OneWatcher, Watching
  <2>3. waiter'[p + 1] = "waiting"
    BY <2>1
  <2>4. \A q \in Proc : q # p + 1 => ~Watching(q)'
    BY <2>1, <2>2 DEF Watching
  <2>5. OneWatcher'
    BY <2>4 DEF OneWatcher
  <2>6. RunningIsWatched'
    BY <2>1, <2>3 DEF RunningIsWatched
  <2>7. \A q \in Proc : proc[q] = "alive" => q = p + 1
    BY <2>1, <2>2 DEF AliveIsWatched, Watching
  <2>8. AliveIsWatched'
    BY <2>1, <2>3, <2>7 DEF AliveIsWatched
  <2>9. PublishInProc'
    BY <2>3, <2>4 DEF PublishInProc, Watching
  <2> QED BY <2>1, <2>5, <2>6, <2>8, <2>9
<1> QED BY <1>1, <1>2, <1>3, <1>4, <1>5 DEF Waiter

LEMMA WatchStep ==
    ASSUME WatchInv, [Next]_vars
    PROVE  WatchInv'
<1>1. ASSUME NEW p \in Proc, Code(p) \/ ReaderStep(p)
      PROVE  WatchInv'
  <2>1. UNCHANGED <<proc, waiter, cmd, running>>
    BY <1>1, OthersLeaveWatch
  <2> QED BY <2>1 DEF WatchInv, WaiterType, OneWatcher, Watching,
             RunningIsWatched, AliveIsWatched, PublishInProc
<1>2. CASE Writer \/ Consumer \/ StopCloseDone
  <2>1. cmd \in Proc
    BY DEF WatchInv
  <2>2. UNCHANGED <<proc, waiter, cmd, running>>
    BY <1>2, <2>1, OthersLeaveWatch
  <2> QED BY <2>2 DEF WatchInv, WaiterType, OneWatcher, Watching,
             RunningIsWatched, AliveIsWatched, PublishInProc
<1>3. ASSUME NEW p \in Proc, Crash(p) PROVE WatchInv'
  BY <1>3, ExitKeepsWatch DEF Crash, fieldVars
<1>4. CASE StopKill
  <2>1. cmd \in Proc
    BY DEF WatchInv
  <2> QED BY <1>4, <2>1, ExitKeepsWatch DEF StopKill
<1>5. ASSUME NEW p \in Proc, Waiter(p) PROVE WatchInv'
  BY <1>5, WaiterKeepsWatch
<1>6. CASE UNCHANGED vars
  BY <1>6 DEF vars, osVars, fieldVars, WatchInv, WaiterType, OneWatcher,
     Watching, RunningIsWatched, AliveIsWatched, PublishInProc
<1> QED BY <1>1, <1>2, <1>3, <1>4, <1>5, <1>6 DEF Next

LEMMA WatchIsEnough ==
    ASSUME WatchInv
    PROVE  OneWatchedProcess
<1>1. OneProcess
  <2> SUFFICES ASSUME NEW p \in Proc, NEW q \in Proc,
                      proc[p] = "alive", proc[q] = "alive"
               PROVE  p = q
    BY DEF OneProcess
  <2>1. \A r, t \in Proc : Watching(r) /\ Watching(t) => r = t
    BY DEF WatchInv, OneWatcher
  <2>2. PICK r \in Proc : \/ r = p /\ waiter[r] = "waiting"
                          \/ p = r + 1 /\ waiter[r] = "publish"
    BY DEF WatchInv, AliveIsWatched
  <2>3. PICK t \in Proc : \/ t = q /\ waiter[t] = "waiting"
                          \/ q = t + 1 /\ waiter[t] = "publish"
    BY DEF WatchInv, AliveIsWatched
  <2>4. r = t
    BY <2>1, <2>2, <2>3 DEF Watching
  <2> QED BY <2>2, <2>3, <2>4
<1> QED BY <1>1 DEF WatchInv, OneWatchedProcess
----------------------------------------------------------------------------
(***************************************************************************)
(* Types.                                                                  *)
(***************************************************************************)

\* e.aus refers to a channel that exists, and so does each waiter's.
LEMMA WaiterKeepsTypes ==
    ASSUME TypeInv, WatchInv, NEW p \in Proc, Waiter(p)
    PROVE  TypeInv'
<1> USE DEF WaiterAt
<1>1. waiter \in [Proc -> {"none", "waiting", "check", "spawn", "publish",
                           "exited"}]
  BY DEF WatchInv, WaiterType
<1>2. WaiterType' /\ PublishInProc'
  <2>1. WatchInv'
    BY WaiterKeepsWatch
  <2> QED BY <2>1 DEF WatchInv
<1>9. Watching(p) /\ \A q \in Proc : q # p => ~Watching(q)
  <2>1. Watching(p)
    BY DEF Waiter, WaitReturns, WaiterSeesDone, FreshChannel, Spawn,
       SpawnFails, Publish, Watching
  <2> QED BY <2>1 DEF WatchInv, OneWatcher
<1>3. ChannelOfWaiter'
  <2>2. CASE WaitReturns(p) \/ WaiterSeesDone(p) \/ SpawnFails(p)
    BY <1>1, <2>2 DEF WaitReturns, WaiterSeesDone, SpawnFails, TypeInv,
       ChannelOfWaiter
  <2>3. CASE FreshChannel(p)
    BY <1>1, <1>9, <2>3 DEF FreshChannel, TypeInv, ChannelOfWaiter, Watching
  <2>4. CASE Spawn(p)
    BY <1>1, <2>4 DEF Spawn, TypeInv, ChannelOfWaiter
  <2>5. CASE Publish(p)
    BY <1>1, <1>9, <2>5 DEF Publish, TypeInv, ChannelOfWaiter, Watching
  <2> QED BY <2>2, <2>3, <2>4, <2>5 DEF Waiter
<1>4. ausRef' \in Chan
  <2>1. CASE FreshChannel(p)
    <3>1. ausRef = p
      BY <2>1 DEF FreshChannel, TypeInv, ChannelOfWaiter
    <3> QED BY <2>1, <3>1, EncoderAssumption DEF FreshChannel, Proc, Chan
  <2>2. CASE ~FreshChannel(p)
    BY <2>2 DEF Waiter, WaitReturns, WaiterSeesDone, Spawn, SpawnFails,
       Publish, TypeInv
  <2> QED BY <2>1, <2>2
<1>5. OSType'
  <2>1. CASE Spawn(p)
    BY <2>1, EncoderAssumption DEF Spawn, TypeInv, OSType, Proc
  <2>2. CASE ~Spawn(p)
    BY <2>2 DEF Waiter, WaitReturns, WaiterSeesDone, FreshChannel, SpawnFails,
       Publish, TypeInv, OSType, osVars
  <2> QED BY <2>1, <2>2
<1>6. FieldType'
  <2>1. CASE Publish(p)
    BY <2>1 DEF Publish, TypeInv, FieldType, PublishInProc
  <2>2. CASE ~Publish(p)
    BY <2>2 DEF Waiter, WaitReturns, WaiterSeesDone, FreshChannel, Spawn,
       SpawnFails, TypeInv, FieldType, fieldVars
  <2> QED BY <2>1, <2>2
<1>7. ReaderType' /\ SendHasUnit' /\ LaterReaders'
  <2>1. CASE Publish(p)
    <3>1. /\ p + 1 \in Proc /\ reader' = [reader EXCEPT ![p + 1] = "starting"]
          /\ waiter' = [waiter EXCEPT ![p] = "exited", ![p + 1] = "waiting"]
          /\ UNCHANGED <<defers, acc, dest>>
      BY <2>1 DEF Publish, TypeInv, PublishInProc
    <3>2. ReaderType'
      BY <3>1 DEF TypeInv, ReaderType
    <3>3. reader[p + 1] = "none"
      BY <1>9, <3>1, EncoderAssumption DEF TypeInv, LaterReaders, Proc
    <3>4. SendHasUnit'
      BY <3>1, <3>3 DEF TypeInv, ReaderType, SendHasUnit
    <3>5. \A r \in Proc : Watching(r)' => r = p + 1
      BY <1>1, <1>9, <3>1 DEF Watching
    <3>6. LaterReaders'
      BY <1>9, <3>1, <3>5, EncoderAssumption
         DEF TypeInv, ReaderType, LaterReaders, Proc
    <3> QED BY <3>2, <3>4, <3>6
  <2>2. CASE ~Publish(p)
    <3>1. UNCHANGED readerVars
      BY <2>2 DEF Waiter, WaitReturns, WaiterSeesDone, FreshChannel, Spawn,
         SpawnFails
    <3>2. ReaderType' /\ SendHasUnit'
      BY <3>1 DEF TypeInv, ReaderType, SendHasUnit, readerVars
    <3>3. \A r \in Proc : Watching(r)' => Watching(r)
      BY <1>1, <1>9, <2>2 DEF Waiter, WaitReturns, WaiterSeesDone, FreshChannel,
         Spawn, SpawnFails, Watching
    <3>4. LaterReaders'
      BY <3>1, <3>3 DEF TypeInv, LaterReaders, readerVars
    <3> QED BY <3>2, <3>4
  <2> QED BY <2>1, <2>2
<1>8. ChanType' /\ ClientType'
  BY DEF Waiter, WaitReturns, WaiterSeesDone, FreshChannel, Spawn, SpawnFails,
     Publish, TypeInv, ChanType, ClientType, chanVars, clientVars
<1> QED BY <1>2, <1>3, <1>4, <1>5, <1>6, <1>7, <1>8 DEF TypeInv

\* A reader touches its own fields, the channels and its stdout.
LEMMA ReaderFrame ==
    ASSUME NEW p \in Proc, ReaderStep(p)
    PROVE  UNCHANGED <<proc, inp, crashes, fieldVars, ausRef, waiter, clientVars>>
BY DEF ReaderStep, ReaderStart, ReaderTopDone, ReaderTopGo, ReaderRead,
   ReaderEOF, ReaderSelect, ReaderSend, ReaderSendDone, ReaderEOFPending,
   ReaderFinalSend, ReaderFinalReturns, ReaderReturns, Send, osVars

\* The steps that return from readNALUs.
LEMMA ReturnKeepsTypes ==
    ASSUME TypeInv, NEW p \in Proc, ReaderReturns(p)
    PROVE  ReaderType' /\ SendHasUnit' /\ ChanType' /\ out' = out
<1>1. ReaderType' /\ SendHasUnit'
  BY DEF TypeInv, ReaderType, SendHasUnit, ReaderReturns
<1>2. ChanType' /\ out' = out
  <2>1. defers[p] \in Chan
    BY DEF TypeInv, ReaderType
  <2> QED BY <2>1 DEF TypeInv, ChanType, ReaderReturns, osVars
<1> QED BY <1>1, <1>2

\* One access unit goes into the channel, or the send panics.
LEMMA SendKeepsTypes ==
    ASSUME TypeInv, NEW p \in Proc, Send(p)
    PROVE  ChanType' /\ out' = out
<1>1. dest[p] \in Chan
  BY EncoderAssumption DEF TypeInv, ReaderType, Send, Chan
<1>2. closed' = closed /\ panicked' \in BOOLEAN
  BY DEF Send, TypeInv, ChanType
<1>3. chan' \in [Chan -> Seq(Proc)]
  <2>1. chan \in [Chan -> Seq(Proc)] /\ chan[dest[p]] \in Seq(Proc)
    BY <1>1 DEF TypeInv, ChanType
  <2>2. Append(chan[dest[p]], p) \in Seq(Proc)
    BY <2>1
  <2> QED BY <1>1, <2>1, <2>2 DEF Send
<1> QED BY <1>2, <1>3 DEF TypeInv, ChanType, Send, osVars

LEMMA ReaderKeepsTypes ==
    ASSUME TypeInv, NEW p \in Proc, ReaderStep(p)
    PROVE  TypeInv'
<1>1. UNCHANGED <<proc, inp, crashes, fieldVars, ausRef, waiter, clientVars>>
  BY ReaderFrame
<1>2. FieldType' /\ ausRef' \in Chan /\ WaiterType' /\ ClientType'
      /\ PublishInProc' /\ ChannelOfWaiter'
  BY <1>1 DEF TypeInv, FieldType, WaiterType, ClientType, PublishInProc,
     ChannelOfWaiter, fieldVars, clientVars
<1>3. ReaderType' /\ SendHasUnit' /\ ChanType' /\ out' \in [Proc -> 0..OutCap]
  <2> USE DEF ReaderAt
  <2>1. CASE ReaderTopDone(p) \/ ReaderEOF(p) \/ ReaderSendDone(p)
             \/ ReaderFinalReturns(p)
    <3>1. ReaderReturns(p)
      BY <2>1 DEF ReaderTopDone, ReaderEOF, ReaderSendDone, ReaderFinalReturns
    <3> QED BY <3>1, ReturnKeepsTypes DEF TypeInv, OSType
  <2>2. CASE ReaderStart(p) \/ ReaderTopGo(p)
    BY <2>2 DEF ReaderStart, ReaderTopGo, TypeInv, OSType, ReaderType,
       SendHasUnit, ChanType, osVars, chanVars
  <2>3. CASE ReaderRead(p)
    BY <2>3, EncoderAssumption DEF ReaderRead, TypeInv, OSType, ReaderType,
       SendHasUnit, ChanType, chanVars
  <2>4. CASE ReaderEOFPending(p)
    BY <2>4, EncoderAssumption DEF ReaderEOFPending, AtEOF, TypeInv, OSType,
       ReaderType, SendHasUnit, ChanType, osVars, chanVars, Chan
  <2>5. CASE ReaderSelect(p)
    <3>1. ChanType' /\ out' \in [Proc -> 0..OutCap]
      BY <2>5 DEF ReaderSelect, TypeInv, OSType, ChanType, osVars, chanVars
    <3>2. /\ reader[p] = "extract" /\ dest[p] = 0
          /\ UNCHANGED <<defers, acc>>
      BY <2>5 DEF ReaderSelect
    <3>3. ausRef \in 0..(MaxProc + 1)
      BY EncoderAssumption DEF TypeInv, Chan
    <3>4. CASE acc[p] > 0
      <4>1. dest' = [dest EXCEPT ![p] = ausRef] /\ UNCHANGED reader
        BY <2>5, <3>4 DEF ReaderSelect
      <4> QED BY <3>1, <3>2, <3>3, <3>4, <4>1
              DEF TypeInv, ReaderType, SendHasUnit
    <3>5. CASE ~(acc[p] > 0)
      <4>1. reader' = [reader EXCEPT ![p] = "top"] /\ UNCHANGED dest
        BY <2>5, <3>5 DEF ReaderSelect
      <4> QED BY <3>1, <3>2, <4>1 DEF TypeInv, ReaderType, SendHasUnit
    <3> QED BY <3>4, <3>5
  <2>6. CASE ReaderSend(p)
    <3>1. Send(p) /\ reader[p] = "extract" /\ acc' = [acc EXCEPT ![p] = @ - 1]
      BY <2>6 DEF ReaderSend
    <3>2. ReaderType' /\ SendHasUnit'
      BY <3>1, EncoderAssumption DEF Send, TypeInv, ReaderType, SendHasUnit
    <3> QED BY <3>1, <3>2, SendKeepsTypes DEF TypeInv, OSType
  <2>7. CASE ReaderFinalSend(p)
    <3>1. Send(p) /\ reader[p] = "final" /\ UNCHANGED acc
      BY <2>7 DEF ReaderFinalSend
    <3>2. ReaderType' /\ SendHasUnit'
      BY <3>1, EncoderAssumption DEF Send, TypeInv, ReaderType, SendHasUnit
    <3> QED BY <3>1, <3>2, SendKeepsTypes DEF TypeInv, OSType
  <2> QED BY <2>1, <2>2, <2>3, <2>4, <2>5, <2>6, <2>7 DEF ReaderStep
<1>4. OSType'
  BY <1>1, <1>3 DEF TypeInv, OSType
<1>5. LaterReaders'
  <2>1. reader[p] # "none" /\ \A q \in Proc \ {p} : reader'[q] = reader[q]
    BY DEF ReaderStep, ReaderStart, ReaderTopDone, ReaderTopGo, ReaderRead,
       ReaderEOF, ReaderSelect, ReaderSend, ReaderSendDone, ReaderEOFPending,
       ReaderFinalSend, ReaderFinalReturns, ReaderReturns, Send, ReaderAt,
       AtEOF, TypeInv, ReaderType
  <2> QED BY <1>1, <2>1 DEF TypeInv, LaterReaders, Watching
<1> QED BY <1>2, <1>3, <1>4, <1>5 DEF TypeInv

\* ffmpeg, Stop, RenderLoop and the broadcast loop.
LEMMA OthersKeepTypes ==
    ASSUME TypeInv, NEW p \in Proc,
           Code(p) \/ Crash(p) \/ StopCloseDone \/ StopKill \/ Writer \/ Consumer
    PROVE  TypeInv'
<1>1. CASE Code(p) \/ Crash(p)
  <2>1. OSType'
    <3>1. CASE Code(p)
      <4>1. /\ inp[p] \in Nat /\ inp[p] - 1 \in 0..InCap
            /\ out[p] + 1 \in 0..OutCap
        BY <3>1, EncoderAssumption DEF Code, TypeInv, OSType
      <4> QED BY <3>1, <4>1 DEF Code, TypeInv, OSType
    <3>2. CASE Crash(p)
      BY <3>2, EncoderAssumption DEF Crash, TypeInv, OSType
    <3> QED BY <1>1, <3>1, <3>2
  <2>2. UNCHANGED <<fieldVars, ausRef, chanVars, waiter, readerVars, clientVars>>
    BY <1>1 DEF Code, Crash
  <2> QED BY <2>1, <2>2 DEF TypeInv, FieldType, ChanType, WaiterType,
             ReaderType, ClientType, PublishInProc, ChannelOfWaiter,
             SendHasUnit, LaterReaders, Watching, fieldVars, chanVars,
             readerVars, clientVars
<1>2. CASE StopCloseDone \/ StopKill
  BY <1>2 DEF StopCloseDone, StopKill, StopAt, TypeInv, OSType, FieldType,
     ChanType, WaiterType, ReaderType, ClientType, PublishInProc, LaterReaders,
     Watching, ChannelOfWaiter, SendHasUnit, osVars, chanVars, readerVars,
     clientVars
<1>3. CASE Writer
  <2>1. OSType' /\ ClientType'
    <3>1. CASE WriteFrameWrite
      <4>1. target \in Proc /\ UNCHANGED <<proc, out, crashes>>
            /\ ClientType'
        BY <3>1, EncoderAssumption
           DEF WriteFrameWrite, TypeInv, ClientType, Proc
      <4>2. \/ UNCHANGED inp
            \/ /\ inp' = [inp EXCEPT ![target] = @ + 1]
               /\ inp[target] < InCap
        BY <3>1 DEF WriteFrameWrite
      <4>3. inp' \in [Proc -> 0..InCap]
        BY <4>1, <4>2, EncoderAssumption DEF TypeInv, OSType
      <4> QED BY <4>1, <4>3 DEF TypeInv, OSType
    <3>2. CASE WriteFrameLock \/ RenderExit
      <4>1. OSType'
        BY <3>2 DEF WriteFrameLock, RenderExit, TypeInv, OSType, osVars
      <4>2. cmd \in 0..MaxProc
        BY EncoderAssumption DEF TypeInv, FieldType, Proc
      <4>3. ClientType'
        BY <3>2, <4>2 DEF WriteFrameLock, RenderExit, TypeInv, ClientType
      <4> QED BY <4>1, <4>3
    <3> QED BY <1>3, <3>1, <3>2 DEF Writer
  <2>2. UNCHANGED <<fieldVars, ausRef, chanVars, waiter, readerVars>>
    BY <1>3 DEF Writer, WriteFrameLock, WriteFrameWrite, RenderExit
  <2> QED BY <2>1, <2>2 DEF TypeInv, FieldType, ChanType, WaiterType,
             ReaderType, PublishInProc, ChannelOfWaiter, SendHasUnit,
             LaterReaders, Watching, fieldVars, chanVars, readerVars
<1>4. CASE Consumer
  <2>1. ChanType'
    <3>1. CASE ConsumerReceive
      <4>1. /\ source \in Chan /\ chan \in [Chan -> Seq(Proc)]
            /\ chan[source] \in Seq(Proc) /\ chan[source] # <<>>
        BY <3>1 DEF ConsumerReceive, TypeInv, ChanType, ClientType
      <4>2. Tail(chan[source]) \in Seq(Proc)
        BY <4>1
      <4> QED BY <3>1, <4>1, <4>2 DEF ConsumerReceive, TypeInv, ChanType
    <3>2. CASE ConsumerStart \/ ConsumerExit
      BY <3>2 DEF ConsumerStart, ConsumerExit, TypeInv, ChanType, chanVars
    <3> QED BY <1>4, <3>1, <3>2 DEF Consumer
  <2>2. ClientType'
    BY <1>4 DEF Consumer, ConsumerStart, ConsumerReceive, ConsumerExit,
       TypeInv, ClientType
  <2>3. OSType' /\ FieldType' /\ ausRef' \in Chan /\ WaiterType'
        /\ ReaderType' /\ PublishInProc' /\ ChannelOfWaiter' /\ SendHasUnit'
        /\ LaterReaders'
    BY <1>4 DEF Consumer, ConsumerStart, ConsumerReceive, ConsumerExit,
       TypeInv, OSType, FieldType, WaiterType, ReaderType, PublishInProc,
       ChannelOfWaiter, SendHasUnit, LaterReaders, Watching, osVars,
       fieldVars, readerVars
  <2> QED BY <2>1, <2>2, <2>3 DEF TypeInv
<1> QED BY <1>1, <1>2, <1>3, <1>4

LEMMA TypeStep ==
    ASSUME TypeInv, WatchInv, [Next]_vars
    PROVE  TypeInv'
<1>1. CASE UNCHANGED vars
  BY <1>1 DEF vars, osVars, fieldVars, chanVars, readerVars, clientVars,
     TypeInv, OSType, FieldType, ChanType, WaiterType, ReaderType, ClientType,
     PublishInProc, ChannelOfWaiter, SendHasUnit, LaterReaders, Watching
<1>2. CASE Next
  <2>1. cmd \in Proc
    BY DEF WatchInv
  <2> QED BY <1>2, <2>1, WaiterKeepsTypes, ReaderKeepsTypes, OthersKeepTypes
          DEF Next
<1> QED BY <1>1, <1>2
----------------------------------------------------------------------------
(***************************************************************************)
(* Until the first crash.                                                  *)
(***************************************************************************)
LEMMA FirstLifeStep ==
    ASSUME FirstLife, TypeInv, [Next]_vars
    PROVE  FirstLife'
<1> SUFFICES ASSUME crashes' = 0
             PROVE  FirstLife'
  BY DEF FirstLife
<1>1. 1 \in Proc /\ 1 \in Chan
  BY EncoderAssumption DEF Proc, Chan
<1>2. crashes = 0 /\ \A p \in Proc : ~Crash(p)
  <2>1. crashes \in Nat
    BY EncoderAssumption DEF TypeInv, OSType
  <2>2. crashes' # crashes + 1
    BY <2>1
  <2>3. \A p \in Proc : ~Crash(p)
    BY <2>2 DEF Crash
  <2>4. crashes' = crashes
    <3>1. CASE UNCHANGED vars
      BY <3>1 DEF vars, osVars
    <3>2. ASSUME NEW p \in Proc, Code(p) \/ Waiter(p) \/ ReaderStep(p)
          PROVE  crashes' = crashes
      BY <3>2, ReaderFrame DEF Code, Waiter, WaitReturns, WaiterSeesDone,
         FreshChannel, Spawn, SpawnFails, Publish, osVars
    <3>3. CASE StopCloseDone \/ StopKill \/ Writer \/ Consumer
      BY <3>3 DEF StopCloseDone, StopKill, Writer, WriteFrameLock,
         WriteFrameWrite, RenderExit, Consumer, ConsumerStart, ConsumerReceive,
         ConsumerExit, osVars
    <3> QED BY <2>3, <3>1, <3>2, <3>3 DEF Next
  <2> QED BY <2>3, <2>4
<1>3. /\ ~panicked /\ ausRef = 1
      /\ \A p \in Proc \ {1} : reader[p] = "none" /\ waiter[p] = "none"
      /\ waiter[1] \in {"waiting", "check", "exited"}
      /\ proc[1] = "exited" => done
      /\ waiter[1] # "waiting" => proc[1] = "exited"
      /\ stopper # "idle" => done
      /\ defers[1] = 1 /\ dest[1] \in {0, 1}
      /\ closed[1] => reader[1] = "exited"
  BY <1>2 DEF FirstLife
<1>4. /\ waiter \in [Proc -> {"none", "waiting", "check", "spawn", "publish",
                              "exited"}]
      /\ proc \in [Proc -> {"none", "alive", "exited"}]
      /\ cmd \in Proc
  BY DEF TypeInv, WaiterType, OSType, FieldType
<1>5. ASSUME NEW p \in Proc, Waiter(p) PROVE FirstLife'
  <2>1. p = 1
    BY <1>3, <1>5 DEF Waiter, WaitReturns, WaiterSeesDone, FreshChannel, Spawn,
       SpawnFails, Publish, WaiterAt
  <2>2. CASE WaitReturns(1)
    BY <1>1, <1>3, <1>4, <2>2 DEF WaitReturns, WaiterAt, FirstLife, osVars,
       chanVars, readerVars
  <2>3. CASE WaiterSeesDone(1)
    BY <1>1, <1>3, <1>4, <2>3 DEF WaiterSeesDone, WaiterAt, FirstLife, osVars,
       chanVars, readerVars, fieldVars
  <2>4. ~FreshChannel(1) /\ ~Spawn(1) /\ ~SpawnFails(1) /\ ~Publish(1)
    BY <1>3 DEF FreshChannel, Spawn, SpawnFails, Publish, WaiterAt
  <2> QED BY <1>5, <2>1, <2>2, <2>3, <2>4 DEF Waiter
<1>6. ASSUME NEW p \in Proc, ReaderStep(p) PROVE FirstLife'
  <2>1. UNCHANGED <<proc, inp, crashes, fieldVars, ausRef, waiter, clientVars>>
    BY <1>6, ReaderFrame
  <2>2. /\ reader \in [Proc -> {"none", "starting", "top", "reading",
                                "extract", "final", "exited"}]
        /\ defers \in [Proc -> Chan]
        /\ dest \in [Proc -> 0..(MaxProc + 1)]
        /\ closed \in [Chan -> BOOLEAN]
    BY DEF TypeInv, ReaderType, ChanType
  <2>3. p = 1 /\ reader[1] # "exited" /\ ~closed[1]
    BY <1>3, <1>6, <1>1, <2>2 DEF ReaderStep, ReaderStart, ReaderTopDone,
       ReaderTopGo, ReaderRead, ReaderEOF, ReaderSelect, ReaderSend,
       ReaderSendDone, ReaderEOFPending, ReaderFinalSend, ReaderFinalReturns,
       ReaderAt, AtEOF
  <2>4. /\ panicked' = FALSE
        /\ \A q \in Proc \ {1} : reader'[q] = "none"
        /\ defers'[1] = 1 /\ dest'[1] \in {0, 1}
        /\ closed'[1] => reader'[1] = "exited"
    <3>1. CASE ReaderReturns(1)
      BY <1>1, <1>3, <2>2, <2>3, <3>1 DEF ReaderReturns
    <3>2. CASE ReaderStart(1) \/ ReaderTopGo(1) \/ ReaderRead(1)
      BY <1>1, <1>3, <2>2, <2>3, <3>2 DEF ReaderStart, ReaderTopGo, ReaderRead,
         chanVars
    <3>3. CASE ReaderSelect(1) \/ ReaderEOFPending(1)
      BY <1>1, <1>3, <2>2, <2>3, <3>3 DEF ReaderSelect, ReaderEOFPending,
         chanVars
    <3>4. CASE Send(1)
      BY <1>1, <1>3, <2>2, <2>3, <3>4 DEF Send
    <3> QED BY <1>6, <2>3, <3>1, <3>2, <3>3, <3>4 DEF ReaderStep, ReaderTopDone,
            ReaderEOF, ReaderSend, ReaderSendDone, ReaderFinalSend,
            ReaderFinalReturns
  <2> QED BY <1>3, <2>1, <2>4 DEF FirstLife, fieldVars
<1>7. CASE StopCloseDone \/ StopKill
  BY <1>1, <1>3, <1>4, <1>7 DEF StopCloseDone, StopKill, StopAt, FirstLife,
     osVars, chanVars, readerVars
<1>8. ASSUME NEW p \in Proc, Code(p) \/ Writer \/ Consumer \/ UNCHANGED vars
      PROVE  FirstLife'
  <2>1. UNCHANGED <<proc, done, stopper, ausRef, panicked, closed, waiter,
                    reader, defers, dest>>
    BY <1>8 DEF Code, Writer, WriteFrameLock, WriteFrameWrite, RenderExit,
       Consumer, ConsumerStart, ConsumerReceive, ConsumerExit, vars, osVars,
       fieldVars, chanVars, readerVars
  <2> QED BY <1>3, <2>1 DEF FirstLife
<1> QED BY <1>1, <1>2, <1>5, <1>6, <1>7, <1>8 DEF Next
----------------------------------------------------------------------------
LEMMA EncoderInit ==
    ASSUME Init
    PROVE  EncoderInv
<1>1. 1 \in Proc /\ 1 \in Chan /\ 0 \in 0..InCap /\ 0 \in 0..OutCap
      /\ 0 \in 0..MaxCrash /\ 0 \in 0..MaxProc /\ 0 \in 0..(MaxProc + 1)
      /\ <<>> \in Seq(Proc)
  BY EncoderAssumption DEF Proc, Chan
<1>2. WatchInv
  BY <1>1 DEF Init, WatchInv, WaiterType, OneWatcher, Watching,
     RunningIsWatched, AliveIsWatched, PublishInProc
<1>3. OSType /\ FieldType /\ ausRef \in Chan /\ WaiterType
  BY <1>1 DEF Init, OSType, FieldType, WaiterType
<1>4. ChanType /\ ReaderType /\ ClientType
  BY <1>1 DEF Init, ChanType, ReaderType, ClientType
<1>5. PublishInProc /\ ChannelOfWaiter /\ SendHasUnit
  BY <1>1 DEF Init, PublishInProc, ChannelOfWaiter, SendHasUnit
<1>6. LaterReaders
  BY <1>1, EncoderAssumption DEF Init, LaterReaders, Watching, Proc
<1>7. FirstLife
  BY <1>1 DEF Init, FirstLife
<1> QED BY <1>2, <1>3, <1>4, <1>5, <1>6, <1>7 DEF EncoderInv, TypeInv

\* Every reachable state, whatever crashes and restarts Stop races with.
LEMMA EncoderInvariant == Spec => []EncoderInv
<1>1. EncoderInv /\ [Next]_vars => EncoderInv'
  BY WatchStep, TypeStep, FirstLifeStep DEF EncoderInv
<1> QED BY <1>1, EncoderInit, PTL DEF Spec

\* Every variable keeps its type, e.aus refers to a channel that exists and a
\* reader never counts below zero.
THEOREM EncoderTypes == Spec => []TypeOK
<1>1. EncoderInv => TypeOK
  BY DEF EncoderInv, TypeInv, OSType, FieldType, ChanType, WaiterType,
     ReaderType, ClientType, TypeOK
<1> QED BY <1>1, EncoderInvariant, PTL

\* encoder.go:9 "Single FFmpeg process": for any number of crashes, restarts
\* that fail or succeed, and any moment of Stop, at most one process lives, one
\* goroutine has its exit to answer, and while e.running is set it waits.
THEOREM SingleProcess == Spec => []OneWatchedProcess
<1>1. EncoderInv => OneWatchedProcess
  BY WatchIsEnough DEF EncoderInv
<1> QED BY <1>1, EncoderInvariant, PTL

\* Without a crash no goroutine sends on or closes a closed channel.
THEOREM NoPanicBeforeCrash == Spec => []NoPanic
<1>1. EncoderInv => NoPanic
  BY DEF EncoderInv, FirstLife, NoPanic
<1> QED BY <1>1, EncoderInvariant, PTL
=============================================================================
