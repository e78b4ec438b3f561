------------------------------ MODULE Encoder ------------------------------
(***************************************************************************)
(* One Encoder of renderer/encoder.go together with the goroutines that    *)
(* use it: RenderLoop, which writes frames, and the broadcast loop of      *)
(* media/pipeline.go, which ranges over AccessUnits().                     *)
(*                                                                         *)
(* startProcess is called once by NewEncoder and again by waitAndRestart   *)
(* whenever ffmpeg exits before Stop.  Call number p makes ffmpeg process  *)
(* p, its readNALUs goroutine and its waitAndRestart goroutine.  The       *)
(* restart replaces e.aus without a lock while readNALUs of the old        *)
(* process may still be sending and the broadcast loop still ranges over   *)
(* the channel it evaluated once; channel c is the c-th value of e.aus.    *)
(*                                                                         *)
(* Access units carry only the process that coded them; the bytes of a     *)
(* frame and of a NAL unit are abstracted away.                            *)
(***************************************************************************)
EXTENDS Naturals, Sequences

CONSTANTS
    MaxProc,    \* bound: calls of startProcess that reach exec
    MaxCrash,   \* bound: unexpected exits of ffmpeg
    AUCap,      \* capacity of e.aus (2)
    InCap,      \* frames held by a stdin pipe and ffmpeg
    OutCap,     \* access units held by a stdout pipe
    SpawnMayFail, \* whether cmd.Start may fail on a restart
    LateStart   \* whether ffmpeg may exit before the goroutines launched to
                \* serve it have executed their first statement

ASSUME EncoderAssumption ==
    /\ MaxProc \in Nat \ {0}
    /\ MaxCrash \in Nat
    /\ AUCap \in Nat \ {0}
    /\ InCap \in Nat \ {0}
    /\ OutCap \in Nat \ {0}
    /\ SpawnMayFail \in BOOLEAN
    /\ LateStart \in BOOLEAN

Proc == 1..MaxProc
Chan == 1..(MaxProc + 1)

VARIABLES
    proc,      \* proc[p]: "none" | "alive" | "exited"
    inp,       \* inp[p]: frames written to p and not yet coded
    out,       \* out[p]: access units p has written to its stdout pipe
    crashes,   \* unexpected exits so far
    cmd,       \* e.cmd and e.stdin, set together under e.mu
    running,   \* e.running
    done,      \* e.done is closed
    stopper,   \* Stop: "idle" | "locking" | "returned"
    ausRef,    \* e.aus: the channel it currently refers to
    chan,      \* chan[c]: content
    closed,    \* closed[c]
    panicked,  \* a send on, or a close of, a closed channel
    waiter,    \* waitAndRestart of p
    reader,    \* readNALUs of p
    defers,    \* defers[p]: the channel p's deferred close will close
    acc,       \* acc[p]: access units read and not yet sent
    dest,      \* dest[p]: the channel p's select is sending on, 0 outside it
    writer,    \* RenderLoop: "ticking" | "exited"
    target,    \* whose stdin WriteFrame is writing to, 0 outside the write
    consumer,  \* broadcast loop: "starting" | "ranging" | "exited"
    source     \* the channel it ranges over

osVars     == <<proc, inp, out, crashes>>
fieldVars  == <<cmd, running, done, stopper>>
chanVars   == <<chan, closed, panicked>>
readerVars == <<reader, defers, acc, dest>>
clientVars == <<writer, target, consumer, source>>
vars == <<osVars, fieldVars, ausRef, chanVars, waiter, readerVars, clientVars>>

TypeOK ==
    /\ proc \in [Proc -> {"none", "alive", "exited"}]
    /\ inp \in [Proc -> 0..InCap]
    /\ out \in [Proc -> 0..OutCap]
    /\ crashes \in 0..MaxCrash
    /\ cmd \in Proc
    /\ running \in BOOLEAN /\ done \in BOOLEAN
    /\ stopper \in {"idle", "locking", "returned"}
    /\ ausRef \in Chan
    /\ chan \in [Chan -> Seq(Proc)]
    /\ closed \in [Chan -> BOOLEAN]
    /\ panicked \in BOOLEAN
    /\ waiter \in [Proc -> {"none", "waiting", "check", "spawn", "publish",
                            "exited"}]
    /\ reader \in [Proc -> {"none", "starting", "top", "reading", "extract",
                            "final", "exited"}]
    /\ defers \in [Proc -> Chan]
    /\ acc \in [Proc -> 0..OutCap]
    /\ dest \in [Proc -> 0..(MaxProc + 1)]
    /\ writer \in {"ticking", "exited"}
    /\ target \in 0..MaxProc
    /\ consumer \in {"starting", "ranging", "exited"}
    /\ source \in Chan

\* NewEncoder has returned: its startProcess launched process 1.
Init ==
    /\ proc = [p \in Proc |-> IF p = 1 THEN "alive" ELSE "none"]
    /\ inp = [p \in Proc |-> 0]
    /\ out = [p \in Proc |-> 0]
    /\ crashes = 0
    /\ cmd = 1
    /\ running = TRUE
    /\ done = FALSE
    /\ stopper = "idle"
    /\ ausRef = 1
    /\ chan = [c \in Chan |-> <<>>]
    /\ closed = [c \in Chan |-> FALSE]
    /\ panicked = FALSE
    /\ waiter = [p \in Proc |-> IF p = 1 THEN "waiting" ELSE "none"]
    /\ reader = [p \in Proc |-> IF p = 1 THEN "starting" ELSE "none"]
    /\ defers = [p \in Proc |-> 1]
    /\ acc = [p \in Proc |-> 0]
    /\ dest = [p \in Proc |-> 0]
    /\ writer = "ticking"
    /\ target = 0
    /\ consumer = "starting"
    /\ source = 1
----------------------------------------------------------------------------
\* A panic ends the program: nothing moves after it.
Alive(p) == ~panicked /\ proc[p] = "alive"
WaiterAt(p, pc) == ~panicked /\ waiter[p] = pc
ReaderAt(p, pc) == ~panicked /\ reader[p] = pc
StopAt(pc) == ~panicked /\ stopper = pc
ConsumerAt(pc) == ~panicked /\ consumer = pc
----------------------------------------------------------------------------
\* ffmpeg (external)

\* One frame in, one access unit out: zerolatency, no B-frames.
Code(p) ==
    /\ Alive(p)
    /\ inp[p] > 0
    /\ out[p] < OutCap
    /\ inp' = [inp EXCEPT ![p] = @ - 1]
    /\ out' = [out EXCEPT ![p] = @ + 1]
    /\ UNCHANGED <<proc, crashes, fieldVars, ausRef, chanVars, waiter,
                   readerVars, clientVars>>

Crash(p) ==
    /\ Alive(p)
    /\ crashes < MaxCrash
    /\ ~LateStart => reader[p] # "starting" /\ consumer # "starting"
    /\ proc' = [proc EXCEPT ![p] = "exited"]
    /\ crashes' = crashes + 1
    /\ UNCHANGED <<inp, out, fieldVars, ausRef, chanVars, waiter, readerVars,
                   clientVars>>
----------------------------------------------------------------------------
\* waitAndRestart of process p

\* Mutant: the exit of the process is not awaited.
WaitSkipped(p) ==
    /\ WaiterAt(p, "waiting")
    /\ running' = FALSE
    /\ waiter' = [waiter EXCEPT ![p] = "check"]
    /\ UNCHANGED <<osVars, cmd, done, stopper, ausRef, chanVars, readerVars,
                   clientVars>>

\* cmd.Wait returns and closes the stdout pipe; e.running = false.
WaitReturns(p) ==
    /\ WaiterAt(p, "waiting")
    /\ proc[p] = "exited"
    /\ running' = FALSE
    /\ waiter' = [waiter EXCEPT ![p] = "check"]
    /\ UNCHANGED <<osVars, cmd, done, stopper, ausRef, chanVars, readerVars,
                   clientVars>>

WaiterSeesDone(p) ==
    /\ WaiterAt(p, "check")
    /\ done
    /\ waiter' = [waiter EXCEPT ![p] = "exited"]
    /\ UNCHANGED <<osVars, fieldVars, ausRef, chanVars, readerVars, clientVars>>

\* Mutant: done is not looked at.
FreshChannelAlways(p) ==
    /\ WaiterAt(p, "check")
    /\ ausRef' = ausRef + 1
    /\ waiter' = [waiter EXCEPT ![p] = "spawn"]
    /\ UNCHANGED <<osVars, fieldVars, chanVars, readerVars, clientVars>>

\* Mutant: e.running taken for "not stopped".
FreshChannelIfRunning(p) ==
    /\ WaiterAt(p, "check")
    /\ running
    /\ ausRef' = ausRef + 1
    /\ waiter' = [waiter EXCEPT ![p] = "spawn"]
    /\ UNCHANGED <<osVars, fieldVars, chanVars, readerVars, clientVars>>

\* Not stopped: a fresh AU channel replaces e.aus.
FreshChannel(p) ==
    /\ WaiterAt(p, "check")
    /\ ~done
    /\ ausRef' = ausRef + 1
    /\ waiter' = [waiter EXCEPT ![p] = "spawn"]
    /\ UNCHANGED <<osVars, fieldVars, chanVars, readerVars, clientVars>>

\* cmd.Start in startProcess.
Spawn(p) ==
    /\ WaiterAt(p, "spawn")
    /\ p < MaxProc
    /\ proc' = [proc EXCEPT ![p + 1] = "alive"]
    /\ waiter' = [waiter EXCEPT ![p] = "publish"]
    /\ UNCHANGED <<inp, out, crashes, fieldVars, ausRef, chanVars, readerVars,
                   clientVars>>

\* cmd.Start fails: logged, never tried again.
SpawnFails(p) ==
    /\ WaiterAt(p, "spawn")
    /\ ~SpawnMayFail => p = MaxProc
    /\ waiter' = [waiter EXCEPT ![p] = "exited"]
    /\ UNCHANGED <<osVars, fieldVars, ausRef, chanVars, readerVars, clientVars>>

\* e.cmd, e.stdin, e.running under e.mu, then the go statements.
Publish(p) ==
    /\ WaiterAt(p, "publish")
    /\ cmd' = p + 1
    /\ running' = TRUE
    /\ reader' = [reader EXCEPT ![p + 1] = "starting"]
    /\ waiter' = [waiter EXCEPT ![p] = "exited", ![p + 1] = "waiting"]
    /\ UNCHANGED <<osVars, done, stopper, ausRef, chanVars, defers, acc, dest,
                   clientVars>>
----------------------------------------------------------------------------
\* Stop

\* Mutant: Stop closes e.aus as well.
StopClosesAUs ==
    /\ StopAt("idle")
    /\ done' = TRUE
    /\ closed' = [closed EXCEPT ![ausRef] = TRUE]
    /\ stopper' = "locking"
    /\ UNCHANGED <<osVars, cmd, running, ausRef, chan, panicked, waiter,
                   readerVars, clientVars>>

\* Pipeline.Stop closes p.done, Encoder.Stop closes e.done.
StopCloseDone ==
    /\ StopAt("idle")
    /\ done' = TRUE
    /\ stopper' = "locking"
    /\ UNCHANGED <<osVars, cmd, running, ausRef, chanVars, waiter, readerVars,
                   clientVars>>

\* Under e.mu: close stdin, kill the process e.cmd refers to.
StopKill ==
    /\ StopAt("locking")
    /\ proc' = [proc EXCEPT ![cmd] = "exited"]
    /\ running' = FALSE
    /\ stopper' = "returned"
    /\ UNCHANGED <<inp, out, crashes, cmd, done, ausRef, chanVars, waiter,
                   readerVars, clientVars>>
----------------------------------------------------------------------------
\* readNALUs of process p

\* defer close(e.aus) evaluates e.aus now.
ReaderStart(p) ==
    /\ ReaderAt(p, "starting")
    /\ defers' = [defers EXCEPT ![p] = ausRef]
    /\ reader' = [reader EXCEPT ![p] = "top"]
    /\ UNCHANGED <<osVars, fieldVars, ausRef, chanVars, waiter, acc, dest,
                   clientVars>>

\* The deferred close, on every return of readNALUs.
ReaderReturns(p) ==
    /\ closed' = [closed EXCEPT ![defers[p]] = TRUE]
    /\ panicked' = (panicked \/ closed[defers[p]])
    /\ reader' = [reader EXCEPT ![p] = "exited"]
    /\ UNCHANGED <<osVars, fieldVars, ausRef, chan, waiter, defers, acc, dest,
                   clientVars>>

ReaderTopDone(p) == ReaderAt(p, "top") /\ done /\ ReaderReturns(p)

ReaderTopGo(p) ==
    /\ ReaderAt(p, "top")
    /\ ~done
    /\ reader' = [reader EXCEPT ![p] = "reading"]
    /\ UNCHANGED <<osVars, fieldVars, ausRef, chanVars, waiter, defers, acc,
                   dest, clientVars>>

\* cmd.Wait closes the read end, whether or not everything has been read.
StdoutOpen(p) == waiter[p] = "waiting"

ReaderRead(p) ==
    /\ ReaderAt(p, "reading")
    /\ StdoutOpen(p)
    /\ \E n \in 1..out[p] :
          /\ acc' = [acc EXCEPT ![p] = n]
          /\ out' = [out EXCEPT ![p] = @ - n]
    /\ reader' = [reader EXCEPT ![p] = "extract"]
    /\ UNCHANGED <<proc, inp, crashes, fieldVars, ausRef, chanVars, waiter,
                   defers, dest, clientVars>>

AtEOF(p) ==
    /\ ReaderAt(p, "reading")
    /\ \/ proc[p] = "exited" /\ out[p] = 0
       \/ ~StdoutOpen(p)

ReaderEOF(p) == AtEOF(p) /\ ReaderReturns(p)

\* Parameter sets whose picture never came are sent before returning.
ReaderEOFPending(p) ==
    /\ AtEOF(p)
    /\ reader' = [reader EXCEPT ![p] = "final"]
    /\ dest' = [dest EXCEPT ![p] = ausRef]
    /\ UNCHANGED <<osVars, fieldVars, ausRef, chanVars, waiter, defers, acc,
                   clientVars>>

\* Mutant: one access unit too many is extracted.
ReaderSelectOneMore(p) ==
    /\ ReaderAt(p, "extract")
    /\ dest[p] = 0
    /\ IF acc[p] >= 0
       THEN dest' = [dest EXCEPT ![p] = ausRef] /\ UNCHANGED reader
       ELSE reader' = [reader EXCEPT ![p] = "top"] /\ UNCHANGED dest
    /\ UNCHANGED <<osVars, fieldVars, ausRef, chanVars, waiter, defers, acc,
                   clientVars>>

\* The send case of the select evaluates e.aus once, on entry.
ReaderSelect(p) ==
    /\ ReaderAt(p, "extract")
    /\ dest[p] = 0
    /\ IF acc[p] > 0
       THEN dest' = [dest EXCEPT ![p] = ausRef] /\ UNCHANGED reader
       ELSE reader' = [reader EXCEPT ![p] = "top"] /\ UNCHANGED dest
    /\ UNCHANGED <<osVars, fieldVars, ausRef, chanVars, waiter, defers, acc,
                   clientVars>>

Send(p) ==
    /\ dest[p] # 0
    /\ \/ closed[dest[p]] /\ panicked' = TRUE /\ UNCHANGED chan
       \/ /\ ~closed[dest[p]] /\ Len(chan[dest[p]]) < AUCap
          /\ chan' = [chan EXCEPT ![dest[p]] = Append(@, p)]
          /\ UNCHANGED panicked
    /\ dest' = [dest EXCEPT ![p] = 0]
    /\ UNCHANGED <<osVars, fieldVars, ausRef, closed, waiter, reader, defers,
                   clientVars>>

ReaderSend(p) ==
    /\ ReaderAt(p, "extract")
    /\ Send(p)
    /\ acc' = [acc EXCEPT ![p] = @ - 1]

ReaderSendDone(p) ==
    /\ ReaderAt(p, "extract")
    /\ dest[p] # 0
    /\ done
    /\ ReaderReturns(p)

ReaderFinalSend(p) == ReaderAt(p, "final") /\ Send(p) /\ UNCHANGED acc

ReaderFinalReturns(p) ==
    /\ ReaderAt(p, "final")
    /\ dest[p] = 0 \/ done
    /\ ReaderReturns(p)
----------------------------------------------------------------------------
\* RenderLoop and WriteFrame

WriterTicking == ~panicked /\ writer = "ticking" /\ target = 0

WriteFrameLock ==
    /\ WriterTicking
    /\ running
    /\ target' = cmd
    /\ UNCHANGED <<osVars, fieldVars, ausRef, chanVars, waiter, readerVars,
                   writer, consumer, source>>

\* stdin.Write completes, or fails because the process is gone.
WriteFrameWrite ==
    /\ ~panicked
    /\ target # 0
    /\ \/ /\ proc[target] = "alive" /\ inp[target] < InCap
          /\ inp' = [inp EXCEPT ![target] = @ + 1]
       \/ proc[target] = "exited" /\ UNCHANGED inp
    /\ target' = 0
    /\ UNCHANGED <<proc, out, crashes, fieldVars, ausRef, chanVars, waiter,
                   readerVars, writer, consumer, source>>

RenderExit ==
    /\ WriterTicking
    /\ done
    /\ writer' = "exited"
    /\ UNCHANGED <<osVars, fieldVars, ausRef, chanVars, waiter, readerVars,
                   target, consumer, source>>
----------------------------------------------------------------------------
\* The broadcast loop of Pipeline.Start

\* range evaluates encoder.AccessUnits() once, when the goroutine first runs.
ConsumerStart ==
    /\ ConsumerAt("starting")
    /\ source' = ausRef
    /\ consumer' = "ranging"
    /\ UNCHANGED <<osVars, fieldVars, ausRef, chanVars, waiter, readerVars,
                   writer, target>>

ConsumerReceive ==
    /\ ConsumerAt("ranging")
    /\ chan[source] # <<>>
    /\ chan' = [chan EXCEPT ![source] = Tail(@)]
    /\ UNCHANGED <<osVars, fieldVars, ausRef, closed, panicked, waiter,
                   readerVars, writer, target, consumer, source>>

ConsumerExit ==
    /\ ConsumerAt("ranging")
    /\ chan[source] = <<>>
    /\ closed[source]
    /\ consumer' = "exited"
    /\ UNCHANGED <<osVars, fieldVars, ausRef, chanVars, waiter, readerVars,
                   writer, target, source>>
----------------------------------------------------------------------------
Waiter(p) == \/ WaitReturns(p) \/ WaiterSeesDone(p) \/ FreshChannel(p)
             \/ Spawn(p) \/ SpawnFails(p) \/ Publish(p)

ReaderStep(p) == \/ ReaderStart(p) \/ ReaderTopDone(p) \/ ReaderTopGo(p)
                 \/ ReaderRead(p) \/ ReaderEOF(p) \/ ReaderSelect(p)
                 \/ ReaderSend(p) \/ ReaderSendDone(p)
                 \/ ReaderEOFPending(p) \/ ReaderFinalSend(p)
                 \/ ReaderFinalReturns(p)

Writer == WriteFrameLock \/ WriteFrameWrite \/ RenderExit

Consumer == ConsumerStart \/ ConsumerReceive \/ ConsumerExit

Next ==
    \/ \E p \in Proc : Code(p) \/ Crash(p) \/ Waiter(p) \/ ReaderStep(p)
    \/ StopCloseDone \/ StopKill
    \/ Writer
    \/ Consumer

Spec == Init /\ [][Next]_vars

\* ffmpeg codes what it is given and every goroutine runs.  Nothing obliges
\* ffmpeg to crash or a viewer to leave; Stop, once called, goes on.
\* Strong fairness of RenderExit: the select of RenderLoop picks a ready case
\* at random, so it does not pick the ticker for ever.
Fairness ==
    /\ \A p \in Proc : /\ WF_vars(Code(p))
                       /\ WF_vars(Waiter(p))
                       /\ WF_vars(ReaderStep(p))
    /\ WF_vars(StopKill)
    /\ WF_vars(Writer)
    /\ SF_vars(RenderExit)
    /\ WF_vars(Consumer)

FairSpec == Spec /\ Fairness
----------------------------------------------------------------------------
Watching(p) == waiter[p] \notin {"none", "exited"}

\* encoder.go:9 "Single FFmpeg process": a restart never runs beside the
\* process it replaces, however late waitAndRestart, Stop and the crash come.
OneProcess == \A p, q \in Proc : proc[p] = "alive" /\ proc[q] = "alive" => p = q

\* While e.running is set, the goroutine that will notice the exit of e.cmd
\* is still waiting for it: no exit goes unnoticed.
RunningIsWatched == running => waiter[cmd] = "waiting"

\* At most one goroutine has an exit to answer, so no exit is handled by two
\* restarts.
OneWatcher == \A p, q \in Proc : Watching(p) /\ Watching(q) => p = q

OneWatchedProcess == OneProcess /\ RunningIsWatched /\ OneWatcher

\* As long as ffmpeg has not crashed no goroutine sends on or closes a closed
\* channel: Stop leaves the closing of aus to readNALUs, which may still be
\* sending on it.
NoPanic == crashes = 0 => ~panicked

\* Each goroutine launched for a process took the channel made for it: the
\* broadcast loop the first, and the deferred close of reader p the p-th.
OwnChannels ==
    /\ source = 1
    /\ \A p \in Proc : reader[p] \notin {"none", "starting"} => defers[p] = p

ReadersEnded ==
    /\ consumer = "exited"
    /\ \A p \in Proc : reader[p] \in {"none", "exited"}

\* Nothing of the encoder is left.
Released ==
    /\ ReadersEnded
    /\ writer = "exited"
    /\ \A p \in Proc : proc[p] # "alive" /\ waiter[p] \in {"none", "exited"}

\* After Stop every goroutine - readNALUs, waitAndRestart, RenderLoop, the
\* broadcast loop - returns and the process is gone, wherever each of them was
\* blocked, if ffmpeg has not crashed before.  Whatever restart, failing or
\* not, Stop races with, the broadcast loop and the readers end - unless the
\* program has panicked, or the crash came before a goroutine had executed its
\* first statement, so that it holds on to a channel that is not its own.
StopReleases ==
    stopper = "returned" ~>
        \/ panicked
        \/ ~OwnChannels
        \/ ReadersEnded /\ (crashes = 0 => Released)

\* The restart of p was tried and its exec failed; it is not tried again.
RestartFailed(p) == waiter[p] = "exited" /\ proc[p + 1] = "none"

\* Every unexpected exit is followed by a new process, unless Stop is called
\* or the one attempt to start it has failed.
RestartsAfterCrash ==
    \A p \in 1..(MaxProc - 1) :
        proc[p] = "exited" ~>
            \/ done \/ panicked
            \/ proc[p + 1] # "none"
            \/ SpawnMayFail /\ RestartFailed(p)

\* encoder.go:226-227 - a restart makes the encoder survive a crash: what the
\* new process codes reaches the channel the broadcast loop reads.
CrashRecovers ==
    \A p \in 2..MaxProc :
        proc[p] = "alive" ~>
            \/ consumer = "ranging" /\ \E i \in 1..Len(chan[source]) :
                                          chan[source][i] = p
            \/ proc[p] = "exited" \/ done \/ panicked

\* encoder.go:226 - no restart once Stop has been called.
StopIsFinal == stopper = "returned" => \A p \in Proc : proc[p] # "alive"
=============================================================================
