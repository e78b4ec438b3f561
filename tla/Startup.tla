------------------------------ MODULE Startup ------------------------------
(***************************************************************************)
(* One run of the program after another: main of main.go up to the point   *)
(* where it serves, with the bootstrap encoder that yields the parameter   *)
(* sets (renderer/bootstrap.go, readNALUs of renderer/encoder.go), the     *)
(* certificate that survives on disk (netutil/cert.go) and the listeners   *)
(* of netutil/mux.go.  The process may be killed between any two steps and *)
(* is then started again on whatever is on disk.                           *)
(*                                                                         *)
(* The bootstrap encoder is Encoder.tla's, reduced to one frame: a process *)
(* that replaces a dead one gets no frame unless WriteFrame is still to    *)
(* come, and the access units go nowhere.                                  *)
(*                                                                         *)
(* A certificate is the number of the run that made it, 0 for the pair an  *)
(* operator has put there.                                                 *)
(***************************************************************************)
EXTENDS AnnexB, SplitListener

CONSTANTS
    Output,     \* what ffmpeg writes for the blank frame: a sequence of units
    MaxRuns,    \* bound: runs of the program
    MaxDeaths,  \* bound: exits of the bootstrap ffmpeg in one run
    Absent,     \* a file that is not there
    Torn        \* a file that has been truncated and not yet written

ASSUME StartupAssumption ==
    /\ MaxRuns \in Nat \ {0}
    /\ MaxDeaths \in Nat
    /\ {Absent, Torn} \cap Nat = {} /\ Absent # Torn

\* H.264 escapes the payload of a unit and ends it in a stop bit; the frame
\* comes with one SPS and, behind it, one PPS.
ASSUME OutputAssumption ==
    /\ Output \in Seq([zeros : {2, 3}, bytes : Seq(Byte) \ {<<>>}])
    /\ \A i \in 1..Len(Output) :
          LET b == Output[i].bytes
          IN  b[Len(b)] # 0 /\ \A j \in 1..Len(b) : ~StartCodeAt(b, j)
    /\ \E s, p \in 1..Len(Output) :
          /\ s < p
          /\ \A i \in 1..Len(Output) :
                /\ NALUType(Output[i].bytes) = SPSType <=> i = s
                /\ NALUType(Output[i].bytes) = PPSType <=> i = p

Mode == {"plain", "mux", "ports"}   \* !TLSEnabled; TLSPort = 0; TLSPort # 0
Pair == 0..MaxRuns
File == Pair \cup {Absent, Torn}

VARIABLES
    mode,     \* the configuration
    phase,    \* where main is
    run,      \* number of the run
    ffmpeg,   \* bootstrap process: "none" | "alive" | "exited"
    running,  \* e.running
    deaths,   \* its exits in this run
    todo,     \* what it has been given to write and has not written
    acc,      \* readNALUs: bytes read and not yet split
    sps, pps, \* e.sps, e.pps
    ready,    \* e.spsPPSReady is closed
    params,   \* sps and pps of main, handed to the RTSP server and the hub
    crt, key, \* certFile and keyFile
    cert,     \* the certificate SetupTLS returned, or None
    served,   \* history: the certificates clients have been served
    failed,   \* history: something outside the program failed in this run
    torn      \* history: a kill or an I/O error struck while files were written

encVars  == <<ffmpeg, running, deaths, todo, acc, sps, pps, ready>>
diskVars == <<crt, key>>
hisVars  == <<served, failed, torn>>
vars == <<mode, phase, run, encVars, params, diskVars, cert, hisVars,
          splitVars>>

Building == {"renderer", "encoder", "frame", "wait", "copy", "tls"}
Writing == {"crt", "crtData", "key", "keyData"}
Serving == {"rtsp", "http", "up"}
Ended   == {"killed", "fatal", "shutdown"}

\* The unit of the frame's output with a type.
TheUnit(type) ==
    LET i == CHOOSE j \in 1..Len(Output) : NALUType(Output[j].bytes) = type
    IN  Output[i].bytes

TypeOK ==
    /\ mode \in Mode /\ run \in 1..MaxRuns
    /\ phase \in Building \cup Writing \cup Serving \cup Ended
    /\ ffmpeg \in {"none", "alive", "exited"} /\ running \in BOOLEAN
    /\ deaths \in 0..MaxDeaths
    /\ {todo, acc, sps, pps} \subseteq Seq(Byte) /\ ready \in BOOLEAN
    /\ Len(acc) + Len(todo) <= Len(StreamOf(Output))
    /\ params = None \/ params \in [sps : Seq(Byte), pps : Seq(Byte)]
    /\ {crt, key} \subseteq File /\ cert \in Pair \cup {None}
    /\ served \subseteq Pair /\ failed \in BOOLEAN /\ torn \in BOOLEAN
    /\ SplitTypeOK

\* A process that has just been started.  The operator has put a pair of files there, or one of them, or none.
Init ==
    /\ phase = "renderer" /\ params = None /\ cert = None /\ failed = FALSE
    /\ ffmpeg = "none" /\ running = FALSE /\ deaths = 0 /\ todo = <<>>
    /\ acc = <<>> /\ sps = <<>> /\ pps = <<>> /\ ready = FALSE
    /\ SplitInit
    /\ mode \in Mode /\ run = 1
    /\ crt \in {Absent, 0} /\ key \in {Absent, 0}
    /\ served = {} /\ torn = FALSE

\* main goes from one phase to the next.
Goes(from, to) == phase = from /\ phase' = to
----------------------------------------------------------------------------
\* Failures outside the program

\* log.Fatal: the panorama is missing, exec fails, an address is taken, the
\* disk is full.  A Listen inside ServeAsync fails after main has gone on.
Fatal ==
    /\ phase \in {"renderer", "encoder"} \cup Writing \cup Serving
    /\ phase' = "fatal"
    /\ failed' = TRUE
    /\ torn' = (torn \/ phase \in Writing)
    /\ SplitReset
    /\ UNCHANGED <<mode, run, encVars, params, diskVars, cert, served>>

Kill ==
    /\ phase \notin Ended
    /\ phase' = "killed"
    /\ torn' = (torn \/ phase \in Writing)
    /\ SplitReset
    /\ UNCHANGED <<mode, run, encVars, params, diskVars, cert, served, failed>>

\* SIGINT or SIGTERM once main waits for it.
Shutdown ==
    /\ Goes("up", "shutdown")
    /\ SplitReset
    /\ UNCHANGED <<mode, run, encVars, params, diskVars, cert, hisVars>>

StartAgain ==
    /\ phase \in Ended /\ run < MaxRuns
    /\ run' = run + 1
    /\ phase' = "renderer" /\ params' = None /\ cert' = None /\ failed' = FALSE
    /\ ffmpeg' = "none" /\ running' = FALSE /\ deaths' = 0 /\ todo' = <<>>
    /\ acc' = <<>> /\ sps' = <<>> /\ pps' = <<>> /\ ready' = FALSE
    /\ UNCHANGED <<mode, diskVars, served, torn, splitVars>>

FfmpegDies ==
    /\ phase \in {"frame", "wait", "copy"} /\ ffmpeg = "alive"
    /\ deaths < MaxDeaths
    /\ ffmpeg' = "exited" /\ deaths' = deaths + 1 /\ todo' = <<>>
    /\ UNCHANGED <<mode, phase, run, running, acc, sps, pps, ready, params,
                   diskVars, cert, hisVars, splitVars>>
----------------------------------------------------------------------------
\* The bootstrap encoder

\* waitAndRestart: Wait has returned, and a new process is launched, for which
\* a new readNALUs starts with nothing.
FfmpegRestarts ==
    /\ phase \in {"frame", "wait", "copy"} /\ ffmpeg = "exited"
    /\ IF running
       THEN running' = FALSE /\ UNCHANGED <<ffmpeg, acc>>
       ELSE /\ ~HasNALU(acc)     \* the old reader has split what it had
            /\ running' = TRUE /\ ffmpeg' = "alive" /\ acc' = <<>>
    /\ UNCHANGED <<mode, phase, run, deaths, todo, sps, pps, ready, params,
                   diskVars, cert, hisVars, splitVars>>

\* readNALUs reads a chunk, however the pipe has cut the stream.
ReadChunk ==
    /\ ffmpeg = "alive"
    /\ ~HasNALU(acc)
    /\ \E n \in 1..Len(todo) :
          /\ acc' = acc \o SubSeq(todo, 1, n)
          /\ todo' = SubSeq(todo, n + 1, Len(todo))
    /\ UNCHANGED <<mode, phase, run, ffmpeg, running, deaths, sps, pps,
                   ready, params, diskVars, cert, hisVars, splitVars>>

\* The inner loop of readNALUs: one NAL unit; spsPPSReady is closed by a PPS.
Capture ==
    /\ ffmpeg # "none" /\ HasNALU(acc)
    /\ \E x \in {ExtractOneNALU(acc)} :
          LET Is(type) == x.nalu # <<>> /\ NALUType(x.nalu) = type
          IN  /\ acc' = x.rest
              /\ sps' = IF Is(SPSType) THEN x.nalu ELSE sps
              /\ pps' = IF Is(PPSType) THEN x.nalu ELSE pps
              /\ ready' = (ready \/ Is(PPSType))
    /\ UNCHANGED <<mode, phase, run, ffmpeg, running, deaths, todo,
                   params, diskVars, cert, hisVars, splitVars>>

\* Nothing of the encoder is used after Stop.
EncoderStops == ffmpeg' = "none" /\ running' = FALSE /\ todo' = <<>> /\ acc' = <<>>
----------------------------------------------------------------------------
\* main and BootstrapSPSPPS

CreateRenderer ==
    /\ Goes("renderer", "encoder")
    /\ UNCHANGED <<mode, run, encVars, params, diskVars, cert, hisVars, splitVars>>

NewEncoder ==
    /\ Goes("encoder", "frame")
    /\ ffmpeg' = "alive" /\ running' = TRUE
    /\ UNCHANGED <<mode, run, deaths, todo, acc, sps, pps, ready, params,
                   diskVars, cert, hisVars, splitVars>>

\* The one WriteFrame.  While e.running is unset it returns nil and the frame
\* is gone; between an exit and its discovery the write fails.
WriteBlankFrame ==
    /\ phase = "frame"
    /\ ~running \/ ffmpeg = "alive"
    /\ phase' = "wait"
    /\ todo' = IF running THEN StreamOf(Output) ELSE <<>>
    /\ UNCHANGED <<mode, run, ffmpeg, running, deaths, acc, sps, pps, ready,
                   params, diskVars, cert, hisVars, splitVars>>

WriteFrameFails ==
    /\ Goes("frame", "fatal")
    /\ running /\ ffmpeg = "exited"
    /\ EncoderStops
    /\ failed' = TRUE
    /\ UNCHANGED <<mode, run, deaths, sps, pps, ready, params, diskVars,
                   cert, served, torn, splitVars>>

WaitSPSPPS ==
    /\ Goes("wait", "copy")
    /\ ready
    /\ UNCHANGED <<mode, run, encVars, params, diskVars, cert, hisVars, splitVars>>

\* encoder.SPS(), encoder.PPS(), Stop.
CopyParams ==
    /\ phase = "copy"
    /\ phase' = IF mode = "plain" THEN "rtsp" ELSE "tls"
    /\ params' = [sps |-> sps, pps |-> pps]
    /\ EncoderStops
    /\ UNCHANGED <<mode, run, deaths, sps, pps, ready, diskVars, cert,
                   hisVars, splitVars>>
----------------------------------------------------------------------------
\* SetupTLS: LoadOrGenerateCert and writePEM

\* Mutant: one of the files is taken for both.
EitherThere == crt # Absent \/ key # Absent

BothThere == crt # Absent /\ key # Absent

\* tls.LoadX509KeyPair: two whole files that belong together.
LoadPair ==
    /\ phase = "tls" /\ BothThere
    /\ IF crt = key /\ crt \in Pair
       THEN cert' = crt /\ phase' = "rtsp"
       ELSE cert' = None /\ phase' = "fatal"
    /\ UNCHANGED <<mode, run, encVars, params, diskVars, hisVars, splitVars>>

GeneratePair ==
    /\ Goes("tls", "crt")
    /\ ~BothThere
    /\ UNCHANGED <<mode, run, encVars, params, diskVars, cert, hisVars, splitVars>>

\* os.WriteFile truncates, then writes.
TruncateCrt ==
    /\ Goes("crt", "crtData")
    /\ crt' = Torn
    /\ UNCHANGED <<mode, run, encVars, params, key, cert, hisVars, splitVars>>

\* Mutant: the key is not written.
WriteCrtOnly ==
    /\ Goes("crtData", "rtsp")
    /\ crt' = run
    /\ cert' = run
    /\ UNCHANGED <<mode, run, encVars, params, key, hisVars, splitVars>>

WriteCrt ==
    /\ Goes("crtData", "key")
    /\ crt' = run
    /\ UNCHANGED <<mode, run, encVars, params, key, cert, hisVars, splitVars>>

TruncateKey ==
    /\ Goes("key", "keyData")
    /\ key' = Torn
    /\ UNCHANGED <<mode, run, encVars, params, crt, cert, hisVars, splitVars>>

\* The last write; LoadOrGenerateCert returns the new pair.
WriteKey ==
    /\ Goes("keyData", "rtsp")
    /\ key' = run
    /\ cert' = run
    /\ UNCHANGED <<mode, run, encVars, params, crt, hisVars, splitVars>>

SetupTLS ==
    LoadPair \/ GeneratePair \/ TruncateCrt \/ WriteCrt \/ TruncateKey \/ WriteKey
----------------------------------------------------------------------------
\* Serving

StartRTSP ==
    /\ Goes("rtsp", "http")
    /\ UNCHANGED <<mode, run, encVars, params, diskVars, cert, hisVars, splitVars>>

\* SetSubscriber, NewPipeline, ServeHTTP.
ServeHTTP ==
    /\ Goes("http", "up")
    /\ UNCHANGED <<mode, run, encVars, params, diskVars, cert, hisVars, splitVars>>

\* The ports whose listener looks at the first byte.
PeekingPort(p) ==
    \/ p = "rtsp" /\ mode # "plain" /\ phase \in {"http", "up"}
    \/ p = "web"  /\ mode = "mux"   /\ phase = "up"

ClientConnects == \E c \in Conn, p \in Port : PeekingPort(p) /\ Connect(c, p)

Clients == ClientConnects \/ \E c \in Conn : Speak(c)

\* A TLS client learns the certificate when its server answers it.
Network(A) ==
    /\ A
    /\ served' = IF \E c \in Conn : /\ handed'[c] \in {"https", "rtsps"}
                                    /\ handed[c] = None
                 THEN served \cup {cert} ELSE served
    /\ UNCHANGED <<mode, phase, run, encVars, params, diskVars, cert, failed, torn>>
----------------------------------------------------------------------------
Main == \/ CreateRenderer \/ NewEncoder \/ WriteBlankFrame \/ WriteFrameFails
        \/ WaitSPSPPS \/ CopyParams \/ SetupTLS \/ StartRTSP \/ ServeHTTP

Environment == Fatal \/ Kill \/ Shutdown \/ StartAgain \/ FfmpegDies

Reader == ReadChunk \/ Capture

Next == \/ Main \/ Environment
        \/ Reader \/ FfmpegRestarts
        \/ Network(Clients) \/ Network(Serve) \/ Network(Accept)
        \/ \E k \in Kind : Network(SubAccept(k))

Spec == Init /\ [][Next]_vars

\* Every goroutine runs and ffmpeg writes what it owes; no failure, kill,
\* client or restart of the program has to come.
Fairness ==
    /\ WF_vars(Main)
    /\ WF_vars(Reader)
    /\ WF_vars(Network(Serve))
    /\ WF_vars(Network(Accept))
    /\ \A k \in Kind : WF_vars(Network(SubAccept(k)))

FairSpec == Spec /\ Fairness
----------------------------------------------------------------------------
\* However the pipe cuts ffmpeg's output into reads, and whenever ffmpeg dies,
\* the captured SPS and PPS are exactly the ones it wrote, both are there once
\* WaitSPSPPS returns, and the RTSP description and the hub get these.
CapturedWhole ==
    /\ sps \in {<<>>, TheUnit(SPSType)}
    /\ pps \in {<<>>, TheUnit(PPSType)}
    /\ ready => sps # <<>> /\ pps # <<>>
    /\ params # None => params = [sps |-> TheUnit(SPSType), pps |-> TheUnit(PPSType)]

\* cert.go:21 "for reuse across restarts": the certificate in use is whole on
\* disk with its key, so that clients never meet a second one whatever kills
\* and failures come; and only one that strikes while the two files are being
\* written can leave a pair that does not fit.
OneIdentity ==
    /\ cert # None => crt = cert /\ key = cert
    /\ \A g, h \in served : g = h
    /\ BothThere /\ crt # key => torn \/ phase \in Writing

\* WaitSPSPPS waits for a process that has died with the frame.
Stuck == phase = "wait" /\ deaths > 0 /\ ~ready

\* Every run of the program comes up, also after kills and whatever files
\* it finds, unless it is killed itself, something outside fails, the pair on
\* disk was torn by such an event - or its ffmpeg dies, when it may hang.
ComesUp ==
    [](phase \notin Ended =>
          \/ <>(\/ phase \in {"up", "killed"}
                \/ phase = "fatal" /\ (failed \/ torn))
          \/ <>[]Stuck)

\* A connection whose first byte has come reaches the server of its kind, on
\* both ports and through full channels, as long as no connection without a
\* first byte keeps its port, and unless the program ends.
HandedOver ==
    \A c \in Conn :
        []<>~HeldUp(c) =>
            Waiting(c) ~>
                \/ port[c] = None
                \/ first[c] \in Kind /\ handed[c] = ServerOf(port[c], first[c])
=============================================================================
