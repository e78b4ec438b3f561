---------------------------- MODULE StartupProofs ----------------------------
(***************************************************************************)
(* For every number of runs and connections and every output of ffmpeg:    *)
(* the program keeps one certificate through kills, failures and restarts, *)
(* the parameter sets are captured whole however the pipe cuts the stream, *)
(* and nobody waits for them in vain while ffmpeg lives; no connection is  *)
(* lost or handed out twice; and the state is well typed.                  *)
(*                                                                         *)
(* The second rests on what extractOneNALU does with any part of any       *)
(* stream.  The stream is a concatenation of units of any number, so that  *)
(* where the units lie in it is shown by induction, here as the absence of *)
(* a least counterexample.                                                 *)
(***************************************************************************)
EXTENDS Startup, SequenceTheorems, WellFoundedInduction, TLAPS

\* The states in which clients can be on a port that looks at first bytes.
Open == mode # "plain" /\ phase \in {"http", "up"}

NoConnections ==
    /\ \A c \in Conn : port[c] = None
    /\ \A p \in Port : backlog[p] = <<>> /\ held[p] = None
    /\ \A k \in Kind : queue[k] = <<>>

\* Once a certificate has been used it lies on disk with its key, and the
\* files are written only by a run that has found one of them missing.
CertInv ==
    /\ run \in 1..MaxRuns /\ torn \in BOOLEAN
    /\ cert # None => crt = cert /\ key = cert
    /\ mode # "plain" /\ phase \in Serving =>
          cert \in Pair /\ crt = cert /\ key = cert
    /\ phase \in Building \cup Writing => cert = None
    /\ phase \in {"key", "keyData"} => crt = run
    /\ served # {} => crt \in Pair /\ key = crt /\ served = {crt} /\ phase \notin Writing
    /\ BothThere /\ crt # key => torn \/ phase \in Writing

IdentityInv == CertInv /\ (~Open => NoConnections)

LEMMA RunIsPair == ASSUME run \in 1..MaxRuns PROVE run \in Pair
  BY StartupAssumption DEF Pair

\* A step that touches neither the files nor the certificate.
LEMMA FilesKept ==
    ASSUME CertInv, UNCHANGED <<mode, run, crt, key, cert, served>>,
           torn' \in BOOLEAN, torn => torn',
           phase \in Writing => torn' \/ phase' \in Writing,
           phase' \in Writing \cup {"key", "keyData"} =>
              ~BothThere /\ phase' \notin {"key", "keyData"} /\ cert = None,
           phase' \in Building => cert = None,
           mode # "plain" /\ phase' \in Serving => phase \in Serving
    PROVE  CertInv'
<1>1. served # {} => BothThere
  BY StartupAssumption DEF CertInv, BothThere, Pair
<1> QED BY <1>1 DEF CertInv, BothThere, Building, Writing, Serving, Ended

\* What happens on the network leaves the certificate alone, and shows
\* clients the one on disk.
LEMMA NetworkStep ==
    ASSUME IdentityInv, Open, UNCHANGED <<mode, phase, run, crt, key, cert, torn>>,
           served' = served \/ served' = served \cup {cert}
    PROVE  IdentityInv'
<1>1. cert \in Pair /\ crt = cert /\ key = cert /\ phase \notin Building \cup Writing
  BY DEF IdentityInv, CertInv, Open, Serving, Building, Writing
<1>2. served' # {} => served' = {crt}
  BY <1>1 DEF IdentityInv, CertInv
<1>3. CertInv'
  BY <1>1, <1>2 DEF IdentityInv, CertInv, BothThere, Building, Writing
<1> QED BY <1>3 DEF IdentityInv, Open

\* Without connections nothing moves on the network, and a port takes none
\* unless it is open.
LEMMA NetworkOpen ==
    ASSUME ~Open => NoConnections,
           Clients \/ Serve \/ Accept \/ \E k \in Kind : SubAccept(k)
    PROVE  Open
<1>1. CASE Clients
  BY <1>1 DEF Clients, ClientConnects, PeekingPort, Open, Speak, NoConnections
<1>2. CASE Serve
  BY <1>2 DEF Serve, AcceptConn, PeekFails, Route, Peeked, NoConnections, Port
<1>3. CASE Accept
  BY <1>3 DEF Accept, AcceptConn, PeekFails, TransparentAccept, Peeked, NoConnections, Port
<1>4. CASE \E k \in Kind : SubAccept(k)
  BY <1>4 DEF SubAccept, NoConnections
<1> QED BY <1>1, <1>2, <1>3, <1>4

LEMMA NetworkKeeps ==
    ASSUME IdentityInv,
           \/ Network(Clients) \/ Network(Serve) \/ Network(Accept)
           \/ \E k \in Kind : Network(SubAccept(k))
    PROVE  IdentityInv'
<1>1. /\ Clients \/ Serve \/ Accept \/ \E k \in Kind : SubAccept(k)
      /\ UNCHANGED <<mode, phase, run, crt, key, cert, torn>>
      /\ served' = served \/ served' = served \cup {cert}
  BY DEF Network, diskVars
<1>2. Open
  BY <1>1, NetworkOpen DEF IdentityInv
<1> QED BY <1>1, <1>2, NetworkStep

\* The end of a process closes its connections; a process that is not open
\* has none and gets none.
LEMMA Closed ==
    ASSUME IdentityInv, SplitReset \/ (UNCHANGED splitVars /\ (Open => Open'))
    PROVE  (~Open => NoConnections)'
  BY DEF IdentityInv, SplitReset, splitVars, NoConnections

LEMMA IdentityStep ==
    ASSUME IdentityInv, [Next]_vars
    PROVE  IdentityInv'
<1>1. CertInv
  BY DEF IdentityInv
<1>2. ASSUME UNCHANGED <<mode, run, crt, key, cert, served, torn>>,
             SplitReset \/ (UNCHANGED splitVars /\ phase' \notin Ended)
                        \/ (UNCHANGED splitVars /\ phase \notin Serving),
             phase \in Writing => phase' \in Writing,
             phase' \in Writing => phase' = "crt" /\ ~BothThere /\ cert = None,
             phase' \in Building => cert = None,
             mode # "plain" /\ phase' \in Serving => phase \in Serving,
             phase \in {"http", "up"} => phase' \in {"http", "up"} \cup Ended
      PROVE  IdentityInv'
  <2>1. CertInv'
    BY <1>1, <1>2, FilesKept DEF CertInv, Writing
  <2>2. (~Open => NoConnections)'
    BY <1>2, Closed DEF Open, Serving, Ended
  <2> QED BY <2>1, <2>2 DEF IdentityInv
<1>3. CASE Fatal \/ Kill
  <2>1. /\ UNCHANGED <<mode, run, crt, key, cert, served>> /\ SplitReset
        /\ phase' \in Ended /\ torn' = (torn \/ phase \in Writing)
    BY <1>3 DEF Fatal, Kill, diskVars, Ended
  <2>2. torn' \in BOOLEAN /\ (torn => torn') /\ (phase \in Writing => torn')
    BY <2>1
  <2>3. CertInv'
    BY <1>1, <2>1, <2>2, FilesKept DEF Writing, Building, Serving, Ended
  <2> QED BY <2>1, <2>3, Closed DEF IdentityInv
<1>4. CASE Shutdown
  BY <1>2, <1>4 DEF Shutdown, Goes, diskVars, hisVars, Writing, Building, Serving, Ended
<1>5. CASE StartAgain
  <2>1. /\ phase \in Ended /\ run < MaxRuns /\ run' = run + 1 /\ phase' = "renderer"
        /\ cert' = None /\ UNCHANGED <<mode, crt, key, served, torn, splitVars>>
    BY <1>5 DEF StartAgain, diskVars
  <2>2. CertInv'
    BY <1>1, <2>1, StartupAssumption
       DEF CertInv, BothThere, Building, Writing, Serving, Ended
  <2>3. ~Open
    BY <2>1 DEF Open, Ended
  <2> QED BY <2>1, <2>2, <2>3, Closed DEF IdentityInv
<1>6. CASE FfmpegDies \/ FfmpegRestarts \/ Reader
  <2>1. UNCHANGED <<mode, phase, run, crt, key, cert, served, torn, splitVars>>
    BY <1>6 DEF FfmpegDies, FfmpegRestarts, Reader, ReadChunk, Capture, diskVars, hisVars
  <2>2. UNCHANGED <<port, first, backlog, held, queue, handed>>
    BY <2>1 DEF splitVars
  <2> QED BY <2>1, <2>2 DEF IdentityInv, CertInv, BothThere, Open, NoConnections
<1>7. CASE \/ CreateRenderer \/ NewEncoder \/ WriteBlankFrame \/ WriteFrameFails
           \/ WaitSPSPPS \/ CopyParams
  BY <1>1, <1>2, <1>7
     DEF CreateRenderer, NewEncoder, WriteBlankFrame, WriteFrameFails, WaitSPSPPS,
         CopyParams, Goes, diskVars, hisVars, CertInv, Writing, Building, Serving, Ended
<1>8. CASE StartRTSP \/ ServeHTTP
  BY <1>1, <1>2, <1>8
     DEF StartRTSP, ServeHTTP, Goes, diskVars, hisVars, CertInv, Writing, Building,
         Serving, Ended
<1>9. CASE SetupTLS
  <2>1. /\ UNCHANGED <<mode, run, served, torn, splitVars>>
        /\ phase \in Writing \cup {"tls"} /\ phase' \notin {"http", "up"}
        /\ cert = None
    BY <1>1, <1>9 DEF SetupTLS, LoadPair, GeneratePair, TruncateCrt, WriteCrt,
                      TruncateKey, WriteKey, Goes, hisVars, CertInv, Building, Writing
  <2>2. (~Open => NoConnections)'
    BY <2>1, Closed DEF Open, Writing
  <2>3. ASSUME LoadPair PROVE CertInv'
    BY <1>1, <2>1, <2>3
       DEF LoadPair, CertInv, BothThere, diskVars, Building, Writing, Serving
  <2>4. ASSUME GeneratePair PROVE CertInv'
    BY <1>1, <2>1, <2>4, FilesKept
       DEF GeneratePair, Goes, diskVars, CertInv, Building, Writing, Serving
  <2>5. ASSUME TruncateCrt \/ TruncateKey PROVE CertInv'
    BY <1>1, <2>1, <2>5
       DEF TruncateCrt, TruncateKey, Goes, CertInv, Building, Writing, Serving
  <2>6. ASSUME WriteCrt PROVE CertInv'
    BY <1>1, <2>1, <2>6 DEF WriteCrt, Goes, CertInv, Building, Writing, Serving
  <2>7. ASSUME WriteKey PROVE CertInv'
    <3>1. run \in Pair /\ crt = run
      BY <1>1, <2>7, RunIsPair DEF WriteKey, Goes, CertInv
    <3> QED BY <1>1, <2>1, <2>7, <3>1
           DEF WriteKey, Goes, CertInv, Building, Writing, Serving
  <2>8. CertInv' => IdentityInv'
    BY <2>2 DEF IdentityInv
  <2> QED BY <1>9, <2>3, <2>4, <2>5, <2>6, <2>7, <2>8 DEF SetupTLS
<1>10. CASE \/ Network(Clients) \/ Network(Serve) \/ Network(Accept)
           \/ \E k \in Kind : Network(SubAccept(k))
  BY <1>10, NetworkKeeps
<1>11. CASE UNCHANGED vars
  BY <1>11 DEF vars, diskVars, hisVars, splitVars, IdentityInv, CertInv, BothThere,
              Open, NoConnections
<1> QED BY <1>3, <1>4, <1>5, <1>6, <1>7, <1>8, <1>9, <1>10, <1>11
        DEF Next, Main, Environment

LEMMA IdentityInit ==
    ASSUME Init
    PROVE  IdentityInv
<1>1. NoConnections
  BY DEF Init, SplitInit, NoConnections, Port, Kind
<1>2. BothThere => crt = 0 /\ key = 0
  BY DEF Init, BothThere
<1>3. run \in 1..MaxRuns
  BY StartupAssumption DEF Init
<1>4. phase = "renderer" /\ cert = None /\ served = {} /\ torn = FALSE
  BY DEF Init
<1> QED BY <1>1, <1>2, <1>3, <1>4 DEF IdentityInv, CertInv, Building, Writing, Serving

\* The certificate in use lies on disk with its key and is the only one that
\* clients ever meet, and only a kill or a failure that strikes while the
\* files are written leaves a pair that does not fit: for any number of runs,
\* connections and bytes that ffmpeg writes.
THEOREM IdentityKept == Spec => []OneIdentity
<1>1. Init => IdentityInv
  BY IdentityInit
<1>2. IdentityInv /\ [Next]_vars => IdentityInv'
  BY IdentityStep
<1>3. IdentityInv => OneIdentity
  BY DEF IdentityInv, CertInv, OneIdentity
<1> QED BY <1>1, <1>2, <1>3, PTL DEF Spec

----------------------------------------------------------------------------
\* A set of natural numbers that is not empty has a least one.
LEMMA LeastNat ==
    ASSUME NEW T \in SUBSET Nat, T # {}
    PROVE  \E x \in T : \A y \in T : x <= y
<1> DEFINE R == {ss \in Nat \X Nat : ss[1] < ss[2]}
<1>1. IsWellFoundedOn(R, Nat)
  BY NatLessThanWellFounded, Zenon DEF OpToRel
<1>2. PICK x \in T : \A y \in T : <<y, x>> \notin R
  <2> HIDE DEF R
  <2> QED BY <1>1, WFMin
<1>3. ASSUME NEW y \in T, ~(x <= y)
      PROVE  FALSE
  <2>1. <<y, x>> \in Nat \X Nat /\ y < x
    BY <1>3
  <2> QED BY <2>1, <1>2
<1> QED BY <1>3

\* f[i] is the concatenation of the first i of the sequences q.
Concats(q, n, f) ==
    f = [i \in 1..n |-> IF i = 1 THEN q[i] ELSE f[i - 1] \o q[i]]

LEMMA ConcatsExist ==
    ASSUME NEW q, NEW N \in Nat \ {0}
    PROVE  \E f : Concats(q, N, f)
<1> DEFINE T == {n \in 1..N : ~\E f : Concats(q, n, f)}
<1>1. SUFFICES ASSUME T # {} PROVE FALSE
  <2>1. N \in 1..N
    OBVIOUS
  <2> QED BY <2>1
<1>2. PICK n \in T : \A m \in T : n <= m
  <2>1. T \in SUBSET Nat
    OBVIOUS
  <2> QED BY <2>1, <1>1, LeastNat
<1>3. n # 1
  <2> DEFINE g == [i \in 1..1 |-> q[i]]
  <2>1. Concats(q, 1, g)
    BY DEF Concats
  <2> QED BY <2>1, <1>2
<1>4. n - 1 \in 1..N /\ n - 1 \notin T
  BY <1>2, <1>3
<1>5. PICK f : Concats(q, n - 1, f)
  BY <1>4
<1> DEFINE g == [i \in 1..n |-> IF i = n THEN f[n - 1] \o q[n] ELSE f[i]]
<1>6. ASSUME NEW i \in 1..n
      PROVE  g[i] = IF i = 1 THEN q[i] ELSE g[i - 1] \o q[i]
  <2>1. n \in 1..N /\ n # 1 /\ i \in Nat
    BY <1>2, <1>3
  <2>2. CASE i = n
    <3>1. n - 1 \in 1..n /\ n - 1 # n
      BY <2>1
    <3>2. g[n - 1] = f[n - 1]
      BY <3>1
    <3> QED BY <2>1, <2>2, <3>2
  <2>3. CASE i # n
    <3>1. i \in 1..(n - 1) /\ g[i] = f[i]
      BY <2>1, <2>3
    <3>2. f[i] = IF i = 1 THEN q[i] ELSE f[i - 1] \o q[i]
      BY <3>1, <1>5 DEF Concats
    <3>3. i # 1 => g[i - 1] = f[i - 1]
      BY <2>1, <3>1
    <3> QED BY <3>1, <3>2, <3>3
  <2> QED BY <2>2, <2>3
<1>7. g = [i \in 1..n |-> IF i = 1 THEN q[i] ELSE g[i - 1] \o q[i]]
  BY <1>6
<1> QED BY <1>7, <1>2 DEF Concats

\* FlattenSeq is the last of them.
LEMMA Flattened ==
    ASSUME NEW q, Len(q) \in Nat \ {0}
    PROVE  \E f : Concats(q, Len(q), f) /\ FlattenSeq(q) = f[Len(q)]
<1>1. \E f : Concats(q, Len(q), f)
  BY ConcatsExist
<1> DEFINE f == CHOOSE f : Concats(q, Len(q), f)
<1>2. Concats(q, Len(q), f)
  BY <1>1
<1>3. FlattenSeq(q) = f[Len(q)]
  BY DEF FlattenSeq, Concats
<1> QED BY <1>2, <1>3

----------------------------------------------------------------------------
N == Len(Output)

LEMMA Unit ==
    ASSUME NEW u \in 1..N
    PROVE  /\ Output[u] \in [zeros : {2, 3}, bytes : Seq(Byte) \ {<<>>}]
           /\ Output[u].zeros \in {2, 3} /\ Output[u].bytes \in Seq(Byte)
           /\ Len(Output[u].bytes) \in Nat \ {0}
<1> DEFINE Units == [zeros : {2, 3}, bytes : Seq(Byte) \ {<<>>}]
<1>1. Output \in Seq(Units)
  BY OutputAssumption
<1> HIDE DEF Units
<1>2. Output[u] \in Units
  BY <1>1 DEF N
<1>3. Output[u].zeros \in {2, 3} /\ Output[u].bytes \in Seq(Byte) \ {<<>>}
  BY <1>2 DEF Units
<1> QED BY <1>2, <1>3 DEF Units

LEMMA SomeUnits == N \in Nat \ {0}
  BY OutputAssumption DEF N

\* The length of a unit with its start code.
Size(u) == Output[u].zeros + 1 + Len(Output[u].bytes)

LEMMA BytesOfUnit ==
    ASSUME NEW u \in 1..N
    PROVE  /\ Bytes(Output[u]) \in Seq(Byte) /\ Len(Bytes(Output[u])) = Size(u)
           /\ Size(u) \in Nat
           /\ \A i \in 1..Output[u].zeros : Bytes(Output[u])[i] = 0
           /\ Bytes(Output[u])[Output[u].zeros + 1] = 1
           /\ \A i \in 1..Len(Output[u].bytes) :
                 Bytes(Output[u])[Output[u].zeros + 1 + i] = Output[u].bytes[i]
<1> DEFINE z == Output[u].zeros
           b == Output[u].bytes
           code == [i \in 1..z |-> 0] \o <<1>>
<1>1. z \in {2, 3} /\ b \in Seq(Byte) /\ Len(b) \in Nat \ {0}
  BY Unit
<1> HIDE DEF z, b
<1>2. [i \in 1..z |-> 0] \in Seq(Byte) /\ Len([i \in 1..z |-> 0]) = z
  BY <1>1 DEF Byte
<1>3. <<1>> \in Seq(Byte)
  BY DEF Byte
<1>4. /\ code \in Seq(Byte) /\ Len(code) = z + 1
      /\ \A i \in 1..z : code[i] = 0
      /\ code[z + 1] = 1
  BY <1>1, <1>2, <1>3
<1> HIDE DEF code
<1>5. /\ code \o b \in Seq(Byte) /\ Len(code \o b) = z + 1 + Len(b)
      /\ \A i \in 1..(z + 1) : (code \o b)[i] = code[i]
      /\ \A i \in 1..Len(b) : (code \o b)[z + 1 + i] = b[i]
  BY <1>1, <1>4
<1>6. Bytes(Output[u]) = code \o b
  BY DEF Bytes, code, z, b
<1>7. \A i \in 1..z : (code \o b)[i] = 0
  BY <1>1, <1>4, <1>5
<1>8. (code \o b)[z + 1] = 1
  BY <1>1, <1>4, <1>5
<1>9. Size(u) = z + 1 + Len(b)
  BY DEF Size, z, b
<1>10. Size(u) \in Nat
  BY <1>1, <1>9
<1> QED BY <1>5, <1>6, <1>7, <1>8, <1>9, <1>10 DEF z, b

\* d holds the first n units, unit u behind position off[u].
Layout(d, off, n) ==
    /\ d \in Seq(Byte) /\ off \in [1..(n + 1) -> Nat]
    /\ off[1] = 0 /\ off[n + 1] = Len(d)
    /\ \A u, v \in 1..(n + 1) : u <= v => off[u] <= off[v]
    /\ \A u \in 1..n :
          /\ off[u + 1] = off[u] + Size(u)
          /\ \A i \in 1..Size(u) : d[off[u] + i] = Bytes(Output[u])[i]

LEMMA FirstUnit == \E off : Layout(Bytes(Output[1]), off, 1)
<1> DEFINE off == [u \in 1..(1 + 1) |-> IF u = 1 THEN 0 ELSE Size(1)]
<1>1. 1 \in 1..N
  BY SomeUnits
<1>2. Size(1) \in Nat /\ Bytes(Output[1]) \in Seq(Byte) /\ Len(Bytes(Output[1])) = Size(1)
  BY <1>1, BytesOfUnit
<1>3. off \in [1..(1 + 1) -> Nat] /\ off[1] = 0 /\ off[2] = Size(1)
  BY <1>2
<1> HIDE DEF off
<1>4. \A u \in 1..1 : u = 1
  OBVIOUS
<1>5. Layout(Bytes(Output[1]), off, 1)
  BY <1>2, <1>3, <1>4 DEF Layout
<1> QED BY <1>5

LEMMA NextUnit ==
    ASSUME NEW n \in Nat, n + 1 \in 1..N, NEW d, NEW off, Layout(d, off, n)
    PROVE  \E at : Layout(d \o Bytes(Output[n + 1]), at, n + 1)
<1> DEFINE b == Bytes(Output[n + 1])
           e == d \o b
           at == [u \in 1..(n + 2) |-> IF u = n + 2 THEN Len(e) ELSE off[u]]
<1>1. b \in Seq(Byte) /\ Len(b) = Size(n + 1) /\ Size(n + 1) \in Nat
  BY BytesOfUnit
<1>2. d \in Seq(Byte) /\ off \in [1..(n + 1) -> Nat] /\ off[1] = 0 /\ off[n + 1] = Len(d)
  BY DEF Layout
<1> HIDE DEF b
<1>3. /\ e \in Seq(Byte) /\ Len(e) = Len(d) + Size(n + 1)
      /\ \A i \in 1..Len(d) : e[i] = d[i]
      /\ \A i \in 1..Size(n + 1) : e[Len(d) + i] = b[i]
  BY <1>1, <1>2
<1> HIDE DEF e
<1>4. /\ at \in [1..(n + 2) -> Nat] /\ at[n + 2] = Len(e)
      /\ \A u \in 1..(n + 1) : at[u] = off[u]
  BY <1>2, <1>3
<1> HIDE DEF at
<1>5. ASSUME NEW u \in 1..n
      PROVE  /\ at[u + 1] = at[u] + Size(u)
             /\ \A i \in 1..Size(u) : e[at[u] + i] = Bytes(Output[u])[i]
  <2>1. u \in 1..N /\ u \in 1..(n + 1) /\ u + 1 \in 1..(n + 1)
    BY SomeUnits
  <2>2. Size(u) \in Nat
    BY <2>1, BytesOfUnit
  <2>3. /\ off[u + 1] = off[u] + Size(u)
        /\ \A i \in 1..Size(u) : d[off[u] + i] = Bytes(Output[u])[i]
    BY DEF Layout
  <2>4. off[u] \in Nat /\ off[u + 1] <= Len(d)
    BY <1>2, <2>1 DEF Layout
  <2>5. ASSUME NEW i \in 1..Size(u) PROVE e[at[u] + i] = Bytes(Output[u])[i]
    <3>1. off[u] + i \in 1..Len(d)
      BY <1>2, <2>2, <2>3, <2>4
    <3> QED BY <1>3, <1>4, <2>1, <2>3, <3>1
  <2> QED BY <1>4, <2>1, <2>3, <2>5
<1>6. /\ at[n + 2] = at[n + 1] + Size(n + 1)
      /\ \A i \in 1..Size(n + 1) : e[at[n + 1] + i] = b[i]
  <2>1. n + 1 \in 1..(n + 1) /\ at[n + 1] = Len(d)
    BY <1>2, <1>4
  <2> QED BY <1>3, <1>4, <2>1
<1>7. ASSUME NEW u \in 1..(n + 2), NEW v \in 1..(n + 2), u <= v
      PROVE  at[u] <= at[v]
  <2>1. \A x, y \in 1..(n + 1) : x <= y => off[x] <= off[y]
    BY DEF Layout
  <2>2. CASE v # n + 2
    BY <1>4, <1>7, <2>1, <2>2
  <2>3. CASE v = n + 2 /\ u = n + 2
    BY <1>4, <2>3, <1>2, <1>3, <1>1
  <2>4. CASE v = n + 2 /\ u # n + 2
    <3>1. u \in 1..(n + 1) /\ n + 1 \in 1..(n + 1) /\ u <= n + 1
      BY <2>4
    <3>2. off[u] <= off[n + 1] /\ off[u] \in Nat
      BY <1>2, <3>1, <2>1
    <3> QED BY <1>1, <1>2, <1>3, <1>4, <2>4, <3>1, <3>2
  <2> QED BY <2>2, <2>3, <2>4
<1>8. Layout(e, at, n + 1)
  <2>1. ASSUME NEW u \in 1..(n + 1)
        PROVE  /\ at[u + 1] = at[u] + Size(u)
               /\ \A i \in 1..Size(u) : e[at[u] + i] = Bytes(Output[u])[i]
    BY <1>5, <1>6 DEF b
  <2>2. (n + 1) + 1 = n + 2 /\ at[1] = 0
    BY <1>2, <1>4
  <2> QED BY <1>3, <1>4, <1>7, <2>1, <2>2 DEF Layout
<1> QED BY <1>8 DEF e, b

\* Where the units lie in what ffmpeg writes.
LEMMA StreamLayout == \E off : Layout(StreamOf(Output), off, N)
<1> DEFINE q == [i \in 1..N |-> Bytes(Output[i])]
<1>1. Len(q) = N /\ N \in Nat \ {0}
  BY SomeUnits
<1>2. PICK f : Concats(q, N, f) /\ FlattenSeq(q) = f[N]
  BY <1>1, Flattened
<1>3. StreamOf(Output) = f[N]
  BY <1>2 DEF StreamOf, N
<1>4. \A i \in 1..N : q[i] = Bytes(Output[i])
  OBVIOUS
<1> HIDE DEF q
<1>5. /\ f[1] = q[1] /\ \A i \in 1..N : i # 1 => f[i] = f[i - 1] \o q[i]
  <2>1. \A i \in 1..N : f[i] = IF i = 1 THEN q[i] ELSE f[i - 1] \o q[i]
    BY <1>2 DEF Concats
  <2>2. 1 \in 1..N
    BY <1>1
  <2> QED BY <2>1, <2>2
<1> DEFINE T == {n \in 1..N : ~\E off : Layout(f[n], off, n)}
<1>6. ASSUME T # {} PROVE FALSE
  <2>1. T \in SUBSET Nat
    OBVIOUS
  <2>2. PICK n \in T : \A m \in T : n <= m
    BY <1>6, <2>1, LeastNat
  <2>3. n # 1
    BY <1>1, <1>4, <1>5, <2>2, FirstUnit
  <2>4. n - 1 \in 1..N /\ n - 1 \notin T /\ n - 1 \in Nat /\ (n - 1) + 1 = n
    <3>1. n \in 1..N
      BY <2>2
    <3>2. n - 1 \in 1..N /\ n - 1 \in Nat /\ (n - 1) + 1 = n
      BY <1>1, <2>3, <3>1
    <3>3. n - 1 \in T => n <= n - 1
      BY <2>2
    <3> QED BY <3>1, <3>2, <3>3
  <2>5. PICK off : Layout(f[n - 1], off, n - 1)
    BY <2>4
  <2>6. \E at : Layout(f[n - 1] \o Bytes(Output[(n - 1) + 1]), at, (n - 1) + 1)
    BY <2>2, <2>4, <2>5, NextUnit
  <2> QED BY <1>4, <1>5, <2>2, <2>3, <2>4, <2>6
<1>7. N \in 1..N
  BY <1>1
<1> QED BY <1>3, <1>6, <1>7
----------------------------------------------------------------------------
Stream == StreamOf(Output)

\* Unit u begins behind position Off[u], its start code at CodeAt(u).
Off == CHOOSE off : Layout(Stream, off, N)

CodeAt(u) == Off[u] + Output[u].zeros - 1

LEMMA Offsets ==
    /\ Stream \in Seq(Byte) /\ Len(Stream) \in Nat
    /\ Off \in [1..(N + 1) -> Nat] /\ Off[1] = 0 /\ Off[N + 1] = Len(Stream)
    /\ \A u, v \in 1..(N + 1) : u <= v => Off[u] <= Off[v]
<1>1. Layout(Stream, Off, N)
  BY StreamLayout DEF Off, Stream
<1> QED BY <1>1 DEF Layout

LEMMA StreamUnit ==
    ASSUME NEW u \in 1..N
    PROVE  /\ Off[u] \in Nat /\ Off[u + 1] \in Nat
           /\ Off[u + 1] = Off[u] + Output[u].zeros + 1 + Len(Output[u].bytes)
           /\ Off[u + 1] <= Len(Stream)
           /\ \A i \in 1..Output[u].zeros : Stream[Off[u] + i] = 0
           /\ Stream[Off[u] + Output[u].zeros + 1] = 1
           /\ \A i \in 1..Len(Output[u].bytes) :
                 Stream[Off[u] + Output[u].zeros + 1 + i] = Output[u].bytes[i]
<1>1. Layout(Stream, Off, N)
  BY StreamLayout DEF Off, Stream
<1>2. N \in Nat /\ u \in 1..(N + 1) /\ u + 1 \in 1..(N + 1) /\ N + 1 \in 1..(N + 1)
  BY SomeUnits
<1>3. Off[u] \in Nat /\ Off[u + 1] \in Nat /\ Off[u + 1] <= Len(Stream)
  BY <1>2, Offsets
<1>4. /\ Off[u + 1] = Off[u] + Size(u)
      /\ \A i \in 1..Size(u) : Stream[Off[u] + i] = Bytes(Output[u])[i]
  BY <1>1 DEF Layout
<1> DEFINE z == Output[u].zeros
           b == Output[u].bytes
<1>5. z \in {2, 3} /\ Len(b) \in Nat /\ Size(u) = z + 1 + Len(b)
  BY Unit DEF Size
<1>6. /\ \A i \in 1..z : Bytes(Output[u])[i] = 0
      /\ Bytes(Output[u])[z + 1] = 1
      /\ \A i \in 1..Len(b) : Bytes(Output[u])[z + 1 + i] = b[i]
  BY BytesOfUnit
<1> HIDE DEF z, b
<1>7. \A i \in 1..z : Stream[Off[u] + i] = 0
  BY <1>4, <1>5, <1>6
<1>8. Stream[Off[u] + z + 1] = 1
  <2>1. z + 1 \in 1..Size(u) /\ Off[u] + (z + 1) = Off[u] + z + 1
    BY <1>3, <1>5
  <2>2. Stream[Off[u] + (z + 1)] = Bytes(Output[u])[z + 1]
    BY <1>4, <2>1
  <2> QED BY <1>6, <2>1, <2>2
<1>9. ASSUME NEW i \in 1..Len(b) PROVE Stream[Off[u] + z + 1 + i] = b[i]
  <2>1. z \in Nat /\ Len(b) \in Nat /\ Off[u] \in Nat
    BY <1>3, <1>5
  <2>2. z + 1 + i \in 1..(z + 1 + Len(b)) /\ Off[u] + (z + 1 + i) = Off[u] + z + 1 + i
    BY <2>1
  <2>3. z + 1 + i \in 1..Size(u) /\ Off[u] + (z + 1 + i) = Off[u] + z + 1 + i
    BY <1>5, <2>2
  <2>4. Stream[Off[u] + (z + 1 + i)] = Bytes(Output[u])[z + 1 + i]
    BY <1>4, <2>3
  <2>5. Bytes(Output[u])[z + 1 + i] = b[i]
    BY <1>6
  <2>6. Stream[Off[u] + z + 1 + i] = Stream[Off[u] + (z + 1 + i)]
    BY <2>2
  <2> QED BY <2>4, <2>5, <2>6
<1>10. Off[u + 1] = Off[u] + z + 1 + Len(b)
  <2>1. Off[u + 1] = Off[u] + (z + 1 + Len(b))
    BY <1>4, <1>5
  <2> DEFINE o == Off[u]
             l == Len(b)
  <2>2. o \in Nat /\ z \in Nat /\ l \in Nat
    BY <1>3, <1>5
  <2> HIDE DEF o, l
  <2>3. o + (z + 1 + l) = o + z + 1 + l
    BY <2>2
  <2> QED BY <2>1, <2>3 DEF o, l
<1>11. /\ \A i \in 1..Len(b) : Stream[Off[u] + z + 1 + i] = b[i]
       /\ Off[u + 1] = Off[u] + z + 1 + Len(b) /\ Stream[Off[u] + z + 1] = 1
       /\ \A i \in 1..z : Stream[Off[u] + i] = 0
  BY <1>7, <1>8, <1>9, <1>10
<1> QED BY <1>3, <1>11 DEF z, b

LEMMA UnitAt ==
    ASSUME NEW p \in 1..Len(Stream)
    PROVE  \E u \in 1..N : Off[u] < p /\ p <= Off[u + 1]
<1> DEFINE T == {v \in 1..(N + 1) : p <= Off[v]}
<1>1. N \in Nat /\ N + 1 \in T /\ T \in SUBSET Nat
  BY SomeUnits, Offsets
<1>2. PICK v \in T : \A w \in T : v <= w
  BY <1>1, LeastNat
<1>3. v \in 1..(N + 1) /\ v # 1
  BY <1>2, Offsets
<1>4. v - 1 \in 1..(N + 1) /\ ~(v <= v - 1) /\ (v - 1) + 1 = v
  BY <1>1, <1>3
<1>5. Off[v - 1] < p
  BY <1>1, <1>2, <1>4, Offsets
<1>6. v - 1 \in 1..N
  BY <1>1, <1>3
<1>7. p <= Off[(v - 1) + 1]
  BY <1>2, <1>4
<1> QED BY <1>5, <1>6, <1>7

\* The start codes in the stream are those of the units.
LEMMA CodesOfUnits ==
    ASSUME NEW i \in Nat \ {0}, StartCodeAt(Stream, i)
    PROVE  \E u \in 1..N : i = CodeAt(u)
<1>1. /\ i + 2 \in 1..Len(Stream)
      /\ Stream[i] = 0 /\ Stream[i + 1] = 0 /\ Stream[i + 2] = 1
  BY Offsets DEF StartCodeAt
<1>2. PICK u \in 1..N : Off[u] < i + 2 /\ i + 2 <= Off[u + 1]
  BY <1>1, UnitAt
<1> DEFINE z == Output[u].zeros
           b == Output[u].bytes
           o == Off[u]
           j == i + 2 - o
<1>3. /\ z \in {2, 3} /\ Len(b) \in Nat /\ o \in Nat
      /\ Off[u + 1] = o + z + 1 + Len(b)
      /\ \A k \in 1..z : Stream[o + k] = 0
      /\ Stream[o + z + 1] = 1
      /\ \A k \in 1..Len(b) : Stream[o + z + 1 + k] = b[k]
  BY Unit, StreamUnit
<1>4. \A k \in 1..Len(b) : ~StartCodeAt(b, k)
  BY OutputAssumption DEF N
<1>5. o < i + 2 /\ i + 2 <= o + z + 1 + Len(b)
  BY <1>2, <1>3
<1> HIDE DEF z, b, o
<1>6. z \in Nat /\ o \in Nat /\ Len(b) \in Nat
  BY <1>3
<1>7. j \in 1..(z + 1 + Len(b)) /\ i + 2 = o + j /\ i + 1 = o + j - 1 /\ i = o + j - 2
  BY <1>5, <1>6
<1> HIDE DEF j
<1>8. j > z
  <2>1. ~(j <= z) => j > z
    BY <1>7, <1>6
  <2>2. j <= z => j \in 1..z
    BY <1>7, <1>6
  <2>3. j \notin 1..z
    BY <1>1, <1>3, <1>7
  <2> QED BY <2>1, <2>2, <2>3
<1>9. j # z + 2
  <2>1. j = z + 2 => i + 1 = o + z + 1
    BY <1>3, <1>7
  <2> QED BY <2>1, <1>1, <1>3
<1>10. j # z + 3
  <2>1. j = z + 3 => i = o + z + 1
    BY <1>3, <1>7
  <2> QED BY <2>1, <1>1, <1>3
<1>11. ~(j > z + 3)
  <2> SUFFICES ASSUME j > z + 3 PROVE FALSE
    OBVIOUS
  <2> DEFINE k == j - z - 3
  <2>1. /\ k \in 1..Len(b) /\ k + 1 \in 1..Len(b) /\ k + 2 \in 1..Len(b)
        /\ i = o + z + 1 + k /\ i + 1 = o + z + 1 + (k + 1) /\ i + 2 = o + z + 1 + (k + 2)
    BY <1>3, <1>7
  <2> HIDE DEF k
  <2>2. \A m \in 1..Len(b) : Stream[o + z + 1 + m] = b[m]
    BY <1>3
  <2>3. b[k] = 0
    BY <1>1, <2>1, <2>2
  <2>4. b[k + 1] = 0
    BY <1>1, <2>1, <2>2
  <2>5. b[k + 2] = 1
    BY <1>1, <2>1, <2>2
  <2>6. b[k] = 0 /\ b[k + 1] = 0 /\ b[k + 2] = 1 /\ k + 2 <= Len(b)
    BY <1>6, <2>1, <2>3, <2>4, <2>5
  <2>7. StartCodeAt(b, k)
    BY <2>6 DEF StartCodeAt
  <2> QED BY <1>4, <2>1, <2>7
<1>12. j = z + 1
  BY <1>3, <1>7, <1>8, <1>9, <1>10, <1>11
<1>13. i = o + z - 1
  BY <1>3, <1>7, <1>12
<1> QED BY <1>13 DEF CodeAt, o, z

LEMMA UnitsHaveCodes ==
    ASSUME NEW u \in 1..N
    PROVE  CodeAt(u) \in Nat \ {0} /\ StartCodeAt(Stream, CodeAt(u))
<1> DEFINE z == Output[u].zeros
           o == Off[u]
           l == Len(Output[u].bytes)
<1>1. /\ z \in {2, 3} /\ o \in Nat /\ l \in Nat
      /\ o + z + 1 + l <= Len(Stream)
      /\ \A k \in 1..z : Stream[o + k] = 0
      /\ Stream[o + z + 1] = 1
  BY Unit, StreamUnit
<1>2. Len(Stream) \in Nat
  BY Offsets
<1> HIDE DEF z, o, l
<1>3. o \in Nat /\ z \in {2, 3} /\ o + z + 1 <= Len(Stream)
  BY <1>1, <1>2
<1>4. /\ o + z - 1 \in Nat \ {0} /\ (o + z - 1) + 2 <= Len(Stream)
      /\ (o + z - 1) + 2 = o + z + 1
      /\ o + z - 1 = o + (z - 1) /\ (o + z - 1) + 1 = o + z
      /\ z - 1 \in 1..z /\ z \in 1..z
  BY <1>3, <1>2
<1>5. Stream[o + z - 1] = 0 /\ Stream[(o + z - 1) + 1] = 0 /\ Stream[(o + z - 1) + 2] = 1
  BY <1>1, <1>4
<1>6. StartCodeAt(Stream, o + z - 1)
  BY <1>4, <1>5 DEF StartCodeAt
<1> QED BY <1>4, <1>6 DEF CodeAt, o, z

LEMMA CodesInOrder ==
    ASSUME NEW u \in 1..N, NEW v \in 1..N, u < v
    PROVE  /\ CodeAt(u) \in Nat /\ CodeAt(v) \in Nat /\ CodeAt(u) < CodeAt(v)
           /\ CodeAt(v) >= Off[u + 1] + 1
<1> DEFINE z == Output[u].zeros
           y == Output[v].zeros
           l == Len(Output[u].bytes)
<1>1. /\ z \in {2, 3} /\ y \in {2, 3} /\ l \in Nat
      /\ Off[u] \in Nat /\ Off[v] \in Nat /\ Off[u + 1] \in Nat
      /\ Off[u + 1] = Off[u] + z + 1 + l
  BY Unit, StreamUnit
<1>2. u + 1 \in 1..(N + 1) /\ v \in 1..(N + 1) /\ u + 1 <= v
  BY SomeUnits
<1>3. Off[u + 1] <= Off[v]
  BY <1>2, Offsets
<1> HIDE DEF z, y, l
<1>4. Off[u] + z - 1 \in Nat /\ Off[v] + y - 1 \in Nat
  BY <1>1
<1>5. Off[u] + z - 1 < Off[v] + y - 1 /\ Off[v] + y - 1 >= Off[u + 1] + 1
  BY <1>1, <1>3
<1> QED BY <1>4, <1>5 DEF CodeAt, z, y

----------------------------------------------------------------------------
\* d is what the stream has behind a position.
Behind(d, at) ==
    /\ d \in Seq(Byte) /\ at + Len(d) <= Len(Stream)
    /\ \A i \in 1..Len(d) : d[i] = Stream[at + i]

\* d lies in the stream where unit u begins.
Window(d, u) == Behind(d, Off[u])

LEMMA CodesOfWindow ==
    ASSUME NEW u \in 1..(N + 1), NEW d, Window(d, u),
           NEW i \in Nat \ {0}, StartCodeAt(d, i)
    PROVE  \E n \in u..N : Off[u] + i = CodeAt(n)
<1>1. /\ Off[u] \in Nat /\ Len(d) \in Nat /\ Len(Stream) \in Nat
      /\ Off[u] + Len(d) <= Len(Stream)
  BY Offsets DEF Window, Behind
<1>2. /\ i \in 1..Len(d) /\ i + 1 \in 1..Len(d) /\ i + 2 \in 1..Len(d)
      /\ d[i] = 0 /\ d[i + 1] = 0 /\ d[i + 2] = 1
  BY <1>1 DEF StartCodeAt
<1>3. d[i] = Stream[Off[u] + i] /\ d[i + 1] = Stream[Off[u] + (i + 1)]
      /\ d[i + 2] = Stream[Off[u] + (i + 2)]
  BY <1>2 DEF Window, Behind
<1>4. /\ Off[u] + i \in Nat \ {0} /\ (Off[u] + i) + 2 <= Len(Stream)
      /\ (Off[u] + i) + 1 = Off[u] + (i + 1) /\ (Off[u] + i) + 2 = Off[u] + (i + 2)
  <2> DEFINE o == Off[u]
             l == Len(d)
             t == Len(Stream)
  <2>1. o \in Nat /\ l \in Nat /\ t \in Nat /\ o + l <= t /\ i + 2 \in 1..l
    BY <1>1, <1>2
  <2> HIDE DEF o, l, t
  <2>2. /\ o + i \in Nat \ {0} /\ (o + i) + 2 <= t
        /\ (o + i) + 1 = o + (i + 1) /\ (o + i) + 2 = o + (i + 2)
    BY <2>1
  <2> QED BY <2>2 DEF o, l, t
<1>5. StartCodeAt(Stream, Off[u] + i)
  BY <1>2, <1>3, <1>4 DEF StartCodeAt
<1>6. PICK n \in 1..N : Off[u] + i = CodeAt(n)
  BY <1>4, <1>5, CodesOfUnits
<1>7. ASSUME n < u PROVE FALSE
  <2> DEFINE z == Output[n].zeros
             l == Len(Output[n].bytes)
  <2>1. /\ z \in {2, 3} /\ l \in Nat /\ Off[n] \in Nat
        /\ Off[n + 1] = Off[n] + z + 1 + l
    BY Unit, StreamUnit
  <2>2. n + 1 \in 1..(N + 1) /\ n + 1 <= u
    BY <1>7, SomeUnits
  <2>3. Off[n + 1] <= Off[u] /\ Off[n + 1] \in Nat
    BY <2>2, Offsets
  <2>4. Off[u] + i = Off[n] + z - 1
    BY <1>6 DEF CodeAt
  <2> DEFINE o == Off[u]
             m == Off[n]
  <2>5. o \in Nat /\ m \in Nat /\ m + z + 1 + l <= o /\ o + i = m + z - 1
    BY <1>1, <2>1, <2>3, <2>4
  <2>6. z \in Nat /\ l \in Nat
    BY <2>1
  <2> HIDE DEF z, l, o, m
  <2> QED BY <2>5, <2>6
<1>8. n \in u..N
  BY <1>7, SomeUnits
<1> QED BY <1>6, <1>8

LEMMA WindowHasCodes ==
    ASSUME NEW u \in 1..(N + 1), NEW d, Window(d, u),
           NEW i \in Nat \ {0}, i + 2 <= Len(d), NEW n \in 1..N, Off[u] + i = CodeAt(n)
    PROVE  StartCodeAt(d, i)
<1>1. Off[u] \in Nat /\ Len(d) \in Nat
  BY Offsets DEF Window, Behind
<1>2. /\ Stream[CodeAt(n)] = 0 /\ Stream[CodeAt(n) + 1] = 0 /\ Stream[CodeAt(n) + 2] = 1
  BY UnitsHaveCodes DEF StartCodeAt
<1>3. /\ i \in 1..Len(d) /\ i + 1 \in 1..Len(d) /\ i + 2 \in 1..Len(d)
      /\ CodeAt(n) + 1 = Off[u] + (i + 1) /\ CodeAt(n) + 2 = Off[u] + (i + 2)
  BY <1>1
<1>4. d[i] = Stream[Off[u] + i] /\ d[i + 1] = Stream[Off[u] + (i + 1)]
      /\ d[i + 2] = Stream[Off[u] + (i + 2)]
  BY <1>3 DEF Window, Behind
<1>5. d[i] = 0 /\ d[i + 1] = 0 /\ d[i + 2] = 1
  BY <1>2, <1>3, <1>4
<1> QED BY <1>5 DEF StartCodeAt

\* What bytes.Index returns: the first code from a position on.
LEMMA FirstCode ==
    ASSUME NEW d \in Seq(Byte), NEW from \in Nat \ {0},
           StartCode(d, from) # 0 \/ \E i \in from..Len(d) : StartCodeAt(d, i)
    PROVE  /\ StartCode(d, from) \in from..Len(d)
           /\ StartCodeAt(d, StartCode(d, from))
           /\ \A j \in from..(StartCode(d, from) - 1) : ~StartCodeAt(d, j)
<1> DEFINE First(r) == StartCodeAt(d, r) /\ \A j \in from..(r - 1) : ~StartCodeAt(d, j)
           T == {r \in from..Len(d) : StartCodeAt(d, r)}
<1>1. Len(d) \in Nat
  OBVIOUS
<1>2. \E i \in from..Len(d) : StartCodeAt(d, i)
  BY DEF StartCode
<1>3. T # {} /\ T \in SUBSET Nat
  BY <1>1, <1>2
<1>4. PICK r \in T : \A y \in T : r <= y
  BY <1>3, LeastNat
<1>5. r \in from..Len(d) /\ StartCodeAt(d, r)
  BY <1>4
<1>6. ASSUME NEW j \in from..(r - 1), StartCodeAt(d, j) PROVE FALSE
  <2>1. j \in from..Len(d) /\ ~(r <= j)
    BY <1>1, <1>5
  <2> QED BY <1>4, <1>6, <2>1
<1>7. First(r)
  BY <1>5, <1>6
<1>8. StartCode(d, from) = CHOOSE i \in from..Len(d) : First(i)
  BY <1>2 DEF StartCode
<1> HIDE DEF First
<1>9. StartCode(d, from) \in from..Len(d) /\ First(StartCode(d, from))
  BY <1>5, <1>7, <1>8
<1> QED BY <1>9 DEF First

\* The first code of a window from a position on is that of the first unit
\* whose code is not before it.
LEMMA CodeFound ==
    ASSUME NEW u \in 1..(N + 1), NEW d, Window(d, u),
           NEW from \in Nat \ {0}, StartCode(d, from) # 0,
           NEW v \in u..(N + 1),
           \A n \in u..N : CodeAt(n) >= Off[u] + from <=> n >= v
    PROVE  v \in u..N /\ Off[u] + StartCode(d, from) = CodeAt(v)
<1> DEFINE r == StartCode(d, from)
<1>1. d \in Seq(Byte) /\ Len(d) \in Nat /\ Off[u] \in Nat /\ N \in Nat
  BY Offsets, SomeUnits DEF Window, Behind
<1>2. /\ r \in from..Len(d) /\ StartCodeAt(d, r)
      /\ \A j \in from..(r - 1) : ~StartCodeAt(d, j)
  BY <1>1, FirstCode
<1> HIDE DEF r
<1>3. r \in Nat \ {0} /\ r + 2 <= Len(d)
  BY <1>1, <1>2 DEF StartCodeAt
<1>4. PICK n \in u..N : Off[u] + r = CodeAt(n)
  BY <1>2, <1>3, CodesOfWindow
<1>5. n >= v
  BY <1>1, <1>2, <1>3, <1>4
<1>6. v \in u..N /\ v \in 1..N /\ n \in 1..N
  BY <1>1, <1>5
<1>7. ASSUME n # v PROVE FALSE
  <2>1. v < n
    BY <1>5, <1>6, <1>7
  <2>2. CodeAt(v) \in Nat /\ CodeAt(v) < Off[u] + r /\ CodeAt(v) >= Off[u] + from
    BY <1>4, <1>6, <2>1, CodesInOrder
  <2> DEFINE j == CodeAt(v) - Off[u]
  <2>3. /\ j \in from..(r - 1) /\ j \in Nat \ {0} /\ j + 2 <= Len(d)
        /\ Off[u] + j = CodeAt(v)
    <3> DEFINE o == Off[u]
               c == CodeAt(v)
    <3>1. /\ o \in Nat /\ c \in Nat /\ c < o + r /\ c >= o + from
          /\ r \in Nat /\ r + 2 <= Len(d) /\ Len(d) \in Nat
      BY <1>1, <1>3, <2>2
    <3> HIDE DEF o, c
    <3>2. c - o \in from..(r - 1) /\ c - o \in Nat \ {0} /\ (c - o) + 2 <= Len(d) /\ o + (c - o) = c
      BY <3>1
    <3> QED BY <3>2 DEF o, c
  <2> HIDE DEF j
  <2>4. StartCodeAt(d, j)
    BY <1>6, <2>3, WindowHasCodes
  <2> QED BY <1>2, <2>3, <2>4
<1> QED BY <1>4, <1>6, <1>7 DEF r

\* SubSeq(d, from, to) of bytes, element by element.
LEMMA Piece ==
    ASSUME NEW d \in Seq(Byte), NEW from \in Nat \ {0}, NEW to \in Nat,
           to <= Len(d), from <= to + 1
    PROVE  /\ SubSeq(d, from, to) \in Seq(Byte)
           /\ Len(SubSeq(d, from, to)) = to - from + 1
           /\ \A i \in 1..(to - from + 1) : SubSeq(d, from, to)[i] = d[from + i - 1]
<1>1. \A i \in from..to : d[i] \in Byte
  OBVIOUS
<1>2. from \in Int /\ to \in Int
  OBVIOUS
<1>3. /\ SubSeq(d, from, to) \in Seq(Byte)
      /\ Len(SubSeq(d, from, to)) = IF from <= to THEN to - from + 1 ELSE 0
      /\ \A i \in 1..(to - from + 1) : SubSeq(d, from, to)[i] = d[from + i - 1]
  BY <1>1, <1>2, SubSeqProperties
<1> QED BY <1>3

\* The first start code of a window is that of the unit it begins with.
LEMMA StartOfUnit ==
    ASSUME NEW u \in 1..(N + 1), NEW d, Window(d, u), StartCode(d, 1) # 0
    PROVE  u \in 1..N /\ UnitStart(d) = Output[u].zeros + 2
<1> DEFINE z == Output[u].zeros
           o == Off[u]
<1>1. d \in Seq(Byte) /\ o \in Nat /\ N \in Nat
  BY Offsets, SomeUnits DEF Window, Behind
<1>2. ASSUME NEW n \in u..N
      PROVE  CodeAt(n) >= o + 1 /\ CodeAt(n) \in Nat
  <2>1. n \in 1..N /\ n \in 1..(N + 1) /\ u <= n
    BY <1>1
  <2> DEFINE m == Off[n]
             k == Output[n].zeros
  <2>2. m >= o /\ m \in Nat
    BY <2>1, Offsets
  <2>3. k \in {2, 3} /\ CodeAt(n) = m + k - 1
    BY <2>1, Unit DEF CodeAt
  <2> HIDE DEF m, k, o
  <2>4. m + k - 1 >= o + 1 /\ m + k - 1 \in Nat
    BY <1>1, <2>2, <2>3
  <2> QED BY <2>3, <2>4
<1>3. u \in u..N /\ o + StartCode(d, 1) = CodeAt(u)
  <2>1. \A n \in u..N : CodeAt(n) >= Off[u] + 1 <=> n >= u
    BY <1>1, <1>2
  <2>2. u \in u..(N + 1)
    BY <1>1
  <2> HIDE DEF o
  <2> QED BY <1>1, <2>1, <2>2, CodeFound DEF o
<1>4. u \in 1..N
  BY <1>1, <1>3
<1>5. z \in {2, 3}
  BY <1>4, Unit
<1>6. CodeAt(u) = o + z - 1
  BY DEF CodeAt
<1> HIDE DEF z, o
<1>7. UnitStart(d) = z + 2
  <2> DEFINE r == StartCode(d, 1)
  <2>1. r \in Nat
    BY <1>1, FirstCode
  <2> HIDE DEF r
  <2>2. o + r = o + z - 1
    BY <1>3, <1>6 DEF r
  <2>3. o \in Nat /\ z \in Nat
    BY <1>1, <1>5
  <2>4. r + 3 = z + 2
    BY <2>1, <2>2, <2>3
  <2> QED BY <2>4 DEF r, UnitStart
<1> QED BY <1>4, <1>7 DEF z

\* extractOneNALU on a part of any stream that begins where unit u does, however
\* far it reaches: when it finds a unit, that is u without a byte of the start
\* codes around it, and what is left begins where the next unit does.
THEOREM Extracted ==
    ASSUME NEW u \in 1..(N + 1), NEW d, Window(d, u), HasNALU(d)
    PROVE  /\ u \in 1..N
           /\ ExtractOneNALU(d).nalu = Output[u].bytes
           /\ Window(ExtractOneNALU(d).rest, u + 1)
           /\ Off[u + 1] + Len(ExtractOneNALU(d).rest) = Off[u] + Len(d)
<1> DEFINE z == Output[u].zeros
           y == Output[u + 1].zeros
           b == Output[u].bytes
           l == Len(b)
           o == Off[u]
           w == z + l + 2
<1>1. /\ d \in Seq(Byte) /\ Len(d) \in Nat /\ o \in Nat /\ N \in Nat
      /\ StartCode(d, 1) # 0 /\ UnitEnd(d) # 0
  BY Offsets, SomeUnits DEF Window, Behind, HasNALU
<1>2. u \in 1..N /\ UnitStart(d) = Output[u].zeros + 2
  BY <1>1, StartOfUnit
<1>3. u \in u..N
  BY <1>1, <1>2
<1>4. u \in 1..N /\ u + 1 \in 1..(N + 1) /\ u + 1 \in u..(N + 1)
  BY <1>1, <1>3
<1>5. /\ z \in {2, 3} /\ b \in Seq(Byte) /\ l \in Nat \ {0}
      /\ Off[u + 1] = o + z + 1 + l
      /\ \A i \in 1..l : Stream[o + z + 1 + i] = b[i]
  BY <1>4, Unit, StreamUnit
<1>6. CodeAt(u) = o + z - 1
  BY DEF CodeAt
<1>7. UnitStart(d) = z + 2
  BY <1>2
<1> HIDE DEF z, b, l, o
<1>8. u + 1 \in u..N /\ o + UnitEnd(d) = CodeAt(u + 1)
  <2>1. ASSUME NEW n \in u..N
        PROVE  CodeAt(n) >= o + (z + 2) <=> n >= u + 1
    <3>1. CASE n = u
      <4>1. ~(o + z - 1 >= o + (z + 2))
        BY <1>1, <1>5
      <4> QED BY <3>1, <4>1, <1>4, <1>6
    <3>2. CASE n # u
      <4>1. n \in 1..N /\ u < n /\ n >= u + 1
        BY <1>1, <1>4, <3>2
      <4>2. CodeAt(n) >= (o + z + 1 + l) + 1 /\ CodeAt(n) \in Nat
        BY <1>4, <1>5, <4>1, CodesInOrder
      <4>3. CodeAt(n) >= o + (z + 2)
        BY <1>1, <1>5, <4>2
      <4> QED BY <4>1, <4>3
    <3> QED BY <3>1, <3>2
  <2>2. z + 2 \in Nat \ {0} /\ StartCode(d, z + 2) # 0
    BY <1>1, <1>5, <1>7 DEF UnitEnd
  <2>3. u + 1 \in u..N /\ o + StartCode(d, z + 2) = CodeAt(u + 1)
    BY <1>4, <2>1, <2>2, CodeFound DEF o
  <2> QED BY <1>7, <2>3 DEF UnitEnd
<1>9. /\ u + 1 \in 1..N
      /\ y \in {2, 3} /\ \A i \in 1..y : Stream[Off[u + 1] + i] = 0
      /\ CodeAt(u + 1) = Off[u + 1] + y - 1
  <2>1. u + 1 \in 1..N
    BY <1>1, <1>4, <1>8
  <2> QED BY <2>1, Unit, StreamUnit DEF CodeAt
<1> HIDE DEF y
<1> DEFINE e == UnitEnd(d)
<1>10. /\ e \in Nat /\ e + 2 <= Len(d)
       /\ e = z + l + y
  <2>1. StartCode(d, z + 2) # 0 /\ z + 2 \in Nat \ {0} /\ e = StartCode(d, z + 2)
    BY <1>1, <1>5, <1>7 DEF UnitEnd
  <2>2. e \in (z + 2)..Len(d) /\ StartCodeAt(d, e)
    BY <1>1, <2>1, FirstCode
  <2> HIDE DEF e
  <2>3. e \in Nat /\ e + 2 <= Len(d)
    BY <1>1, <1>5, <2>2 DEF StartCodeAt
  <2>4. o + e = (o + z + 1 + l) + y - 1
    BY <1>5, <1>8, <1>9 DEF e
  <2> QED BY <1>1, <1>5, <1>9, <2>3, <2>4
<1> HIDE DEF e
<1>11. /\ z \in Nat /\ l \in Nat \ {0} /\ y \in {2, 3} /\ e \in Nat /\ Len(d) \in Nat
      /\ e = z + l + y /\ e + 2 <= Len(d)
  BY <1>1, <1>5, <1>9, <1>10
<1>12. \A i \in 1..Len(d) : d[i] = Stream[o + i]
  BY DEF Window, Behind, o
<1>13. ASSUME NEW floor \in {1, z + 2}
       PROVE  WithZero(d, e, floor) = w
  <2>1. e > floor
    BY <1>5, <1>9, <1>10
  <2>2. CASE y = 3
    <3>1. e - 1 = w /\ w \in 1..Len(d)
      BY <1>11, <2>2
    <3>2. Stream[(o + z + 1 + l) + 1] = 0
      BY <1>5, <1>9, <2>2
    <3>3. (o + z + 1 + l) + 1 = o + w
      BY <1>1, <1>5
    <3>4. d[e - 1] = 0
      BY <1>12, <3>1, <3>2, <3>3
    <3> QED BY <2>1, <3>1, <3>4 DEF WithZero
  <2>3. CASE y = 2
    <3>1. e = w /\ e - 1 = z + 1 + l /\ e - 1 \in 1..Len(d)
      BY <1>1, <1>5, <1>10, <2>3
    <3>2. Stream[o + z + 1 + l] = b[l]
      BY <1>5
    <3>3. o + z + 1 + l = o + (z + 1 + l)
      BY <1>1, <1>5
    <3>4. d[e - 1] = b[l]
      BY <1>12, <3>1, <3>2, <3>3
    <3>5. b[l] # 0
      BY <1>4, OutputAssumption DEF b, l, N
    <3> QED BY <2>1, <3>1, <3>4, <3>5 DEF WithZero
  <2> QED BY <1>9, <2>2, <2>3
<1>14. w \in Nat /\ w <= Len(d) /\ w - 1 <= Len(d) /\ w - 1 = z + l + 1 /\ w - 1 \in Nat
  BY <1>1, <1>5, <1>9, <1>10
<1>15. /\ ExtractOneNALU(d).nalu = SubSeq(d, z + 2, z + l + 1)
       /\ ExtractOneNALU(d).rest = SubSeq(d, w, Len(d))
  <2>1. UnitEnd(d) = e /\ e # 0
    BY <1>1 DEF e
  <2>2. WithZero(d, e, z + 2) = w /\ WithZero(d, e, 1) = w
    BY <1>13
  <2> HIDE DEF w
  <2> QED BY <1>7, <1>14, <2>1, <2>2 DEF ExtractOneNALU
<1>16. SubSeq(d, z + 2, z + l + 1) = b
  <2> DEFINE p == SubSeq(d, z + 2, z + l + 1)
  <2>1. z + 2 \in Nat \ {0} /\ z + l + 1 \in Nat /\ z + l + 1 <= Len(d)
        /\ z + 2 <= (z + l + 1) + 1 /\ (z + l + 1) - (z + 2) + 1 = l
    BY <1>5, <1>14
  <2>2. p \in Seq(Byte) /\ Len(p) = l /\ \A i \in 1..l : p[i] = d[(z + 2) + i - 1]
    BY <1>1, <2>1, Piece
  <2> HIDE DEF p
  <2>3. ASSUME NEW i \in 1..l PROVE p[i] = b[i]
    <3>1. (z + 2) + i - 1 = z + 1 + i /\ z + 1 + i \in 1..Len(d)
          /\ o + (z + 1 + i) = o + z + 1 + i
      BY <1>1, <1>5, <2>1
    <3> QED BY <1>5, <1>12, <2>2, <3>1
  <2>4. Len(b) = l
    BY DEF l
  <2>5. /\ p \in Seq(Byte) /\ b \in Seq(Byte) /\ Len(p) = Len(b)
        /\ \A i \in 1..Len(p) : p[i] = b[i]
    BY <1>5, <2>2, <2>3, <2>4
  <2>6. p = b
    BY <2>5, SeqEqual
  <2> QED BY <2>6 DEF p
<1> DEFINE rest == SubSeq(d, w, Len(d))
<1>17. /\ rest \in Seq(Byte) /\ Len(rest) = Len(d) - w + 1
       /\ \A i \in 1..Len(rest) : rest[i] = d[w + i - 1]
  <2>1. w \in Nat \ {0} /\ w <= Len(d) + 1
    BY <1>1, <1>5, <1>14
  <2> HIDE DEF w
  <2> QED BY <1>1, <2>1, Piece
<1> HIDE DEF rest
<1>18. Off[u + 1] + Len(rest) = o + Len(d)
  BY <1>1, <1>5, <1>14, <1>17
<1>19. Window(rest, u + 1)
  <2>1. o + Len(d) <= Len(Stream)
    BY DEF Window, Behind, o
  <2>2. ASSUME NEW i \in 1..Len(rest) PROVE rest[i] = Stream[Off[u + 1] + i]
    <3>1. w + i - 1 \in 1..Len(d) /\ o + (w + i - 1) = (o + z + 1 + l) + i
      BY <1>1, <1>5, <1>14, <1>17
    <3> QED BY <1>5, <1>12, <1>17, <3>1
  <2> QED BY <1>17, <1>18, <2>1, <2>2 DEF Window, Behind
<1> QED BY <1>4, <1>15, <1>16, <1>18, <1>19 DEF rest, b, o
\* A unit is complete when the start code behind it has come.
LEMMA UnitComplete ==
    ASSUME NEW u \in 1..N, u + 1 \in 1..N, NEW d, Window(d, u),
           CodeAt(u + 1) + 2 <= Off[u] + Len(d)
    PROVE  HasNALU(d)
<1> DEFINE o == Off[u]
           z == Output[u].zeros
           l == Len(Output[u].bytes)
           n == Len(d)
           i == CodeAt(u) - o
           j == CodeAt(u + 1) - o
<1>1. d \in Seq(Byte) /\ n \in Nat /\ u < u + 1 /\ u \in 1..(N + 1)
  BY SomeUnits DEF Window, Behind
<1>2. /\ o \in Nat /\ z \in {2, 3} /\ l \in Nat \ {0}
      /\ Off[u + 1] = o + z + 1 + l /\ CodeAt(u) = o + z - 1
  BY Unit, StreamUnit DEF CodeAt
<1>3. CodeAt(u + 1) \in Nat /\ CodeAt(u) < CodeAt(u + 1) /\ CodeAt(u + 1) >= Off[u + 1] + 1
  BY <1>1, CodesInOrder
<1>4. /\ i \in 1..n /\ i \in Nat \ {0} /\ i + 2 <= n /\ o + i = CodeAt(u)
      /\ j \in (z + 2)..n /\ j \in Nat \ {0} /\ j + 2 <= n /\ o + j = CodeAt(u + 1)
  <2> DEFINE c == CodeAt(u)
             e == CodeAt(u + 1)
             m == Off[u + 1]
  <2>1. /\ o \in Nat /\ z \in {2, 3} /\ l \in Nat \ {0} /\ n \in Nat /\ e \in Nat
        /\ m = o + z + 1 + l /\ c = o + z - 1 /\ c < e /\ e >= m + 1 /\ e + 2 <= o + n
    BY <1>1, <1>2, <1>3
  <2> HIDE DEF c, e, m, o, z, l, n
  <2>2. /\ c - o \in 1..n /\ c - o \in Nat \ {0} /\ (c - o) + 2 <= n /\ o + (c - o) = c
        /\ e - o \in (z + 2)..n /\ e - o \in Nat \ {0} /\ (e - o) + 2 <= n
        /\ o + (e - o) = e
    BY <2>1
  <2> QED BY <2>2 DEF c, e
<1> HIDE DEF i, j, n, z, l, o
<1>5. StartCodeAt(d, i)
  BY <1>1, <1>4, WindowHasCodes DEF n, o
<1>6. StartCodeAt(d, j)
  BY <1>1, <1>4, WindowHasCodes DEF n, o
<1>7. StartCode(d, 1) # 0
  <2>1. 1 \in Nat \ {0} /\ i \in 1..Len(d)
    BY <1>4 DEF n
  <2>2. StartCode(d, 1) \in 1..Len(d)
    BY <1>1, <1>5, <2>1, FirstCode
  <2> QED BY <2>2
<1>8. UnitStart(d) = z + 2
  BY <1>1, <1>7, StartOfUnit DEF z
<1>9. StartCode(d, z + 2) # 0
  <2>1. z + 2 \in Nat \ {0}
    BY <1>2
  <2>2. j \in (z + 2)..Len(d)
    BY <1>4 DEF n
  <2>3. StartCode(d, z + 2) \in (z + 2)..Len(d)
    BY <1>1, <1>6, <2>1, <2>2, FirstCode
  <2> QED BY <2>1, <2>3
<1> QED BY <1>7, <1>8, <1>9 DEF HasNALU, UnitEnd
----------------------------------------------------------------------------
\* The unit of a type, and the parameter sets.
UnitOf(type) == CHOOSE j \in 1..N : NALUType(Output[j].bytes) = type

SPSAt == UnitOf(SPSType)
PPSAt == UnitOf(PPSType)
TheSPS == TheUnit(SPSType)
ThePPS == TheUnit(PPSType)

LEMMA ParameterSets ==
    /\ SPSAt \in 1..N /\ PPSAt \in 1..N /\ SPSAt < PPSAt
    /\ \A i \in 1..N : NALUType(Output[i].bytes) = SPSType <=> i = SPSAt
    /\ \A i \in 1..N : NALUType(Output[i].bytes) = PPSType <=> i = PPSAt
    /\ TheSPS = Output[SPSAt].bytes /\ ThePPS = Output[PPSAt].bytes
<1>1. PICK s \in 1..N, p \in 1..N :
         /\ s < p
         /\ \A i \in 1..N : NALUType(Output[i].bytes) = SPSType <=> i = s
         /\ \A i \in 1..N : NALUType(Output[i].bytes) = PPSType <=> i = p
  BY OutputAssumption DEF N
<1>2. SPSAt = s
  BY <1>1 DEF SPSAt, UnitOf
<1>3. PPSAt = p
  BY <1>1 DEF PPSAt, UnitOf
<1>4. TheSPS = Output[SPSAt].bytes /\ ThePPS = Output[PPSAt].bytes
  BY DEF TheSPS, ThePPS, TheUnit, SPSAt, PPSAt, UnitOf, N
<1> QED BY <1>1, <1>2, <1>3, <1>4

\* The units before u have been split off what has been read.
SplitUpTo(u) ==
    /\ Window(acc, u) /\ Behind(todo, Off[u] + Len(acc))
    /\ sps = IF u > SPSAt THEN TheSPS ELSE <<>>
    /\ pps = IF u > PPSAt THEN ThePPS ELSE <<>>
    /\ ready \in BOOLEAN /\ (ready <=> u > PPSAt)

Whole == [sps |-> TheSPS, pps |-> ThePPS]

Unused == {"renderer", "encoder", "frame"}

\* The reader stands at a unit boundary of what ffmpeg writes, whatever part
\* of it has come; a process that has died owes nothing, and the next one
\* gets nothing.
ReaderInv ==
    /\ \E u \in 1..(N + 1) :
          /\ SplitUpTo(u)
          /\ phase \in Unused => u = 1 /\ acc = <<>> /\ todo = <<>>
    /\ ffmpeg # "alive" => todo = <<>>
    /\ phase = "copy" => ready
    /\ params # None => params = Whole

LEMMA Nothing ==
    ASSUME NEW at \in Nat, at <= Len(Stream)
    PROVE  Behind(<<>>, at)
  BY Offsets DEF Behind

LEMMA OffsetOf ==
    ASSUME NEW u \in 1..(N + 1)
    PROVE  Off[u] \in Nat /\ Off[u] <= Len(Stream)
<1>1. N \in Nat /\ N + 1 \in 1..(N + 1) /\ u <= N + 1
  BY SomeUnits
<1> QED BY <1>1, Offsets

\* What comes after a read piece lies behind it.
LEMMA ReadOn ==
    ASSUME NEW at \in Nat, Behind(acc, at), Behind(todo, at + Len(acc)),
           NEW n \in 1..Len(todo)
    PROVE  LET c == acc \o SubSeq(todo, 1, n)
               r == SubSeq(todo, n + 1, Len(todo))
           IN  /\ Behind(c, at) /\ Behind(r, at + Len(c))
               /\ Len(c) + Len(r) = Len(acc) + Len(todo)
<1> DEFINE h == SubSeq(todo, 1, n)
           c == acc \o h
           r == SubSeq(todo, n + 1, Len(todo))
           a == Len(acc)
           t == Len(todo)
<1>1. /\ acc \in Seq(Byte) /\ todo \in Seq(Byte) /\ Len(Stream) \in Nat
      /\ a \in Nat /\ t \in Nat /\ n \in 1..t
      /\ at + a + t <= Len(Stream)
      /\ \A i \in 1..a : acc[i] = Stream[at + i]
      /\ \A i \in 1..t : todo[i] = Stream[(at + a) + i]
  BY Offsets DEF Behind
<1>2. h \in Seq(Byte) /\ Len(h) = n /\ \A i \in 1..n : h[i] = todo[i]
  <2>1. 1 \in Nat \ {0} /\ n \in Nat /\ n <= Len(todo) /\ 1 <= n + 1 /\ n - 1 + 1 = n
        /\ \A i \in 1..n : 1 + i - 1 = i
    BY <1>1
  <2> QED BY <1>1, <2>1, Piece
<1>3. /\ r \in Seq(Byte) /\ Len(r) = t - n
      /\ \A i \in 1..(t - n) : r[i] = todo[n + i]
  <2>1. n + 1 \in Nat \ {0} /\ Len(todo) \in Nat /\ n + 1 <= Len(todo) + 1
        /\ Len(todo) - (n + 1) + 1 = t - n
        /\ \A i \in 1..(t - n) : n + 1 + i - 1 = n + i
    BY <1>1
  <2>2. /\ r \in Seq(Byte) /\ Len(r) = Len(todo) - (n + 1) + 1
        /\ \A i \in 1..(Len(todo) - (n + 1) + 1) : r[i] = todo[n + 1 + i - 1]
    <3> DEFINE m == n + 1
    <3>1. m \in Nat \ {0} /\ Len(todo) \in Nat /\ m <= Len(todo) + 1 /\ todo \in Seq(Byte)
      BY <1>1, <2>1
    <3> HIDE DEF m
    <3>2. /\ SubSeq(todo, m, Len(todo)) \in Seq(Byte)
          /\ Len(SubSeq(todo, m, Len(todo))) = Len(todo) - m + 1
          /\ \A i \in 1..(Len(todo) - m + 1) : SubSeq(todo, m, Len(todo))[i] = todo[m + i - 1]
      BY <3>1, Piece
    <3> QED BY <3>2 DEF m, r
  <2> HIDE DEF r, t
  <2> QED BY <2>1, <2>2
<1> HIDE DEF h, r
<1>4. /\ c \in Seq(Byte) /\ Len(c) = a + n
      /\ \A i \in 1..(a + n) : c[i] = IF i <= a THEN acc[i] ELSE h[i - a]
  <2>1. /\ c \in Seq(Byte) /\ Len(c) = Len(acc) + Len(h)
        /\ \A i \in 1..(Len(acc) + Len(h)) :
              c[i] = IF i <= Len(acc) THEN acc[i] ELSE h[i - Len(acc)]
    <3>1. acc \in Seq(Byte) /\ h \in Seq(Byte)
      BY <1>1, <1>2
    <3> HIDE DEF a, t
    <3> QED BY <3>1, ConcatProperties
  <2>2. Len(acc) = a /\ Len(h) = n
    BY <1>2
  <2> HIDE DEF a, c
  <2> QED BY <2>1, <2>2
<1> HIDE DEF c, a, t
<1>5. ASSUME NEW i \in 1..Len(c) PROVE c[i] = Stream[at + i]
  <2>1. CASE i <= a
    <3>1. i \in 1..a /\ i \in 1..(a + n)
      BY <1>1, <1>4, <2>1
    <3>2. c[i] = acc[i]
      BY <1>4, <2>1, <3>1
    <3> QED BY <1>1, <3>1, <3>2
  <2>2. CASE ~(i <= a)
    <3>1. a \in Nat /\ t \in Nat /\ n \in 1..t /\ i \in 1..(a + n)
      BY <1>1, <1>4
    <3>2. i - a \in 1..n /\ i - a \in 1..t /\ (at + a) + (i - a) = at + i
      BY <2>2, <3>1
    <3>3. c[i] = h[i - a]
      BY <1>4, <2>2
    <3>4. c[i] = todo[i - a]
      BY <1>2, <3>2, <3>3
    <3>5. todo[i - a] = Stream[(at + a) + (i - a)]
      BY <1>1, <3>2
    <3> QED BY <3>2, <3>4, <3>5
  <2> QED BY <2>1, <2>2
<1>6. ASSUME NEW i \in 1..Len(r) PROVE r[i] = Stream[(at + Len(c)) + i]
  <2>1. a \in Nat /\ t \in Nat /\ n \in 1..t /\ i \in 1..(t - n) /\ Len(c) = a + n
    BY <1>1, <1>3, <1>4
  <2>2. n + i \in 1..t /\ (at + a) + (n + i) = (at + (a + n)) + i
    BY <2>1
  <2>3. r[i] = todo[n + i] /\ todo[n + i] = Stream[(at + a) + (n + i)]
    BY <1>1, <1>3, <2>2, <2>1
  <2> QED BY <2>2, <2>1, <2>3
<1>7. at + Len(c) <= Len(Stream) /\ (at + Len(c)) + Len(r) <= Len(Stream)
  <2>1. /\ a \in Nat /\ t \in Nat /\ n \in 1..t /\ Len(Stream) \in Nat
        /\ at + a + t <= Len(Stream) /\ Len(c) = a + n /\ Len(r) = t - n
    BY <1>1, <1>3, <1>4
  <2> QED BY <2>1
<1>8. Behind(c, at) /\ Behind(r, at + Len(c))
  BY <1>3, <1>4, <1>5, <1>6, <1>7 DEF Behind
<1>9. Len(c) + Len(r) = a + t
  BY <1>1, <1>3, <1>4
<1> QED BY <1>8, <1>9 DEF c, r, h, a, t

LEMMA CaptureStep ==
    ASSUME NEW u \in 1..(N + 1), SplitUpTo(u), Capture
    PROVE  /\ u \in 1..N /\ SplitUpTo(u + 1)'
           /\ Off[u + 1] + Len(acc') = Off[u] + Len(acc)
<1> DEFINE x == ExtractOneNALU(acc)
<1>1. /\ Window(acc, u) /\ Behind(todo, Off[u] + Len(acc))
      /\ sps = IF u > SPSAt THEN TheSPS ELSE <<>>
      /\ pps = IF u > PPSAt THEN ThePPS ELSE <<>>
      /\ ready \in BOOLEAN /\ (ready <=> u > PPSAt)
  BY DEF SplitUpTo
<1>2. HasNALU(acc) /\ UNCHANGED todo
  BY DEF Capture
<1>3. /\ acc' = x.rest
      /\ sps' = IF x.nalu # <<>> /\ NALUType(x.nalu) = SPSType THEN x.nalu ELSE sps
      /\ pps' = IF x.nalu # <<>> /\ NALUType(x.nalu) = PPSType THEN x.nalu ELSE pps
      /\ ready' = (ready \/ (x.nalu # <<>> /\ NALUType(x.nalu) = PPSType))
  BY DEF Capture
<1>4. /\ u \in 1..N /\ x.nalu = Output[u].bytes
      /\ Window(x.rest, u + 1) /\ Off[u + 1] + Len(x.rest) = Off[u] + Len(acc)
  BY <1>1, <1>2, Extracted
<1> HIDE DEF x
<1>5. /\ x.nalu # <<>>
      /\ NALUType(x.nalu) = SPSType <=> u = SPSAt
      /\ NALUType(x.nalu) = PPSType <=> u = PPSAt
      /\ u = SPSAt => x.nalu = TheSPS
      /\ u = PPSAt => x.nalu = ThePPS
      /\ SPSAt \in Nat /\ PPSAt \in Nat
  <2>1. Output[u].bytes # <<>>
    BY <1>4, Unit
  <2> QED BY <1>4, <2>1, ParameterSets
<1>6. Window(acc', u + 1) /\ Behind(todo', Off[u + 1] + Len(acc'))
  BY <1>1, <1>2, <1>3, <1>4
<1>7. sps' = IF u + 1 > SPSAt THEN TheSPS ELSE <<>>
  BY <1>1, <1>3, <1>5
<1>8. pps' = IF u + 1 > PPSAt THEN ThePPS ELSE <<>>
  BY <1>1, <1>3, <1>5
<1>9. ready' \in BOOLEAN /\ (ready' <=> u + 1 > PPSAt)
  <2>1. u + 1 > PPSAt <=> u > PPSAt \/ u = PPSAt
    BY <1>5
  <2>2. ready' = (ready \/ (x.nalu # <<>> /\ NALUType(x.nalu) = PPSType))
    BY <1>3
  <2>3. ready' \in BOOLEAN
    BY <2>2
  <2> QED BY <1>1, <1>5, <2>1, <2>2, <2>3
<1>10. Off[u + 1] + Len(acc') = Off[u] + Len(acc)
  BY <1>3, <1>4
<1> QED BY <1>4, <1>6, <1>7, <1>8, <1>9, <1>10 DEF SplitUpTo

\* A step that leaves the reader alone.
LEMMA ReaderKept ==
    ASSUME ReaderInv, UNCHANGED <<todo, acc, sps, pps, ready, params>>,
           ffmpeg' \in {ffmpeg, "alive"},
           phase' \in Unused => phase \in Unused, phase' = "copy" => ready
    PROVE  ReaderInv'
<1>1. PICK u \in 1..(N + 1) :
         SplitUpTo(u) /\ (phase \in Unused => u = 1 /\ acc = <<>> /\ todo = <<>>)
  BY DEF ReaderInv
<1>2. SplitUpTo(u)'
  BY <1>1 DEF SplitUpTo
<1>3. phase' \in Unused => u = 1 /\ acc' = <<>> /\ todo' = <<>>
  BY <1>1
<1>4. (ffmpeg # "alive" => todo = <<>>)'
  BY DEF ReaderInv
<1>5. (phase = "copy" => ready)' /\ (params # None => params = Whole)'
  BY DEF ReaderInv
<1> QED BY <1>2, <1>3, <1>4, <1>5 DEF ReaderInv

\* A process goes, or its reader stops: nothing more will come.
LEMMA ReaderEmptied ==
    ASSUME ReaderInv, acc' \in {acc, <<>>}, todo' = <<>>,
           UNCHANGED <<sps, pps, ready>>,
           phase' \in Unused => phase \in Unused, phase' = "copy" => ready,
           params' # None => params' = params \/ params' = Whole
    PROVE  ReaderInv'
<1>1. PICK u \in 1..(N + 1) :
         SplitUpTo(u) /\ (phase \in Unused => u = 1 /\ acc = <<>> /\ todo = <<>>)
  BY DEF ReaderInv
<1>2. Off[u] \in Nat /\ Off[u] <= Len(Stream)
  BY OffsetOf
<1>3. Behind(acc, Off[u])
  BY <1>1 DEF SplitUpTo, Window
<1>4. Behind(acc', Off[u]) /\ Len(acc') \in Nat /\ Off[u] + Len(acc') <= Len(Stream)
  <2>1. Behind(acc', Off[u])
    BY <1>2, <1>3, Nothing
  <2>2. Len(acc') \in Nat /\ Off[u] + Len(acc') <= Len(Stream)
    BY <2>1 DEF Behind
  <2> QED BY <2>1, <2>2
<1>5. Behind(todo', Off[u] + Len(acc'))
  BY <1>2, <1>4, Nothing
<1>6. SplitUpTo(u)'
  BY <1>1, <1>4, <1>5 DEF SplitUpTo, Window
<1>7. phase' \in Unused => u = 1 /\ acc' = <<>> /\ todo' = <<>>
  BY <1>1
<1>8. (phase = "copy" => ready)' /\ (params # None => params = Whole)'
  BY DEF ReaderInv
<1> QED BY <1>6, <1>7, <1>8 DEF ReaderInv

\* A reader to which nothing has been written stands at the first unit.
LEMMA AtStart ==
    /\ 1 \in 1..(N + 1) /\ ~(1 > SPSAt) /\ ~(1 > PPSAt)
    /\ Behind(<<>>, Off[1]) /\ Behind(<<>>, Off[1] + Len(<<>>))
<1>1. 1 \in 1..(N + 1) /\ Off[1] = 0 /\ Len(Stream) \in Nat
  BY SomeUnits, Offsets
<1>2. Len(<<>>) = 0 /\ 0 + 0 = 0
  OBVIOUS
<1>3. ~(1 > SPSAt) /\ ~(1 > PPSAt)
  BY ParameterSets
<1> QED BY <1>1, <1>2, <1>3, Nothing

LEMMA ReaderStep ==
    ASSUME ReaderInv, [Next]_vars
    PROVE  ReaderInv'
<1>1. CASE Fatal \/ Kill \/ Shutdown
  <2>1. UNCHANGED <<encVars, params>> /\ phase' \in Ended
    BY <1>1 DEF Fatal, Kill, Shutdown, Goes, Ended
  <2> QED BY <2>1, ReaderKept DEF encVars, Ended, Unused
<1>2. CASE StartAgain
  <2>1. /\ acc' = <<>> /\ todo' = <<>> /\ sps' = <<>> /\ pps' = <<>> /\ ready' = FALSE
        /\ params' = None /\ phase' = "renderer"
    BY <1>2 DEF StartAgain
  <2>2. SplitUpTo(1)'
    BY <2>1, AtStart DEF SplitUpTo, Window
  <2> QED BY <2>1, <2>2, AtStart DEF ReaderInv
<1>3. CASE FfmpegDies
  <2>1. phase = "copy" => ready
    BY DEF ReaderInv
  <2> QED BY <1>3, <2>1, ReaderEmptied DEF FfmpegDies
<1>4. CASE FfmpegRestarts
  <2>1. todo = <<>>
    BY <1>4 DEF FfmpegRestarts, ReaderInv
  <2>2. acc' \in {acc, <<>>} /\ UNCHANGED <<todo, sps, pps, ready, params, phase>>
    BY <1>4 DEF FfmpegRestarts
  <2>3. phase = "copy" => ready
    BY DEF ReaderInv
  <2> QED BY <2>1, <2>2, <2>3, ReaderEmptied
<1>5. CASE ReadChunk
  <2>1. PICK u \in 1..(N + 1) :
           SplitUpTo(u) /\ (phase \in Unused => u = 1 /\ acc = <<>> /\ todo = <<>>)
    BY DEF ReaderInv
  <2>2. /\ ffmpeg = "alive" /\ UNCHANGED <<ffmpeg, phase, sps, pps, ready, params>>
        /\ \E n \in 1..Len(todo) : /\ acc' = acc \o SubSeq(todo, 1, n)
                                   /\ todo' = SubSeq(todo, n + 1, Len(todo))
    BY <1>5 DEF ReadChunk
  <2>3. Behind(acc, Off[u]) /\ Behind(todo, Off[u] + Len(acc)) /\ Off[u] \in Nat
    BY <2>1, OffsetOf DEF SplitUpTo, Window
  <2>4. Behind(acc', Off[u]) /\ Behind(todo', Off[u] + Len(acc'))
    BY <2>2, <2>3, ReadOn
  <2>5. SplitUpTo(u)'
    BY <2>1, <2>2, <2>4 DEF SplitUpTo, Window
  <2>6. todo # <<>> /\ phase \notin Unused
    BY <2>1, <2>2
  <2> QED BY <2>2, <2>5, <2>6 DEF ReaderInv
<1>6. CASE Capture
  <2>1. PICK u \in 1..(N + 1) :
           SplitUpTo(u) /\ (phase \in Unused => u = 1 /\ acc = <<>> /\ todo = <<>>)
    BY DEF ReaderInv
  <2>2. u \in 1..N /\ SplitUpTo(u + 1)'
    BY <1>6, <2>1, CaptureStep
  <2>3. u + 1 \in 1..(N + 1)
    BY <2>2, SomeUnits
  <2>4. HasNALU(acc) /\ UNCHANGED <<ffmpeg, phase, todo, params>> /\ (ready => ready')
    BY <1>6 DEF Capture
  <2>5. acc # <<>>
    BY <2>4 DEF HasNALU, StartCode, StartCodeAt
  <2>6. phase \notin Unused
    BY <2>1, <2>5
  <2> QED BY <2>2, <2>3, <2>4, <2>6 DEF ReaderInv
<1>7. CASE WriteBlankFrame
  <2>1. phase \in Unused /\ phase' \notin Unused /\ phase' # "copy"
    BY <1>7 DEF WriteBlankFrame, Unused
  <2>2. /\ ~running \/ ffmpeg = "alive"
        /\ todo' = IF running THEN Stream ELSE <<>>
        /\ UNCHANGED <<ffmpeg, acc, sps, pps, ready, params>>
    BY <1>7 DEF WriteBlankFrame, Stream
  <2>3. SplitUpTo(1) /\ acc = <<>>
    <3>1. PICK u \in 1..(N + 1) :
             SplitUpTo(u) /\ (phase \in Unused => u = 1 /\ acc = <<>> /\ todo = <<>>)
      BY DEF ReaderInv
    <3>2. u = 1 /\ acc = <<>>
      BY <2>1, <3>1
    <3> QED BY <3>1, <3>2
  <2>4. Behind(todo', Off[1] + Len(acc'))
    <3>1. Off[1] + Len(acc') = 0
      BY <2>2, <2>3, Offsets
    <3>2. Behind(Stream, 0)
      BY Offsets DEF Behind
    <3>3. Behind(<<>>, 0)
      BY Offsets, Nothing
    <3> QED BY <2>2, <3>1, <3>2, <3>3
  <2>5. SplitUpTo(1)'
    BY <2>2, <2>3, <2>4 DEF SplitUpTo, Window
  <2>6. (ffmpeg # "alive" => todo = <<>>)'
    BY <2>2
  <2>7. (params # None => params = Whole)'
    <3>1. params # None => params = Whole
      BY DEF ReaderInv
    <3> QED BY <2>2, <3>1 DEF Whole
  <2> QED BY <2>1, <2>5, <2>6, <2>7, AtStart DEF ReaderInv
<1>8. CASE WriteFrameFails
  BY <1>8, ReaderEmptied DEF WriteFrameFails, EncoderStops, Goes, Unused
<1>9. CASE CopyParams
  <2>1. /\ phase = "copy" /\ phase' \in {"rtsp", "tls"} /\ acc' = <<>> /\ todo' = <<>>
        /\ params' = [sps |-> sps, pps |-> pps] /\ UNCHANGED <<sps, pps, ready>>
    BY <1>9 DEF CopyParams, EncoderStops
  <2>2. PICK u \in 1..(N + 1) : SplitUpTo(u)
    BY DEF ReaderInv
  <2>3. u > PPSAt /\ u > SPSAt
    <3>1. u > PPSAt
      BY <2>1, <2>2 DEF ReaderInv, SplitUpTo
    <3> QED BY <3>1, ParameterSets, SomeUnits
  <2>4. params' = Whole
    BY <2>1, <2>2, <2>3 DEF SplitUpTo, Whole
  <2> QED BY <2>1, <2>4, ReaderEmptied DEF Unused
<1>10. CASE CreateRenderer \/ NewEncoder \/ WaitSPSPPS \/ StartRTSP \/ ServeHTTP
  BY <1>10, ReaderKept
     DEF CreateRenderer, NewEncoder, WaitSPSPPS, StartRTSP, ServeHTTP, Goes, encVars, Unused
<1>11. CASE SetupTLS
  BY <1>11, ReaderKept
     DEF SetupTLS, LoadPair, GeneratePair, TruncateCrt, WriteCrt, TruncateKey, WriteKey,
         Goes, encVars, Unused
<1>12. CASE \/ Network(Clients) \/ Network(Serve) \/ Network(Accept)
            \/ \E k \in Kind : Network(SubAccept(k))
  <2>1. UNCHANGED <<encVars, params, phase>>
    BY <1>12 DEF Network
  <2>2. phase = "copy" => ready
    BY DEF ReaderInv
  <2> QED BY <2>1, <2>2, ReaderKept DEF encVars
<1>13. CASE UNCHANGED vars
  <2>1. UNCHANGED <<encVars, params, phase>>
    BY <1>13 DEF vars
  <2>2. phase = "copy" => ready
    BY DEF ReaderInv
  <2> QED BY <2>1, <2>2, ReaderKept DEF encVars
<1> QED BY <1>1, <1>2, <1>3, <1>4, <1>5, <1>6, <1>7, <1>8, <1>9, <1>10, <1>11, <1>12, <1>13
        DEF Next, Main, Environment, Reader

LEMMA ReaderInit ==
    ASSUME Init
    PROVE  ReaderInv
<1>1. /\ acc = <<>> /\ todo = <<>> /\ sps = <<>> /\ pps = <<>> /\ ready = FALSE
      /\ params = None /\ phase = "renderer"
  BY DEF Init
<1>2. SplitUpTo(1)
  BY <1>1, AtStart DEF SplitUpTo, Window
<1> QED BY <1>1, <1>2, AtStart DEF ReaderInv

\* However the pipe cuts ffmpeg's output into reads, and whenever ffmpeg dies
\* or the program is killed, what is captured and handed on is the SPS and the
\* PPS that ffmpeg wrote, whole.
THEOREM CapturesWhole == Spec => []CapturedWhole
<1>1. Init => ReaderInv
  BY ReaderInit
<1>2. ReaderInv /\ [Next]_vars => ReaderInv'
  BY ReaderStep
<1>3. ASSUME ReaderInv
      PROVE  CapturedWhole
  <2>1. PICK u \in 1..(N + 1) : SplitUpTo(u)
    BY <1>3 DEF ReaderInv
  <2>2. sps \in {<<>>, TheSPS} /\ pps \in {<<>>, ThePPS}
    BY <2>1 DEF SplitUpTo
  <2>3. ready => u > PPSAt /\ u > SPSAt
    BY <2>1, ParameterSets, SomeUnits DEF SplitUpTo
  <2>4. TheSPS # <<>> /\ ThePPS # <<>>
    BY ParameterSets, Unit
  <2>5. ready => sps # <<>> /\ pps # <<>>
    BY <2>1, <2>3, <2>4 DEF SplitUpTo
  <2>6. params # None => params = Whole
    BY <1>3 DEF ReaderInv
  <2> QED BY <2>2, <2>5, <2>6 DEF CapturedWhole, TheSPS, ThePPS, Whole
<1> QED BY <1>1, <1>2, <1>3, PTL DEF Spec

----------------------------------------------------------------------------
----------------------------------------------------------------------------
\* Until ffmpeg has died for the first time, what it was given to write is
\* all there: before the unit the reader stands at, read, or still to come.
FedInv ==
    /\ deaths \in Nat
    /\ phase \in {"frame", "wait"} /\ deaths = 0 => ffmpeg = "alive" /\ running = TRUE
    /\ phase = "wait" /\ deaths = 0 =>
          \E u \in 1..(N + 1) :
             SplitUpTo(u) /\ Off[u] + (Len(acc) + Len(todo)) = Len(Stream)

LEMMA FedStep ==
    ASSUME ReaderInv, FedInv, [Next]_vars
    PROVE  FedInv'
<1>1. CASE phase' \notin {"frame", "wait"} /\ deaths' \in {0, deaths}
  BY <1>1 DEF FedInv
<1>2. CASE UNCHANGED <<phase, ffmpeg, running, deaths, todo, acc, sps, pps, ready>>
  <2>1. ASSUME NEW u \in 1..(N + 1), SplitUpTo(u)
        PROVE  SplitUpTo(u)'
    BY <1>2, <2>1 DEF SplitUpTo
  <2> QED BY <1>2, <2>1 DEF FedInv
<1>3. CASE NewEncoder
  <2>1. phase' = "frame" /\ ffmpeg' = "alive" /\ running' = TRUE /\ UNCHANGED deaths
    BY <1>3 DEF NewEncoder, Goes
  <2> QED BY <2>1 DEF FedInv
<1>4. CASE WriteBlankFrame
  <2>1. /\ phase = "frame" /\ phase' = "wait"
        /\ todo' = IF running THEN Stream ELSE <<>>
        /\ UNCHANGED <<ffmpeg, running, deaths, acc, sps, pps, ready>>
    BY <1>4 DEF WriteBlankFrame, Stream
  <2>2. SplitUpTo(1) /\ acc = <<>>
    <3>1. PICK u \in 1..(N + 1) :
             SplitUpTo(u) /\ (phase \in Unused => u = 1 /\ acc = <<>> /\ todo = <<>>)
      BY DEF ReaderInv
    <3>2. u = 1 /\ acc = <<>>
      BY <2>1, <3>1 DEF Unused
    <3> QED BY <3>1, <3>2
  <2>3. ASSUME deaths' = 0
        PROVE  /\ ffmpeg' = "alive" /\ running' = TRUE
               /\ SplitUpTo(1)' /\ Off[1] + (Len(acc') + Len(todo')) = Len(Stream)
    <3>1. ffmpeg = "alive" /\ running = TRUE
      BY <2>1, <2>3 DEF FedInv
    <3>2. todo' = Stream /\ acc' = <<>>
      BY <2>1, <2>2, <3>1
    <3>3. Off[1] = 0 /\ Len(Stream) \in Nat /\ Len(<<>>) = 0
      BY Offsets
    <3>4. Off[1] + Len(acc') = 0 /\ Off[1] + (Len(acc') + Len(todo')) = Len(Stream)
      BY <3>2, <3>3
    <3>5. Behind(Stream, 0)
      BY Offsets DEF Behind
    <3>6. Behind(todo', Off[1] + Len(acc'))
      BY <3>2, <3>4, <3>5
    <3>7. SplitUpTo(1)'
      BY <2>1, <2>2, <3>6 DEF SplitUpTo, Window
    <3> QED BY <2>1, <3>1, <3>4, <3>7
  <2>4. deaths' \in Nat
    BY <2>1 DEF FedInv
  <2>5. 1 \in 1..(N + 1)
    BY AtStart
  <2> QED BY <2>3, <2>4, <2>5 DEF FedInv
<1>5. CASE FfmpegDies
  <2>1. deaths' = deaths + 1
    BY <1>5 DEF FfmpegDies
  <2>2. deaths' \in Nat /\ deaths' # 0
    BY <2>1 DEF FedInv
  <2> QED BY <2>2 DEF FedInv
<1>6. CASE FfmpegRestarts
  <2>1. ffmpeg = "exited" /\ UNCHANGED <<phase, deaths>>
    BY <1>6 DEF FfmpegRestarts
  <2>2. ~(phase \in {"frame", "wait"} /\ deaths = 0)
    BY <2>1 DEF FedInv
  <2> QED BY <2>1, <2>2 DEF FedInv
<1>7. CASE ReadChunk
  <2>1. /\ UNCHANGED <<phase, ffmpeg, running, deaths, sps, pps, ready>>
        /\ \E n \in 1..Len(todo) : /\ acc' = acc \o SubSeq(todo, 1, n)
                                   /\ todo' = SubSeq(todo, n + 1, Len(todo))
    BY <1>7 DEF ReadChunk
  <2>2. PICK n \in 1..Len(todo) : /\ acc' = acc \o SubSeq(todo, 1, n)
                                 /\ todo' = SubSeq(todo, n + 1, Len(todo))
    BY <2>1
  <2>3. ASSUME NEW u \in 1..(N + 1), SplitUpTo(u)
        PROVE  SplitUpTo(u)' /\ Len(acc') + Len(todo') = Len(acc) + Len(todo)
    <3>1. Behind(acc, Off[u]) /\ Behind(todo, Off[u] + Len(acc)) /\ Off[u] \in Nat
      BY <2>3, OffsetOf DEF SplitUpTo, Window
    <3>2. /\ Behind(acc', Off[u]) /\ Behind(todo', Off[u] + Len(acc'))
          /\ Len(acc') + Len(todo') = Len(acc) + Len(todo)
      <4>1. LET c == acc \o SubSeq(todo, 1, n)
                r == SubSeq(todo, n + 1, Len(todo))
            IN  /\ Behind(c, Off[u]) /\ Behind(r, Off[u] + Len(c))
                /\ Len(c) + Len(r) = Len(acc) + Len(todo)
        BY <3>1, ReadOn
      <4> QED BY <2>2, <4>1
    <3> QED BY <2>1, <2>3, <3>2 DEF SplitUpTo, Window
  <2> QED BY <2>1, <2>3 DEF FedInv
<1>8. CASE Capture
  <2>1. UNCHANGED <<phase, ffmpeg, running, deaths, todo>>
    BY <1>8 DEF Capture
  <2>2. ASSUME NEW u \in 1..(N + 1), SplitUpTo(u),
               Off[u] + (Len(acc) + Len(todo)) = Len(Stream)
        PROVE  /\ u + 1 \in 1..(N + 1) /\ SplitUpTo(u + 1)'
               /\ Off[u + 1] + (Len(acc') + Len(todo')) = Len(Stream)
    <3>1. /\ u \in 1..N /\ SplitUpTo(u + 1)'
          /\ Off[u + 1] + Len(acc') = Off[u] + Len(acc)
      BY <1>8, <2>2, CaptureStep
    <3>2. u + 1 \in 1..(N + 1)
      BY <3>1, SomeUnits
    <3>3. Off[u] \in Nat /\ Off[u + 1] \in Nat
      BY <3>2, OffsetOf
    <3>4. acc \in Seq(Byte) /\ acc' \in Seq(Byte) /\ todo \in Seq(Byte)
      BY <2>2, <3>1 DEF SplitUpTo, Window, Behind
    <3>5. Len(acc) \in Nat /\ Len(acc') \in Nat /\ Len(todo) \in Nat
      BY <3>4
    <3> DEFINE o == Off[u]
               q == Off[u + 1]
    <3>6. /\ o \in Nat /\ q \in Nat /\ q + Len(acc') = o + Len(acc)
          /\ o + (Len(acc) + Len(todo)) = Len(Stream)
      BY <2>2, <3>1, <3>3
    <3> HIDE DEF o, q
    <3>7. q + (Len(acc') + Len(todo)) = Len(Stream)
      BY <3>5, <3>6
    <3> QED BY <2>1, <3>1, <3>2, <3>7 DEF q
  <2> QED BY <2>1, <2>2 DEF FedInv
<1>9. CASE Environment
  BY <1>1, <1>5, <1>9
     DEF Environment, Fatal, Kill, Shutdown, Goes, StartAgain, encVars
<1>10. CASE Main
  BY <1>1, <1>3, <1>4, <1>10
     DEF Main, CreateRenderer, WriteFrameFails, WaitSPSPPS, CopyParams, SetupTLS, LoadPair,
         GeneratePair, TruncateCrt, WriteCrt, TruncateKey, WriteKey, StartRTSP, ServeHTTP,
         Goes, encVars
<1>11. CASE \/ Network(Clients) \/ Network(Serve) \/ Network(Accept)
            \/ \E k \in Kind : Network(SubAccept(k))
  BY <1>2, <1>11 DEF Network, encVars
<1>12. CASE UNCHANGED vars
  BY <1>2, <1>12 DEF vars, encVars
<1> QED BY <1>6, <1>7, <1>8, <1>9, <1>10, <1>11, <1>12 DEF Next, Reader

\* While main waits for the parameter sets of an ffmpeg that lives, there is
\* something to read, a unit to split off, or they are there: no cut of the
\* stream leaves reader and main waiting for one another.
NeverInVain ==
    phase = "wait" /\ deaths = 0 => ready \/ todo # <<>> \/ HasNALU(acc)

\* The unit behind the PPS, whose start code ends it, is what the picture is.
THEOREM WaitSPSPPSReturns ==
    ASSUME \E i \in 1..Len(Output) : NALUType(Output[i].bytes) = PPSType /\ i < Len(Output)
    PROVE  Spec => []NeverInVain
<1>1. Init => ReaderInv /\ FedInv
  <2>1. Init => FedInv
    BY DEF Init, FedInv
  <2> QED BY <2>1, ReaderInit
<1>2. ReaderInv /\ FedInv /\ [Next]_vars => (ReaderInv /\ FedInv)'
  BY ReaderStep, FedStep
<1>3. ASSUME FedInv
      PROVE  NeverInVain
  <2> SUFFICES ASSUME phase = "wait", deaths = 0, ~ready, todo = <<>>
               PROVE  HasNALU(acc)
    BY DEF NeverInVain
  <2>1. PICK u \in 1..(N + 1) :
           SplitUpTo(u) /\ Off[u] + (Len(acc) + Len(todo)) = Len(Stream)
    BY <1>3 DEF FedInv
  <2>2. PPSAt < N /\ PPSAt \in 1..N
    BY ParameterSets DEF N
  <2>3. ~(u > PPSAt)
    BY <2>1 DEF SplitUpTo
  <2>4. u \in 1..N /\ u + 1 \in 1..N
    BY <2>2, <2>3, SomeUnits
  <2>5. Window(acc, u) /\ Off[u] + Len(acc) = Len(Stream)
    <3>1. Window(acc, u) /\ Len(acc) \in Nat /\ Len(todo) = 0
      BY <2>1 DEF SplitUpTo, Window, Behind
    <3> QED BY <2>1, <3>1
  <2>6. CodeAt(u + 1) + 2 <= Len(Stream)
    BY <2>4, UnitsHaveCodes DEF StartCodeAt
  <2> QED BY <2>4, <2>5, <2>6, UnitComplete
<1> QED BY <1>1, <1>2, <1>3, PTL DEF Spec

LEMMA ServerOfKind ==
    ASSUME NEW p \in Port, NEW k \in Kind
    PROVE  ServerOf(p, k) \in Server
  BY DEF ServerOf, Port, Kind, Server

\* What a step on the network does to the listeners keeps their types.
LEMMA SplitStep ==
    ASSUME SplitTypeOK, Clients \/ Serve \/ Accept \/ \E k \in Kind : SubAccept(k)
    PROVE  SplitTypeOK'
<1>1. ASSUME NEW c \in Conn, NEW p \in Port, Connect(c, p)
      PROVE  SplitTypeOK'
  <2>1. port' \in [Conn -> Port \cup {None}]
    BY <1>1 DEF Connect, SplitTypeOK
  <2>2. backlog' \in [Port -> Seq(Conn)]
    BY <1>1 DEF Connect, SplitTypeOK
  <2> QED BY <1>1, <2>1, <2>2 DEF Connect, SplitTypeOK
<1>2. ASSUME NEW c \in Conn, Speak(c)
      PROVE  SplitTypeOK'
  BY <1>2 DEF Speak, SplitTypeOK
<1>3. ASSUME NEW p \in Port, AcceptConn(p)
      PROVE  SplitTypeOK'
  <2>1. backlog[p] \in Seq(Conn) /\ backlog[p] # <<>>
    BY <1>3 DEF AcceptConn, SplitTypeOK
  <2>2. Head(backlog[p]) \in Conn /\ Tail(backlog[p]) \in Seq(Conn)
    BY <2>1
  <2>3. held' \in [Port -> Conn \cup {None}] /\ backlog' \in [Port -> Seq(Conn)]
    BY <1>3, <2>2 DEF AcceptConn, SplitTypeOK
  <2> QED BY <1>3, <2>3 DEF AcceptConn, SplitTypeOK
<1>4. ASSUME NEW p \in Port, PeekFails(p)
      PROVE  SplitTypeOK'
  BY <1>4 DEF PeekFails, SplitTypeOK
<1>5. ASSUME NEW k \in Kind, Route(k)
      PROVE  SplitTypeOK'
  <2>1. held["web"] \in Conn /\ "web" \in Port
    BY <1>5 DEF Route, Peeked, SplitTypeOK, Port
  <2>2. queue[k] \in Seq(Conn) /\ Len(queue[k]) < QueueCap
    BY <1>5 DEF Route, SplitTypeOK
  <2>3. Append(queue[k], held["web"]) \in Seq(Conn)
        /\ Len(Append(queue[k], held["web"])) <= QueueCap
    BY <2>1, <2>2, SplitAssumption
  <2>4. queue' \in [Kind -> Seq(Conn)] /\ \A j \in Kind : Len(queue'[j]) <= QueueCap
    BY <1>5, <2>3 DEF Route, SplitTypeOK
  <2>5. held' \in [Port -> Conn \cup {None}]
    BY <1>5 DEF Route, SplitTypeOK
  <2> QED BY <1>5, <2>4, <2>5 DEF Route, SplitTypeOK
<1>6. ASSUME NEW k \in Kind, TransparentAccept(k)
      PROVE  SplitTypeOK'
  <2>1. ServerOf("rtsp", k) \in Server
    BY ServerOfKind DEF Port
  <2> QED BY <1>6, <2>1 DEF TransparentAccept, SplitTypeOK
<1>7. ASSUME NEW k \in Kind, SubAccept(k)
      PROVE  SplitTypeOK'
  <2>1. ServerOf("web", k) \in Server
    BY ServerOfKind DEF Port
  <2>2. queue[k] \in Seq(Conn) /\ queue[k] # <<>> /\ Len(queue[k]) <= QueueCap
    BY <1>7 DEF SubAccept, SplitTypeOK
  <2>3. Tail(queue[k]) \in Seq(Conn) /\ Len(Tail(queue[k])) <= QueueCap
    BY <2>2, SplitAssumption
  <2>4. queue' \in [Kind -> Seq(Conn)] /\ \A j \in Kind : Len(queue'[j]) <= QueueCap
    BY <1>7, <2>3 DEF SubAccept, SplitTypeOK
  <2>5. handed' \in [Conn -> Server \cup {"closed", None}]
    BY <1>7, <2>1 DEF SubAccept, SplitTypeOK
  <2> QED BY <1>7, <2>4, <2>5 DEF SubAccept, SplitTypeOK
<1> QED BY <1>1, <1>2, <1>3, <1>4, <1>5, <1>6, <1>7
        DEF Clients, ClientConnects, Serve, Accept, Port

LEMMA SplitNew ==
    ASSUME SplitReset
    PROVE  SplitTypeOK'
<1>1. <<>> \in Seq(Conn) /\ Len(<<>>) = 0 /\ 0 <= QueueCap
  BY SplitAssumption
<1>2. queue' \in [Kind -> Seq(Conn)] /\ \A k \in Kind : Len(queue'[k]) <= QueueCap
  BY <1>1 DEF SplitReset
<1> QED BY <1>1, <1>2 DEF SplitReset, SplitTypeOK

ProgramTypes ==
    /\ mode \in Mode /\ run \in 1..MaxRuns
    /\ phase \in Building \cup Writing \cup Serving \cup Ended
    /\ ffmpeg \in {"none", "alive", "exited"} /\ running \in BOOLEAN
    /\ deaths \in 0..MaxDeaths
    /\ {crt, key} \subseteq File /\ cert \in Pair \cup {None}
    /\ served \subseteq Pair /\ failed \in BOOLEAN /\ torn \in BOOLEAN

LEMMA ProgramStep ==
    ASSUME ProgramTypes, SplitTypeOK, IdentityInv, [Next]_vars
    PROVE  ProgramTypes' /\ SplitTypeOK'
<1> DEFINE Phase == Building \cup Writing \cup Serving \cup Ended
<1>1. CASE Fatal \/ Kill \/ Shutdown
  <2>1. SplitTypeOK'
    BY <1>1, SplitNew DEF Fatal, Kill, Shutdown
  <2>2. /\ UNCHANGED <<mode, run, encVars, diskVars, cert, served>> /\ phase' \in Ended
        /\ failed' \in BOOLEAN /\ torn' \in BOOLEAN
    BY <1>1 DEF Fatal, Kill, Shutdown, Goes, Ended, hisVars, ProgramTypes
  <2> QED BY <2>1, <2>2 DEF ProgramTypes, encVars, diskVars
<1>2. CASE StartAgain
  <2>1. run' \in 1..MaxRuns
    BY <1>2, StartupAssumption DEF StartAgain, ProgramTypes
  <2>2. deaths' \in 0..MaxDeaths
    BY <1>2, StartupAssumption DEF StartAgain
  <2>3. UNCHANGED splitVars
    BY <1>2 DEF StartAgain
  <2>4. SplitTypeOK'
    BY <2>3 DEF splitVars, SplitTypeOK
  <2> QED BY <1>2, <2>1, <2>2, <2>4 DEF StartAgain, ProgramTypes, diskVars, Building
<1>3. ASSUME UNCHANGED <<mode, run, diskVars, cert, served, torn, splitVars>>,
             phase' \in Phase, ffmpeg' \in {"none", "alive", "exited"},
             running' \in BOOLEAN, deaths' \in 0..MaxDeaths, failed' \in BOOLEAN
      PROVE  ProgramTypes' /\ SplitTypeOK'
  <2>1. SplitTypeOK'
    BY <1>3 DEF splitVars, SplitTypeOK
  <2> QED BY <1>3, <2>1 DEF ProgramTypes, diskVars
<1>4. CASE FfmpegDies
  <2>1. deaths' \in 0..MaxDeaths
    BY <1>4, StartupAssumption DEF FfmpegDies, ProgramTypes
  <2> QED BY <1>3, <1>4, <2>1 DEF FfmpegDies, ProgramTypes, hisVars
<1>5. CASE FfmpegRestarts
  BY <1>3, <1>5 DEF FfmpegRestarts, ProgramTypes, hisVars
<1>6. CASE Reader
  <2>1. UNCHANGED <<mode, phase, run, ffmpeg, running, deaths, diskVars, cert, hisVars, splitVars>>
    BY <1>6 DEF Reader, ReadChunk, Capture
  <2> QED BY <1>3, <2>1 DEF ProgramTypes, hisVars
<1>7. CASE CreateRenderer \/ NewEncoder \/ WaitSPSPPS \/ StartRTSP \/ ServeHTTP
  <2>1. phase' \in Phase
    BY <1>7 DEF CreateRenderer, NewEncoder, WaitSPSPPS, StartRTSP, ServeHTTP, Goes,
                Building, Serving
  <2> HIDE DEF Phase
  <2> QED BY <1>3, <1>7, <2>1
          DEF CreateRenderer, NewEncoder, WaitSPSPPS, StartRTSP, ServeHTTP, encVars,
              hisVars, ProgramTypes
<1>8. CASE WriteBlankFrame \/ WriteFrameFails \/ CopyParams
  <2>1. phase' \in Phase
    BY <1>8 DEF WriteBlankFrame, WriteFrameFails, CopyParams, Goes, Building, Serving, Ended
  <2> HIDE DEF Phase
  <2> QED BY <1>3, <1>8, <2>1
          DEF WriteBlankFrame, WriteFrameFails, CopyParams, EncoderStops, hisVars,
              ProgramTypes
<1>9. CASE SetupTLS
  <2>1. run \in Pair /\ Pair \subseteq File /\ Torn \in File
    BY RunIsPair DEF ProgramTypes, File
  <2>2. UNCHANGED <<mode, run, encVars, hisVars, splitVars>> /\ phase' \in Phase
    BY <1>9 DEF SetupTLS, LoadPair, GeneratePair, TruncateCrt, WriteCrt, TruncateKey,
                WriteKey, Goes, Building, Writing, Serving, Ended
  <2>3. {crt', key'} \subseteq File /\ cert' \in Pair \cup {None}
    BY <1>9, <2>1
       DEF SetupTLS, LoadPair, GeneratePair, TruncateCrt, WriteCrt, TruncateKey, WriteKey,
           diskVars, ProgramTypes
  <2>4. SplitTypeOK'
    BY <2>2 DEF splitVars, SplitTypeOK
  <2> QED BY <2>2, <2>3, <2>4 DEF ProgramTypes, encVars, hisVars
<1>10. CASE \/ Network(Clients) \/ Network(Serve) \/ Network(Accept)
            \/ \E k \in Kind : Network(SubAccept(k))
  <2>1. /\ Clients \/ Serve \/ Accept \/ \E k \in Kind : SubAccept(k)
        /\ UNCHANGED <<mode, phase, run, encVars, diskVars, cert, failed, torn>>
        /\ served' \in {served, served \cup {cert}}
    BY <1>10 DEF Network
  <2>2. Open
    BY <2>1, NetworkOpen DEF IdentityInv
  <2>3. cert \in Pair
    BY <2>2 DEF IdentityInv, CertInv, Open, Serving
  <2>4. SplitTypeOK'
    BY <2>1, SplitStep
  <2> QED BY <2>1, <2>3, <2>4 DEF ProgramTypes, encVars, diskVars
<1>11. CASE UNCHANGED vars
  <2>1. UNCHANGED <<mode, phase, run, ffmpeg, running, deaths, diskVars, cert, hisVars, splitVars>>
    BY <1>11 DEF vars, encVars
  <2> QED BY <1>3, <2>1 DEF ProgramTypes, hisVars
<1> QED BY <1>1, <1>2, <1>4, <1>5, <1>6, <1>7, <1>8, <1>9, <1>10, <1>11
        DEF Next, Main, Environment

LEMMA ReaderTypes ==
    ASSUME ReaderInv
    PROVE  /\ {todo, acc, sps, pps} \subseteq Seq(Byte) /\ ready \in BOOLEAN
           /\ Len(acc) + Len(todo) <= Len(StreamOf(Output))
           /\ params = None \/ params \in [sps : Seq(Byte), pps : Seq(Byte)]
<1>1. PICK u \in 1..(N + 1) : SplitUpTo(u)
  BY DEF ReaderInv
<1>2. TheSPS \in Seq(Byte) /\ ThePPS \in Seq(Byte) /\ <<>> \in Seq(Byte)
  BY ParameterSets, Unit
<1>3. Behind(acc, Off[u]) /\ Behind(todo, Off[u] + Len(acc))
  BY <1>1 DEF SplitUpTo, Window
<1>4. acc \in Seq(Byte) /\ todo \in Seq(Byte) /\ ready \in BOOLEAN
  BY <1>1, <1>3 DEF SplitUpTo, Behind
<1>5. sps \in Seq(Byte) /\ pps \in Seq(Byte)
  BY <1>1, <1>2 DEF SplitUpTo
<1>6. Len(acc) + Len(todo) <= Len(Stream)
  <2>1. Off[u] \in Nat /\ Len(Stream) \in Nat
    BY OffsetOf, Offsets
  <2>2. Off[u] + Len(acc) + Len(todo) <= Len(Stream)
    BY <1>3 DEF Behind
  <2>3. Len(acc) \in Nat /\ Len(todo) \in Nat
    BY <1>4
  <2> QED BY <2>1, <2>2, <2>3
<1>7. params = None \/ params \in [sps : Seq(Byte), pps : Seq(Byte)]
  BY <1>2 DEF ReaderInv, Whole
<1> QED BY <1>4, <1>5, <1>6, <1>7 DEF Stream

\* Types of the whole program: the reader never holds more than ffmpeg has
\* written, the channels of the listener keep their bound, and no client is
\* served without a certificate.
THEOREM StartupTypes == Spec => []TypeOK
<1> DEFINE IInv == ReaderInv /\ IdentityInv /\ ProgramTypes /\ SplitTypeOK
<1>1. ASSUME Init
      PROVE  IInv
  <2>1. SplitTypeOK
    <3>1. <<>> \in Seq(Conn) /\ Len(<<>>) = 0 /\ 0 <= QueueCap
      BY SplitAssumption
    <3>2. queue \in [Kind -> Seq(Conn)] /\ \A k \in Kind : Len(queue[k]) <= QueueCap
      BY <1>1, <3>1 DEF Init, SplitInit
    <3> QED BY <1>1, <3>1, <3>2 DEF Init, SplitInit, SplitTypeOK
  <2>2. 0 \in Pair /\ run \in 1..MaxRuns /\ deaths \in 0..MaxDeaths
    BY <1>1, StartupAssumption DEF Init, Pair
  <2>3. ProgramTypes
    BY <1>1, <2>2 DEF Init, ProgramTypes, Building, File
  <2> QED BY <1>1, <2>1, <2>3, ReaderInit, IdentityInit
<1>2. IInv /\ [Next]_vars => IInv'
  BY ReaderStep, IdentityStep, ProgramStep
<1>3. IInv => TypeOK
  BY ReaderTypes DEF ProgramTypes, TypeOK
<1> QED BY <1>1, <1>2, <1>3, PTL DEF Spec
----------------------------------------------------------------------------
\* The connections on the two listeners

Elements(s) == {s[i] : i \in 1..Len(s)}
Distinct(s) == \A i, j \in 1..Len(s) : s[i] = s[j] => i = j

LEMMA Appended ==
    ASSUME NEW s \in Seq(Conn), NEW c \in Conn
    PROVE  /\ Elements(Append(s, c)) = Elements(s) \cup {c}
           /\ Distinct(s) /\ c \notin Elements(s) => Distinct(Append(s, c))
<1> DEFINE t == Append(s, c)
<1>1. /\ Len(s) \in Nat /\ Len(t) = Len(s) + 1
      /\ \A i \in 1..Len(s) : t[i] = s[i]
      /\ t[Len(s) + 1] = c
  OBVIOUS
<1> HIDE DEF t
<1>2. 1..Len(t) = 1..Len(s) \cup {Len(s) + 1}
  BY <1>1
<1>3. Elements(t) = Elements(s) \cup {c}
  BY <1>1, <1>2 DEF Elements
<1>4. ASSUME Distinct(s), c \notin Elements(s)
      PROVE  Distinct(t)
  <2>1. \A i \in 1..Len(s) : s[i] # c
    BY <1>4 DEF Elements
  <2> QED BY <1>1, <1>2, <1>4, <2>1 DEF Distinct
<1> QED BY <1>3, <1>4 DEF t

LEMMA Shifted ==
    ASSUME NEW s \in Seq(Conn), s # <<>>, Distinct(s)
    PROVE  /\ Head(s) \in Elements(s)
           /\ Elements(Tail(s)) = Elements(s) \ {Head(s)}
           /\ Distinct(Tail(s))
<1> DEFINE t == Tail(s)
<1>1. /\ Len(s) \in Nat /\ Len(s) > 0 /\ Len(t) = Len(s) - 1
      /\ \A i \in 1..Len(t) : t[i] = s[i + 1]
      /\ Head(s) = s[1]
  OBVIOUS
<1> HIDE DEF t
<1>2. /\ 1 \in 1..Len(s)
      /\ \A i \in 1..Len(t) : i + 1 \in 1..Len(s) /\ i + 1 # 1
      /\ \A i \in 1..Len(s) : i # 1 => i - 1 \in 1..Len(t) /\ (i - 1) + 1 = i
  BY <1>1
<1>3. Head(s) \in Elements(s)
  BY <1>1, <1>2 DEF Elements
<1>4. Elements(t) \subseteq Elements(s) \ {Head(s)}
  BY <1>1, <1>2 DEF Elements, Distinct
<1>5. Elements(s) \ {Head(s)} \subseteq Elements(t)
  <2> SUFFICES ASSUME NEW i \in 1..Len(s), s[i] # Head(s)
               PROVE  s[i] \in Elements(t)
    BY DEF Elements
  <2>1. i # 1
    BY <1>1
  <2>2. i - 1 \in 1..Len(t) /\ t[i - 1] = s[i]
    BY <2>1, <1>1, <1>2
  <2> QED BY <2>2 DEF Elements
<1>6. Distinct(t)
  <2> SUFFICES ASSUME NEW i \in 1..Len(t), NEW j \in 1..Len(t), t[i] = t[j]
               PROVE  i = j
    BY DEF Distinct
  <2>1. i + 1 = j + 1
    BY <1>1, <1>2 DEF Distinct
  <2> QED BY <2>1
<1> QED BY <1>3, <1>4, <1>5, <1>6 DEF t

\* A connection is in one place at a time, and there with the port it came to.
ConnKept(c) ==
    /\ port[c] = None => first[c] = None /\ handed[c] = None
    /\ \A p \in Port :
          /\ c \in Elements(backlog[p]) =>
                port[c] = p /\ handed[c] = None /\ held[p] # c
          /\ held[p] = c => port[c] = p /\ handed[c] = None
    /\ \A k \in Kind : c \in Elements(queue[k]) =>
          /\ port[c] = "web" /\ first[c] = k /\ handed[c] = None
          /\ c \notin Elements(backlog["web"]) /\ held["web"] # c
    /\ port[c] # None /\ handed[c] = None =>
          \/ c \in Elements(backlog[port[c]])
          \/ held[port[c]] = c
          \/ \E k \in Kind : c \in Elements(queue[k])
    /\ handed[c] \in Server => first[c] \in Kind /\ handed[c] = ServerOf(port[c], first[c])
    /\ handed[c] = "closed" => first[c] = "eof"

ConnInv ==
    /\ SplitTypeOK
    /\ \A c \in Conn : ConnKept(c)
    /\ \A p \in Port : Distinct(backlog[p])
    /\ \A k \in Kind : Distinct(queue[k])

LEMMA Names ==
    /\ None \notin Conn /\ None \notin Port /\ None \notin Kind /\ None \notin Server
    /\ None # "closed" /\ None # "eof" /\ "eof" \notin Kind /\ "closed" \notin Server
    /\ "web" \in Port /\ "rtsp" \in Port /\ "web" # "rtsp"
  BY SplitAssumption DEF Port, Kind, Server

\* What a listener does keeps every connection in its one place, and what has
\* been handed over is handed over once.
LEMMA ConnStep ==
    ASSUME ConnInv, Clients \/ Serve \/ Accept \/ \E k \in Kind : SubAccept(k)
    PROVE  ConnInv' /\ \A c \in Conn : handed[c] # None => handed'[c] = handed[c]
<1> DEFINE B(p) == Elements(backlog[p])
           Q(k) == Elements(queue[k])
           Kept == \A c \in Conn : handed[c] # None => handed'[c] = handed[c]
<1>1. SplitTypeOK /\ SplitTypeOK'
  BY SplitStep DEF ConnInv
<1>2. ASSUME NEW c \in Conn, NEW p \in Port, Connect(c, p)
      PROVE  ConnInv' /\ Kept
  <2>1. /\ port[c] = None /\ port' = [port EXCEPT ![c] = p]
        /\ backlog' = [backlog EXCEPT ![p] = Append(@, c)]
        /\ UNCHANGED <<first, held, queue, handed>>
    BY <1>2 DEF Connect
  <2>2. backlog[p] \in Seq(Conn) /\ Distinct(backlog[p])
    BY <1>1 DEF SplitTypeOK, ConnInv
  <2>3. /\ \A q \in Port : c \notin B(q) /\ held[q] # c
        /\ \A k \in Kind : c \notin Q(k)
        /\ first[c] = None /\ handed[c] = None
    BY <2>1, Names DEF ConnInv, ConnKept
  <2>4. /\ Elements(backlog'[p]) = B(p) \cup {c} /\ Distinct(backlog'[p])
        /\ \A q \in Port \ {p} : backlog'[q] = backlog[q]
    BY <1>1, <2>1, <2>2, <2>3, Appended DEF SplitTypeOK
  <2>5. \A q \in Port : Distinct(backlog'[q])
    BY <2>4 DEF ConnInv
  <2>6. port'[c] = p /\ \A d \in Conn \ {c} : port'[d] = port[d]
    BY <1>1, <2>1 DEF SplitTypeOK
  <2>7. ConnKept(c)'
    BY <2>1, <2>3, <2>4, <2>6, Names DEF ConnKept
  <2>8. ASSUME NEW d \in Conn \ {c}
        PROVE  ConnKept(d)'
    <3>1. ConnKept(d) /\ \A q \in Port : (d \in Elements(backlog'[q]) <=> d \in B(q))
      BY <2>4 DEF ConnInv
    <3>2. "web" \in Port
      BY Names
    <3>3. port[d] # None => port[d] \in Port
      BY <1>1 DEF SplitTypeOK
    <3> QED BY <2>1, <2>6, <3>1, <3>2, <3>3 DEF ConnKept
  <2> QED BY <1>1, <2>1, <2>5, <2>7, <2>8 DEF ConnInv
<1>3. ASSUME NEW c \in Conn, Speak(c)
      PROVE  ConnInv' /\ Kept
  <2>1. PICK b \in Kind \cup {"eof"} : first' = [first EXCEPT ![c] = b]
    BY <1>3 DEF Speak
  <2>2. /\ port[c] # None /\ first[c] = None
        /\ UNCHANGED <<port, backlog, held, queue, handed>>
    BY <1>3 DEF Speak
  <2>3. first'[c] = b /\ \A d \in Conn \ {c} : first'[d] = first[d]
    BY <1>1, <2>1 DEF SplitTypeOK
  <2>4. handed[c] = None
    BY <1>1, <2>2, Names DEF ConnInv, ConnKept, SplitTypeOK
  <2>5. \A k \in Kind : c \notin Q(k)
    BY <2>2, Names DEF ConnInv, ConnKept
  <2>6. ConnKept(c)'
    BY <2>2, <2>4, <2>5, Names DEF ConnInv, ConnKept
  <2>7. ASSUME NEW d \in Conn \ {c}
        PROVE  ConnKept(d)'
    BY <2>2, <2>3 DEF ConnInv, ConnKept
  <2> QED BY <1>1, <2>2, <2>6, <2>7 DEF ConnInv
<1>4. ASSUME NEW p \in Port, AcceptConn(p)
      PROVE  ConnInv' /\ Kept
  <2>1. PICK c \in Conn : c = Head(backlog[p])
    BY <1>1, <1>4 DEF AcceptConn, SplitTypeOK
  <2>2. /\ held[p] = None /\ backlog[p] # <<>>
        /\ held' = [held EXCEPT ![p] = c]
        /\ backlog' = [backlog EXCEPT ![p] = Tail(@)]
        /\ UNCHANGED <<port, first, queue, handed>>
    BY <1>4, <2>1 DEF AcceptConn
  <2>3. backlog[p] \in Seq(Conn) /\ Distinct(backlog[p])
    BY <1>1 DEF SplitTypeOK, ConnInv
  <2>4. /\ c \in B(p) /\ Elements(Tail(backlog[p])) = B(p) \ {c}
        /\ Distinct(Tail(backlog[p]))
    BY <2>1, <2>2, <2>3, Shifted
  <2>5. /\ held'[p] = c /\ \A q \in Port \ {p} : held'[q] = held[q]
        /\ Elements(backlog'[p]) = B(p) \ {c} /\ Distinct(backlog'[p])
        /\ \A q \in Port \ {p} : backlog'[q] = backlog[q]
    BY <1>1, <2>2, <2>4 DEF SplitTypeOK
  <2>6. \A q \in Port : Distinct(backlog'[q])
    BY <2>5 DEF ConnInv
  <2>7. /\ port[c] = p /\ handed[c] = None
        /\ \A q \in Port : held[q] # c
        /\ \A q \in Port \ {p} : c \notin B(q)
        /\ \A k \in Kind : c \notin Q(k)
    BY <2>4, Names DEF ConnInv, ConnKept
  <2>8. ConnKept(c)'
    BY <2>2, <2>5, <2>7, Names DEF ConnInv, ConnKept
  <2>9. ASSUME NEW d \in Conn \ {c}
        PROVE  ConnKept(d)'
    <3>1. /\ ConnKept(d)
          /\ \A q \in Port : (d \in Elements(backlog'[q]) <=> d \in B(q))
      BY <2>5 DEF ConnInv
    <3>2. \A q \in Port : (held'[q] = d <=> held[q] = d)
      BY <2>2, <2>5, Names
    <3>3. "web" \in Port /\ (port[d] # None => port[d] \in Port)
      BY <1>1, Names DEF SplitTypeOK
    <3> QED BY <2>2, <3>1, <3>2, <3>3 DEF ConnKept
  <2> QED BY <1>1, <2>2, <2>6, <2>8, <2>9 DEF ConnInv
\* The three ways out of the hands of an accept loop.
<1>5. ASSUME NEW p \in Port, held[p] # None, held' = [held EXCEPT ![p] = None]
      PROVE  /\ held[p] \in Conn /\ port[held[p]] = p /\ handed[held[p]] = None
             /\ \A q \in Port : held'[q] # held[p] /\ held[p] \notin B(q)
             /\ \A k \in Kind : held[p] \notin Q(k)
             /\ \A d \in Conn \ {held[p]} : \A q \in Port : (held'[q] = d <=> held[q] = d)
  <2>1. held[p] \in Conn
    BY <1>1, <1>5 DEF SplitTypeOK
  <2>2. held'[p] = None /\ \A q \in Port \ {p} : held'[q] = held[q]
    BY <1>1, <1>5 DEF SplitTypeOK
  <2>3. ConnKept(held[p])
    BY <2>1 DEF ConnInv
  <2>4. port[held[p]] = p /\ handed[held[p]] = None
    BY <2>1, <2>3 DEF ConnKept
  <2>5. \A q \in Port : held[p] \notin B(q) /\ (held[q] = held[p] => q = p)
    BY <2>3, <2>4 DEF ConnKept
  <2>6. \A k \in Kind : held[p] \notin Q(k)
    BY <2>3, <2>4 DEF ConnKept
  <2> QED BY <2>1, <2>2, <2>4, <2>5, <2>6, Names
<1>6. ASSUME NEW p \in Port, held[p] # None, held' = [held EXCEPT ![p] = None],
             NEW s \in Server \cup {"closed"}, handed' = [handed EXCEPT ![held[p]] = s],
             s = "closed" => first[held[p]] = "eof",
             s \in Server => first[held[p]] \in Kind /\ s = ServerOf(p, first[held[p]]),
             UNCHANGED <<port, first, backlog, queue>>
      PROVE  ConnInv' /\ Kept
  <2>1. PICK c \in Conn : c = held[p]
    BY <1>5, <1>6
  <2>2. /\ c \in Conn /\ port[c] = p /\ handed[c] = None
        /\ \A q \in Port : held'[q] # c /\ c \notin B(q)
        /\ \A k \in Kind : c \notin Q(k)
        /\ \A d \in Conn \ {c} : \A q \in Port : (held'[q] = d <=> held[q] = d)
    BY <1>5, <1>6, <2>1
  <2>3. /\ s = "closed" => first[c] = "eof"
        /\ s \in Server => first[c] \in Kind /\ s = ServerOf(p, first[c])
        /\ handed' = [handed EXCEPT ![c] = s]
    BY <1>6, <2>1
  <2>4. handed'[c] = s /\ s # None /\ \A d \in Conn \ {c} : handed'[d] = handed[d]
    BY <1>1, <2>2, <2>3, Names DEF SplitTypeOK
  <2>5. ConnKept(c)'
    BY <1>6, <2>2, <2>3, <2>4, Names DEF ConnKept
  <2>6. ASSUME NEW d \in Conn \ {c}
        PROVE  ConnKept(d)'
    <3>1. "web" \in Port /\ (port[d] # None => port[d] \in Port)
      BY <1>1, Names DEF SplitTypeOK
    <3> QED BY <1>6, <2>2, <2>4, <3>1 DEF ConnInv, ConnKept
  <2>7. Kept
    BY <2>2, <2>4
  <2> QED BY <1>1, <1>6, <2>5, <2>6, <2>7 DEF ConnInv
<1>7. ASSUME NEW p \in Port, PeekFails(p)
      PROVE  ConnInv' /\ Kept
  BY <1>6, <1>7, Names DEF PeekFails, Peeked
<1>8. ASSUME NEW k \in Kind, TransparentAccept(k)
      PROVE  ConnInv' /\ Kept
  <2>1. "rtsp" \in Port /\ ServerOf("rtsp", k) \in Server
    BY Names, ServerOfKind
  <2> QED BY <1>6, <1>8, <2>1, Names DEF TransparentAccept, Peeked
<1>9. ASSUME NEW k \in Kind, Route(k)
      PROVE  ConnInv' /\ Kept
  <2>1. PICK c \in Conn : c = held["web"]
    BY <1>1, <1>9, Names DEF Route, Peeked, SplitTypeOK
  <2>2. /\ c # None /\ first[c] = k /\ held' = [held EXCEPT !["web"] = None]
        /\ queue' = [queue EXCEPT ![k] = Append(@, c)]
        /\ UNCHANGED <<port, first, backlog, handed>>
    BY <1>9, <2>1, Names DEF Route, Peeked
  <2>3. /\ c \in Conn /\ port[c] = "web" /\ handed[c] = None
        /\ \A q \in Port : held'[q] # c /\ c \notin B(q)
        /\ \A j \in Kind : c \notin Q(j)
        /\ \A d \in Conn \ {c} : \A q \in Port : (held'[q] = d <=> held[q] = d)
    BY <1>5, <2>1, <2>2, Names
  <2>4. queue[k] \in Seq(Conn) /\ Distinct(queue[k])
    BY <1>1 DEF SplitTypeOK, ConnInv
  <2>5. /\ Elements(queue'[k]) = Q(k) \cup {c} /\ Distinct(queue'[k])
        /\ \A j \in Kind \ {k} : queue'[j] = queue[j]
    BY <1>1, <2>2, <2>3, <2>4, Appended DEF SplitTypeOK
  <2>6. \A j \in Kind : Distinct(queue'[j])
    BY <2>5 DEF ConnInv
  <2>7. ConnKept(c)'
    BY <2>2, <2>3, <2>5, Names DEF ConnInv, ConnKept
  <2>8. ASSUME NEW d \in Conn \ {c}
        PROVE  ConnKept(d)'
    <3>1. "web" \in Port /\ (port[d] # None => port[d] \in Port)
      BY <1>1, Names DEF SplitTypeOK
    <3>2. ConnKept(d) /\ \A j \in Kind : (d \in Elements(queue'[j]) <=> d \in Q(j))
      BY <2>5 DEF ConnInv
    <3> QED BY <2>2, <2>3, <3>1, <3>2 DEF ConnKept
  <2> QED BY <1>1, <2>2, <2>3, <2>6, <2>7, <2>8 DEF ConnInv
<1>10. ASSUME NEW k \in Kind, SubAccept(k)
      PROVE  ConnInv' /\ Kept
  <2> DEFINE s == ServerOf("web", k)
  <2>1. PICK c \in Conn : c = Head(queue[k])
    BY <1>1, <1>10 DEF SubAccept, SplitTypeOK
  <2>2. /\ queue[k] # <<>>
        /\ handed' = [handed EXCEPT ![c] = s]
        /\ queue' = [queue EXCEPT ![k] = Tail(@)]
        /\ UNCHANGED <<port, first, backlog, held>>
    BY <1>10, <2>1 DEF SubAccept
  <2>3. queue[k] \in Seq(Conn) /\ Distinct(queue[k])
    BY <1>1 DEF SplitTypeOK, ConnInv
  <2>4. /\ c \in Q(k) /\ Elements(Tail(queue[k])) = Q(k) \ {c}
        /\ Distinct(Tail(queue[k]))
    BY <2>1, <2>2, <2>3, Shifted
  <2>5. s \in Server
    BY ServerOfKind, Names
  <2>6. /\ port[c] = "web" /\ first[c] = k /\ handed[c] = None
        /\ \A q \in Port : held[q] # c /\ c \notin B(q)
        /\ \A j \in Kind \ {k} : c \notin Q(j)
    BY <2>4, Names DEF ConnInv, ConnKept
  <2>7. s = ServerOf(port[c], first[c])
    BY <2>6
  <2> HIDE DEF s
  <2>8. /\ Elements(queue'[k]) = Q(k) \ {c} /\ Distinct(queue'[k])
        /\ \A j \in Kind \ {k} : queue'[j] = queue[j]
        /\ handed'[c] = s /\ s # None /\ \A d \in Conn \ {c} : handed'[d] = handed[d]
    BY <1>1, <2>2, <2>4, <2>5, Names DEF SplitTypeOK
  <2>9. \A j \in Kind : Distinct(queue'[j])
    BY <2>8 DEF ConnInv
  <2>10. ConnKept(c)'
    BY <2>2, <2>5, <2>6, <2>7, <2>8, Names DEF ConnKept
  <2>11. ASSUME NEW d \in Conn \ {c}
         PROVE  ConnKept(d)'
    <3>1. ConnKept(d) /\ \A j \in Kind : (d \in Elements(queue'[j]) <=> d \in Q(j))
      BY <2>8 DEF ConnInv
    <3> QED BY <2>2, <2>8, <3>1 DEF ConnKept
  <2>12. Kept
    BY <2>6, <2>8
  <2> QED BY <1>1, <2>2, <2>9, <2>10, <2>11, <2>12 DEF ConnInv
<1> QED BY <1>2, <1>3, <1>4, <1>7, <1>8, <1>9, <1>10
        DEF Clients, ClientConnects, Serve, Accept, Port

LEMMA ConnNew ==
    ASSUME SplitReset
    PROVE  ConnInv'
<1>1. SplitTypeOK'
  BY SplitNew
<1>2. /\ \A c \in Conn : port'[c] = None /\ first'[c] = None /\ handed'[c] = None
      /\ \A p \in Port : backlog'[p] = <<>> /\ held'[p] = None
      /\ \A k \in Kind : queue'[k] = <<>>
  BY DEF SplitReset
<1>3. Elements(<<>>) = {} /\ Distinct(<<>>)
  BY DEF Elements, Distinct
<1>4. ASSUME NEW c \in Conn
      PROVE  ConnKept(c)'
  BY <1>2, <1>3, Names DEF ConnKept
<1> QED BY <1>1, <1>2, <1>3, <1>4 DEF ConnInv

LEMMA SplitActions ==
    ASSUME Next
    PROVE  \/ Clients \/ Serve \/ Accept \/ \E k \in Kind : SubAccept(k)
           \/ SplitReset /\ phase' \in Ended
           \/ UNCHANGED splitVars
<1>1. CASE Main
  BY <1>1 DEF Main, CreateRenderer, NewEncoder, WriteBlankFrame, WriteFrameFails, WaitSPSPPS,
              CopyParams, SetupTLS, LoadPair, GeneratePair, TruncateCrt, WriteCrt, TruncateKey,
              WriteKey, StartRTSP, ServeHTTP
<1>2. CASE Environment
  BY <1>2 DEF Environment, Fatal, Kill, Shutdown, Goes, StartAgain, FfmpegDies, Ended
<1>3. CASE Reader \/ FfmpegRestarts
  BY <1>3 DEF Reader, ReadChunk, Capture, FfmpegRestarts
<1>4. CASE \/ Network(Clients) \/ Network(Serve) \/ Network(Accept)
           \/ \E k \in Kind : Network(SubAccept(k))
  BY <1>4 DEF Network
<1> QED BY <1>1, <1>2, <1>3, <1>4 DEF Next

LEMMA ConnAlways == Spec => []ConnInv
<1>1. Init => ConnInv
  <2> SUFFICES ASSUME Init
               PROVE  ConnInv
    OBVIOUS
  <2>1. /\ \A c \in Conn : port[c] = None /\ first[c] = None /\ handed[c] = None
        /\ \A p \in Port : backlog[p] = <<>> /\ held[p] = None
        /\ \A k \in Kind : queue[k] = <<>>
    BY DEF Init, SplitInit
  <2>2. Elements(<<>>) = {} /\ Distinct(<<>>)
    BY DEF Elements, Distinct
  <2>3. ASSUME NEW c \in Conn
        PROVE  ConnKept(c)
    BY <2>1, <2>2, Names DEF ConnKept
  <2>4. SplitTypeOK
    <3>1. <<>> \in Seq(Conn) /\ Len(<<>>) = 0 /\ 0 <= QueueCap
      BY SplitAssumption
    <3>2. queue \in [Kind -> Seq(Conn)] /\ \A k \in Kind : Len(queue[k]) <= QueueCap
      BY <3>1 DEF Init, SplitInit
    <3> QED BY <3>1, <3>2 DEF Init, SplitInit, SplitTypeOK
  <2> QED BY <2>1, <2>2, <2>3, <2>4 DEF ConnInv
<1>2. ConnInv /\ [Next]_vars => ConnInv'
  <2> SUFFICES ASSUME ConnInv, [Next]_vars
               PROVE  ConnInv'
    OBVIOUS
  <2>1. CASE Clients \/ Serve \/ Accept \/ \E k \in Kind : SubAccept(k)
    BY <2>1, ConnStep
  <2>2. CASE SplitReset
    BY <2>2, ConnNew
  <2>3. CASE UNCHANGED splitVars
    BY <2>3 DEF splitVars, ConnInv, ConnKept, SplitTypeOK
  <2>4. CASE UNCHANGED vars
    BY <2>3, <2>4 DEF vars
  <2> QED BY <2>1, <2>2, <2>3, <2>4, SplitActions
<1> QED BY <1>1, <1>2, PTL DEF Spec

\* Nobody who has come to a port that looks at first bytes is lost, however
\* many come and however full the channels are: a connection is on its way on
\* its own port, or has been handed to the server of its kind, or was closed
\* because it went without a first byte.
NoConnectionLost ==
    \A c \in Conn : port[c] # None =>
        \/ /\ handed[c] = None
           /\ \/ c \in Elements(backlog[port[c]])
              \/ held[port[c]] = c
              \/ port[c] = "web" /\ first[c] \in Kind /\ c \in Elements(queue[first[c]])
        \/ first[c] \in Kind /\ handed[c] = ServerOf(port[c], first[c])
        \/ first[c] = "eof" /\ handed[c] = "closed"

THEOREM ConnectionsKept == Spec => []NoConnectionLost
<1>1. ASSUME ConnInv
      PROVE  NoConnectionLost
  <2> SUFFICES ASSUME NEW c \in Conn, port[c] # None
               PROVE  \/ /\ handed[c] = None
                         /\ \/ c \in Elements(backlog[port[c]])
                            \/ held[port[c]] = c
                            \/ /\ port[c] = "web" /\ first[c] \in Kind
                               /\ c \in Elements(queue[first[c]])
                      \/ first[c] \in Kind /\ handed[c] = ServerOf(port[c], first[c])
                      \/ first[c] = "eof" /\ handed[c] = "closed"
    BY DEF NoConnectionLost
  <2>1. ConnKept(c) /\ handed[c] \in Server \cup {"closed", None}
    BY <1>1 DEF ConnInv, SplitTypeOK
  <2>2. CASE handed[c] = None
    BY <2>1, <2>2 DEF ConnKept
  <2>3. CASE handed[c] # None
    BY <2>1, <2>3 DEF ConnKept
  <2> QED BY <2>2, <2>3
<1> QED BY <1>1, ConnAlways, PTL

\* What has been handed over is never handed over again, to the same server or
\* another, nor closed behind its back, until the program ends.
HandedOnce ==
    [][\A c \in Conn :
          handed[c] # None => handed'[c] = handed[c] \/ phase' \in Ended]_vars

THEOREM OneServer == Spec => HandedOnce
<1>1. ASSUME ConnInv, [Next]_vars
      PROVE  [\A c \in Conn :
                 handed[c] # None => handed'[c] = handed[c] \/ phase' \in Ended]_vars
  BY <1>1, ConnStep, SplitActions DEF vars, splitVars
<1> QED BY <1>1, ConnAlways, PTL DEF Spec, HandedOnce
=============================================================================
