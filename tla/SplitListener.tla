---------------------------- MODULE SplitListener ----------------------------
(***************************************************************************)
(* The two listeners of netutil/mux.go that tell TLS from plain            *)
(* connections by their first byte: SplitListener, whose Serve goroutine   *)
(* passes each connection through a bounded channel to the server of its   *)
(* kind, and TransparentTLSListener, whose Accept hands it to the RTSP     *)
(* server.  Both wait for the first byte of one connection before they     *)
(* take the next.  Neither is ever closed while the program runs, so the   *)
(* done cases of Serve and of subListener.Accept never apply.              *)
(***************************************************************************)
EXTENDS Naturals, Sequences

CONSTANTS
    Conn,       \* connections
    QueueCap,   \* capacity of subListener.ch (16)
    None

ASSUME SplitAssumption ==
    /\ QueueCap \in Nat \ {0}
    /\ None \notin Conn \cup {"web", "rtsp", "tls", "plain", "eof"}
                          \cup {"http", "https", "rtsps", "closed"}

Port == {"web", "rtsp"}
Kind == {"tls", "plain"}
Server == {"http", "https", "rtsp", "rtsps"}

\* The server a connection on a port is meant for.
ServerOf(port, kind) ==
    CASE port = "web"  /\ kind = "tls"   -> "https"
      [] port = "web"  /\ kind = "plain" -> "http"
      [] port = "rtsp" /\ kind = "tls"   -> "rtsps"
      [] port = "rtsp" /\ kind = "plain" -> "rtsp"

VARIABLES
    port,     \* port[c]: where c connected, or None
    first,    \* first[c]: first byte of c: None | a kind | "eof"
    backlog,  \* backlog[p]: connections the listener has yet to accept
    held,     \* held[p]: the connection being peeked at or passed on, or None
    queue,    \* queue[k]: the channel of SplitListener's sub-listener k
    handed    \* handed[c]: the server c was given to, "closed", or None

splitVars == <<port, first, backlog, held, queue, handed>>

SplitTypeOK ==
    /\ port \in [Conn -> Port \cup {None}]
    /\ first \in [Conn -> Kind \cup {"eof", None}]
    /\ backlog \in [Port -> Seq(Conn)]
    /\ held \in [Port -> Conn \cup {None}]
    /\ queue \in [Kind -> Seq(Conn)] /\ \A k \in Kind : Len(queue[k]) <= QueueCap
    /\ handed \in [Conn -> Server \cup {"closed", None}]

SplitInit ==
    /\ port = [c \in Conn |-> None] /\ first = [c \in Conn |-> None]
    /\ backlog = [p \in Port |-> <<>>] /\ held = [p \in Port |-> None]
    /\ queue = [k \in Kind |-> <<>>] /\ handed = [c \in Conn |-> None]

\* The process has gone, and its connections with it.
SplitReset ==
    /\ port' = [c \in Conn |-> None] /\ first' = [c \in Conn |-> None]
    /\ backlog' = [p \in Port |-> <<>>] /\ held' = [p \in Port |-> None]
    /\ queue' = [k \in Kind |-> <<>>] /\ handed' = [c \in Conn |-> None]
----------------------------------------------------------------------------
\* Clients (external)

Connect(c, p) ==
    /\ port[c] = None
    /\ port' = [port EXCEPT ![c] = p]
    /\ backlog' = [backlog EXCEPT ![p] = Append(@, c)]
    /\ UNCHANGED <<first, held, queue, handed>>

\* The client sends its first byte, or goes without one.
Speak(c) ==
    /\ port[c] # None /\ first[c] = None
    /\ \E b \in Kind \cup {"eof"} : first' = [first EXCEPT ![c] = b]
    /\ UNCHANGED <<port, backlog, held, queue, handed>>
----------------------------------------------------------------------------
\* The accept loops

AcceptConn(p) ==
    /\ held[p] = None /\ backlog[p] # <<>>
    /\ held' = [held EXCEPT ![p] = Head(backlog[p])]
    /\ backlog' = [backlog EXCEPT ![p] = Tail(@)]
    /\ UNCHANGED <<port, first, queue, handed>>

\* Peek has returned kind k for the connection in the loop's hands.
Peeked(p, k) == held[p] # None /\ first[held[p]] = k

PeekFails(p) ==
    /\ Peeked(p, "eof")
    /\ handed' = [handed EXCEPT ![held[p]] = "closed"]
    /\ held' = [held EXCEPT ![p] = None]
    /\ UNCHANGED <<port, first, backlog, queue>>

\* Mutant: a connection that finds the channel full is let go.
RouteOrDrop(k) ==
    /\ Peeked("web", k)
    /\ queue' = [queue EXCEPT ![k] = IF Len(@) < QueueCap THEN Append(@, held["web"]) ELSE @]
    /\ held' = [held EXCEPT !["web"] = None]
    /\ UNCHANGED <<port, first, backlog, handed>>

\* Mutant: no limit.
RouteUnbounded(k) ==
    /\ Peeked("web", k)
    /\ queue' = [queue EXCEPT ![k] = Append(@, held["web"])]
    /\ held' = [held EXCEPT !["web"] = None]
    /\ UNCHANGED <<port, first, backlog, handed>>

\* SplitListener.Serve blocks on a full channel.
Route(k) ==
    /\ Peeked("web", k)
    /\ Len(queue[k]) < QueueCap
    /\ queue' = [queue EXCEPT ![k] = Append(@, held["web"])]
    /\ held' = [held EXCEPT !["web"] = None]
    /\ UNCHANGED <<port, first, backlog, handed>>

\* subListener.Accept, called by the http.Server of that kind.
SubAccept(k) ==
    /\ queue[k] # <<>>
    /\ handed' = [handed EXCEPT ![Head(queue[k])] = ServerOf("web", k)]
    /\ queue' = [queue EXCEPT ![k] = Tail(@)]
    /\ UNCHANGED <<port, first, backlog, held>>

\* TransparentTLSListener.Accept returns the connection, inside TLS or bare.
TransparentAccept(k) ==
    /\ Peeked("rtsp", k)
    /\ handed' = [handed EXCEPT ![held["rtsp"]] = ServerOf("rtsp", k)]
    /\ held' = [held EXCEPT !["rtsp"] = None]
    /\ UNCHANGED <<port, first, backlog, queue>>

\* The goroutine of SplitListener.Serve, and gortsplib's that calls Accept.
Serve == AcceptConn("web") \/ PeekFails("web") \/ \E k \in Kind : Route(k)

Accept == AcceptConn("rtsp") \/ PeekFails("rtsp") \/ \E k \in Kind : TransparentAccept(k)
----------------------------------------------------------------------------
\* A connection that has spoken and still waits for its server.
Waiting(c) == first[c] \in Kind /\ handed[c] = None

\* A connection that says nothing holds up the port of c.
HeldUp(c) ==
    /\ port[c] # None
    /\ held[port[c]] # None /\ first[held[port[c]]] = None
=============================================================================
