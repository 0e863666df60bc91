------------------------------- MODULE Relay -------------------------------
(***************************************************************************)
(* One proxied connection (internal/proxy/http.go, socks5.go): the         *)
(* goroutine that handles it, the two that copy, and the two peers.        *)
(*                                                                         *)
(* The bytes each peer sends are numbered; what belongs to the request and *)
(* to the proxy's reply is left out.  A byte has reached a peer when it is *)
(* written to the peer's socket: peers read what they get, as no deadline  *)
(* would end a write that blocks.                                          *)
(***************************************************************************)
EXTENDS Integers, Sequences

CONSTANTS
    MaxUp,      \* bound: bytes the client sends after its request
    MaxDown     \* bound: bytes the remote sends

ASSUME RelayAssumption == MaxUp \in Nat /\ MaxDown \in Nat

VARIABLES
    kind,       \* which handler: "connect", "http" or "socks"
    eager,      \* whether the client sends on without waiting for the reply
    pc,         \* where the handler is
    sent, end,  \* per peer: bytes it has sent, how it has left
    open,       \* per peer: whether the proxy's socket to it is open
    sock,       \* per peer: bytes that have arrived from it
    buf,        \* bytes of the client in the handler's bufio.Reader
    copier,     \* per source: the goroutine that copies from it
    held,       \* per source: what the copier has read and not written
    got,        \* per peer: the bytes that have reached it
    eof         \* whether the proxy has ended the stream to the client

peerVars == <<sent, end, sock>>
copyVars == <<copier, held, got>>
vars     == <<kind, eager, pc, peerVars, open, buf, copyVars, eof>>

Peers    == {"client", "remote"}
Other(s) == IF s = "client" THEN "remote" ELSE "client"
Bytes(s) == 1..(IF s = "client" THEN MaxUp ELSE MaxDown)

\* A peer that has finished sending may still read; one that has closed may not.
Listens(s) == end[s] \in {"open", "finished"}
-----------------------------------------------------------------------------
(* The peers                                                               *)

\* A patient client sends data when the tunnel is up.
MaySend(s) == s = "client" => eager \/ pc = "relaying"

Send(s) ==
    /\ open[s] /\ end[s] = "open" /\ sent[s] + 1 \in Bytes(s) /\ MaySend(s)
    /\ sent' = [sent EXCEPT ![s] = @ + 1]
    /\ sock' = [sock EXCEPT ![s] = Append(@, sent[s] + 1)]
    /\ UNCHANGED <<kind, eager, pc, end, open, buf, copyVars, eof>>

Leave(s) ==
    /\ open[s]
    /\ \/ end[s] = "open" /\ end' = [end EXCEPT ![s] = "finished"]
       \/ Listens(s) /\ end' = [end EXCEPT ![s] = "closed"]
    /\ UNCHANGED <<kind, eager, pc, sent, sock, open, buf, copyVars, eof>>

\* What a reset connection had brought may be lost.
Resets(s) ==
    /\ end' = [end EXCEPT ![s] = "reset"]
    /\ \E kept \in {sock[s], <<>>} : sock' = [sock EXCEPT ![s] = kept]
    /\ UNCHANGED sent

Reset(s) ==
    /\ open[s] /\ end[s] # "reset" /\ Resets(s)
    /\ UNCHANGED <<kind, eager, pc, open, buf, copyVars, eof>>
-----------------------------------------------------------------------------
(* The handler                                                             *)

Goto(from, to) == pc = from /\ pc' = to

Greet ==
    /\ Goto("greeting", "reading")
    /\ UNCHANGED <<kind, eager, peerVars, open, buf, copyVars, eof>>

\* The bufio.Reader of the HTTP proxy takes along what has come behind the
\* request; ServeSOCKS5 reads just what it needs.
ReadRequest ==
    /\ Goto("reading", "dialing")
    /\ \E n \in 0..Len(sock["client"]) :
          /\ kind = "socks" => n = 0
          /\ buf' = SubSeq(sock["client"], 1, n)
          /\ sock' = [sock EXCEPT !["client"] = SubSeq(@, n + 1, Len(@))]
    /\ UNCHANGED <<kind, eager, sent, end, open, copyVars, eof>>

\* A malformed or unsupported request, or none within the deadline.
Refuse ==
    /\ pc \in {"greeting", "reading"}
    /\ pc' = "leaving"
    /\ UNCHANGED <<kind, eager, peerVars, open, buf, copyVars, eof>>

DialFails ==
    /\ Goto("dialing", "leaving")
    /\ UNCHANGED <<kind, eager, peerVars, open, buf, copyVars, eof>>

DialSucceeds ==
    /\ Goto("dialing", "replying")
    /\ open' = [open EXCEPT !["remote"] = TRUE]
    /\ UNCHANGED <<kind, eager, peerVars, buf, copyVars, eof>>

\* The reply to the client, or the client's request to the remote.
Reply ==
    /\ Goto("replying", "relaying")
    /\ copier' = [s \in Peers |-> "read"]
    /\ UNCHANGED <<kind, eager, peerVars, open, buf, held, got, eof>>

\* A peer is gone, or the deadline of the handshake over; handleConnect does
\* not look whether its reply could be written.
ReplyFails ==
    /\ kind # "connect"
    /\ Goto("replying", "closing")
    /\ UNCHANGED <<kind, eager, peerVars, open, buf, copyVars, eof>>

Ended(s) == copier[s] = "ended"

\* handleHTTP waits for one of the copiers, relay for both.
MayReturnAtFirst == \E s \in Peers : Ended(s)
MayReturnAtLast  == \A s \in Peers : Ended(s)
MayReturn ==
    IF kind = "http" THEN \E s \in Peers : Ended(s) ELSE \A s \in Peers : Ended(s)

Return ==
    /\ MayReturn /\ Goto("relaying", "closing")
    /\ UNCHANGED <<kind, eager, peerVars, open, buf, copyVars, eof>>

\* The deferred calls: remote.Close, then that of the client's connection.
CloseRemoteNever ==
    /\ Goto("closing", "leaving")
    /\ UNCHANGED <<kind, eager, peerVars, open, buf, copyVars, eof>>
CloseRemote ==
    /\ Goto("closing", "leaving")
    /\ open' = [open EXCEPT !["remote"] = FALSE]
    /\ UNCHANGED <<kind, eager, peerVars, buf, copyVars, eof>>

CloseClient ==
    /\ Goto("leaving", "done")
    /\ open' = [open EXCEPT !["client"] = FALSE]
    /\ eof' = TRUE
    /\ UNCHANGED <<kind, eager, peerVars, buf, copyVars>>

Handle == Greet \/ ReadRequest \/ Refuse \/ DialFails \/ DialSucceeds \/ Reply
          \/ ReplyFails \/ Return \/ CloseRemote \/ CloseClient
-----------------------------------------------------------------------------
(* The copiers                                                             *)

Holds(s, bytes) ==
    /\ copier[s] = "read"
    /\ copier' = [copier EXCEPT ![s] = "write"]
    /\ held' = [held EXCEPT ![s] = bytes]
    /\ UNCHANGED got

\* handleHTTP copies from the bufio.Reader, whose buffer comes first; relay
\* copies from the connection.
FromBuffer(s) == s = "client" /\ kind = "http" /\ buf # <<>>

ReadBuffered(s) ==
    /\ FromBuffer(s)
    /\ Holds(s, buf)
    /\ buf' = <<>>
    /\ UNCHANGED <<kind, eager, pc, peerVars, open, eof>>

TakeFrom(s) ==
    /\ open[s]
    /\ \E n \in 1..Len(sock[s]) :
          /\ Holds(s, SubSeq(sock[s], 1, n))
          /\ sock' = [sock EXCEPT ![s] = SubSeq(@, n + 1, Len(@))]
    /\ UNCHANGED <<kind, eager, pc, sent, end, open, buf, eof>>

ReadSocketFirst(s) == TakeFrom(s)
ReadSocket(s)      == ~FromBuffer(s) /\ TakeFrom(s)

WriteAgain(s) ==
    /\ copier[s] = "write" /\ open[Other(s)] /\ Listens(Other(s))
    /\ got' = [got EXCEPT ![Other(s)] = @ \o held[s]]
    /\ UNCHANGED <<kind, eager, pc, peerVars, open, buf, copier, held, eof>>
Write(s) ==
    /\ copier[s] = "write" /\ open[Other(s)] /\ Listens(Other(s))
    /\ got' = [got EXCEPT ![Other(s)] = @ \o held[s]]
    /\ copier' = [copier EXCEPT ![s] = "read"]
    /\ held' = [held EXCEPT ![s] = <<>>]
    /\ UNCHANGED <<kind, eager, pc, peerVars, open, buf, eof>>

\* The first write to a peer that has closed succeeds, and is answered by a reset.
WriteToClosed(s) ==
    /\ copier[s] = "write" /\ open[Other(s)] /\ end[Other(s)] = "closed"
    /\ Resets(Other(s))
    /\ copier' = [copier EXCEPT ![s] = "read"]
    /\ held' = [held EXCEPT ![s] = <<>>]
    /\ UNCHANGED <<kind, eager, pc, open, buf, got, eof>>

ReadEnds(s) ==
    /\ copier[s] = "read"
    /\ \/ ~open[s] \/ end[s] = "reset"
       \/ end[s] # "open" /\ sock[s] = <<>> /\ ~FromBuffer(s)

WriteFails(s) == copier[s] = "write" /\ (~open[Other(s)] \/ end[Other(s)] = "reset")

\* relay's copier closes the half it wrote to, if it can: the connection to
\* the client can, the tracked connection to the remote has no CloseWrite.
EndCopy(s) ==
    /\ ReadEnds(s) \/ WriteFails(s)
    /\ copier' = [copier EXCEPT ![s] = "ended"]
    /\ held' = [held EXCEPT ![s] = <<>>]
    /\ eof' = (eof \/ (kind # "http" /\ s = "remote"))
    /\ UNCHANGED <<kind, eager, pc, peerVars, open, buf, got>>

Copy(s) == ReadBuffered(s) \/ ReadSocket(s) \/ Write(s) \/ WriteToClosed(s) \/ EndCopy(s)
-----------------------------------------------------------------------------
Init ==
    /\ kind \in {"connect", "http", "socks"}
    /\ eager \in BOOLEAN
    /\ pc = IF kind = "socks" THEN "greeting" ELSE "reading"
    /\ sent = [s \in Peers |-> 0]
    /\ end = [s \in Peers |-> "open"]
    /\ open = [s \in Peers |-> s = "client"]
    /\ sock = [s \in Peers |-> <<>>]
    /\ buf = <<>>
    /\ copier = [s \in Peers |-> "none"]
    /\ held = [s \in Peers |-> <<>>]
    /\ got = [s \in Peers |-> <<>>]
    /\ eof = FALSE

Over == pc = "done" /\ \A s \in Peers : copier[s] \in {"none", "ended"}

Next ==
    \/ Handle
    \/ \E s \in Peers : Send(s) \/ Leave(s) \/ Reset(s) \/ Copy(s)
    \/ Over /\ UNCHANGED vars

Spec == Init /\ [][Next]_vars

\* Goroutines run; a dial and the reading of a request end by their deadlines.
FairSpec == Spec /\ WF_vars(Handle) /\ \A s \in Peers : WF_vars(Copy(s))
-----------------------------------------------------------------------------
(* Properties                                                              *)

(* The type invariant; a copier holds bytes exactly while it writes, and   *)
(* no peer gets more than the other one has sent.                          *)
RelayTypeOK ==
    /\ kind \in {"connect", "http", "socks"} /\ eager \in BOOLEAN
    /\ pc \in {"greeting", "reading", "dialing", "replying", "relaying", "closing",
               "leaving", "done"}
    /\ \A s \in Peers :
          /\ sent[s] \in 0..(IF s = "client" THEN MaxUp ELSE MaxDown)
          /\ end[s] \in {"open", "finished", "closed", "reset"}
          /\ sock[s] \in Seq(Bytes(s)) /\ held[s] \in Seq(Bytes(s))
          /\ got[Other(s)] \in Seq(Bytes(s))
          /\ copier[s] \in {"none", "read", "write", "ended"}
          /\ held[s] # <<>> <=> copier[s] = "write"
          /\ Len(got[Other(s)]) + Len(held[s]) + Len(sock[s]) <= sent[s]
    /\ open \in [Peers -> BOOLEAN] /\ buf \in Seq(Bytes("client")) /\ eof \in BOOLEAN

Sent(s) == [i \in 1..sent[s] |-> i]

(* Every peer gets the bytes of the other one from the first on, in order  *)
(* and without a gap, however they are split between the request's buffer  *)
(* and the socket.  A CONNECT client must wait for the reply for that:     *)
(* handleConnect drops the buffer of its bufio.Reader.                     *)
Intact ==
    \A s \in Peers :
        ~(s = "client" /\ kind = "connect" /\ eager)
            => got[Other(s)] = SubSeq(Sent(s), 1, Len(got[Other(s)]))

(* When the proxy ends the stream to a client that still reads, the client *)
(* has got all that the remote sent, unless the remote's connection broke. *)
(* relay keeps that also for a client that has finished, handleHTTP, which *)
(* returns at the first end of a copy, only if the client neither finishes *)
(* nor sends anything behind its request.                                  *)
WholeAnswer ==
    (/\ eof /\ copier["remote"] # "none"
     /\ Listens("client") /\ end["remote"] # "reset"
     /\ kind = "http" => end["client"] = "open" /\ sent["client"] = 0)
    => got["client"] = Sent("remote")

(* A tunnel ends once both peers have ended their streams, a plain request *)
(* once one of them has, whatever is in flight.                            *)
HandlerEnds ==
    (IF kind = "http" THEN \E s \in Peers : end[s] # "open"
                      ELSE \A s \in Peers : end[s] # "open") ~> pc = "done"

(* No goroutine outlives its handler for good: closing both connections    *)
(* stops the copier that handleHTTP did not wait for.                      *)
NoCopyLeft == pc = "done" ~> Over
=============================================================================
