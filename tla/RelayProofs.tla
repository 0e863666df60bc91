---------------------------- MODULE RelayProofs ----------------------------
(***************************************************************************)
(* Proofs about Relay for any number of bytes on either side: what reaches *)
(* a peer is what the other one sent, in order and without a gap, and the  *)
(* client gets all of the answer before the proxy ends its stream.         *)
(***************************************************************************)
EXTENDS Relay, SequenceTheorems, TLAPS

USE RelayAssumption
-----------------------------------------------------------------------------
(* Sequences                                                               *)

LEMMA Lengths == ASSUME NEW S, NEW seq \in Seq(S)
                 PROVE  Len(seq) \in Nat /\ (seq = <<>> <=> Len(seq) = 0)
  BY EmptySeq, LenProperties

(* A sequence cut in two. *)
LEMMA Cut ==
    ASSUME NEW S, NEW seq \in Seq(S), NEW n \in 0..Len(seq)
    PROVE  /\ SubSeq(seq, 1, n) \in Seq(S) /\ Len(SubSeq(seq, 1, n)) = n
           /\ \A i \in 1..n : SubSeq(seq, 1, n)[i] = seq[i]
           /\ SubSeq(seq, n + 1, Len(seq)) \in Seq(S)
           /\ Len(SubSeq(seq, n + 1, Len(seq))) = Len(seq) - n
           /\ \A i \in 1..(Len(seq) - n) : SubSeq(seq, n + 1, Len(seq))[i] = seq[n + i]
<1>. DEFINE m == Len(seq)
<1>1. m \in Nat /\ n \in Nat /\ n <= m /\ \A i \in 1..m : seq[i] \in S
  BY LenProperties, ElementOfSeq
<1>. HIDE DEF m
<1>2. /\ SubSeq(seq, 1, n) \in Seq(S)
      /\ Len(SubSeq(seq, 1, n)) = IF 1 <= n THEN n - 1 + 1 ELSE 0
      /\ \A i \in 1..(n - 1 + 1) : SubSeq(seq, 1, n)[i] = seq[1 + i - 1]
  <2>1. \A i \in 1..n : seq[i] \in S
    BY <1>1
  <2>. QED
    BY <1>1, <2>1, SubSeqProperties
<1>3. /\ SubSeq(seq, n + 1, m) \in Seq(S)
      /\ Len(SubSeq(seq, n + 1, m)) = IF n + 1 <= m THEN m - (n + 1) + 1 ELSE 0
      /\ \A i \in 1..(m - (n + 1) + 1) : SubSeq(seq, n + 1, m)[i] = seq[n + 1 + i - 1]
  <2>1. \A i \in (n+1)..m : seq[i] \in S
    BY <1>1
  <2>2. n + 1 \in Int /\ m \in Int
    BY <1>1
  <2>. QED
    BY <2>1, <2>2, SubSeqProperties
<1>4. \A i \in 1..n : SubSeq(seq, 1, n)[i] = seq[i]
  BY <1>1, <1>2
<1>5. \A i \in 1..(m - n) : SubSeq(seq, n + 1, m)[i] = seq[n + i]
  <2>. TAKE i \in 1..(m - n)
  <2>1. n + 1 + i - 1 = n + i /\ m - (n + 1) + 1 = m - n
    BY <1>1
  <2>. QED
    BY <1>3, <2>1
<1>6. Len(SubSeq(seq, 1, n)) = n /\ Len(SubSeq(seq, n + 1, m)) = m - n
  BY <1>1, <1>2, <1>3
<1>. QED
  BY <1>2, <1>3, <1>4, <1>5, <1>6 DEF m
-----------------------------------------------------------------------------
(* Types                                                                   *)

Early       == pc \in {"greeting", "reading", "dialing", "replying"}
Got(s)      == got[Other(s)]
Buffered(s) == IF s = "client" THEN buf ELSE <<>>
Max(s)      == IF s = "client" THEN MaxUp ELSE MaxDown

(* How many bytes of s have arrived, and how many are on their way: in the *)
(* hands of its copier, in the handler's buffer and in its socket.         *)
GotLen(s)  == Len(Got(s))
HeldLen(s) == Len(held[s])
BufLen(s)  == Len(Buffered(s))
SockLen(s) == Len(sock[s])
OnItsWay(s) == GotLen(s) + HeldLen(s) + BufLen(s) + SockLen(s)

Line(s) ==
    /\ sent[s] \in 0..Max(s)
    /\ end[s] \in {"open", "finished", "closed", "reset"}
    /\ copier[s] \in {"none", "read", "write", "ended"}
    /\ sock[s] \in Seq(Bytes(s)) /\ held[s] \in Seq(Bytes(s)) /\ Got(s) \in Seq(Bytes(s))
    /\ Buffered(s) \in Seq(Bytes(s))
    /\ held[s] # <<>> <=> copier[s] = "write"
    /\ OnItsWay(s) <= sent[s]

Indexed == /\ DOMAIN sent = Peers /\ DOMAIN end = Peers /\ DOMAIN sock = Peers
           /\ DOMAIN copier = Peers /\ DOMAIN held = Peers /\ DOMAIN got = Peers

HandlerType ==
    /\ kind \in {"connect", "http", "socks"} /\ eager \in BOOLEAN
    /\ pc \in {"greeting", "reading", "dialing", "replying", "relaying", "closing",
               "leaving", "done"}
    /\ open \in [Peers -> BOOLEAN] /\ eof \in BOOLEAN
    /\ Early => \A s \in Peers : copier[s] = "none"

TypeInv == HandlerType /\ Indexed /\ \A s \in Peers : Line(s)

LEMMA OtherPeer ==
    \A s \in Peers : /\ Other(s) \in Peers /\ Other(s) # s /\ Other(Other(s)) = s
                     /\ \A r \in Peers : r = s \/ r = Other(s)
  BY DEF Peers, Other

LEMMA LineLengths ==
    ASSUME NEW s, Line(s)
    PROVE  /\ SockLen(s) \in Nat /\ HeldLen(s) \in Nat /\ GotLen(s) \in Nat
           /\ BufLen(s) \in Nat /\ sent[s] \in Nat
           /\ (held[s] = <<>> <=> HeldLen(s) = 0) /\ (sock[s] = <<>> <=> SockLen(s) = 0)
           /\ (Buffered(s) = <<>> <=> BufLen(s) = 0)
           /\ GotLen(s) + HeldLen(s) + BufLen(s) + SockLen(s) <= sent[s]
<1>1. sent[s] \in Nat
  BY DEF Line, Max
<1>2. GotLen(s) + HeldLen(s) + BufLen(s) + SockLen(s) <= sent[s]
  BY DEF Line, OnItsWay
<1>. QED
  BY <1>1, <1>2, Lengths DEF Line, SockLen, HeldLen, GotLen, BufLen

LEMMA TypeSuffices == TypeInv => RelayTypeOK
<1>. SUFFICES ASSUME TypeInv PROVE RelayTypeOK
  OBVIOUS
<1>1. ASSUME NEW s \in Peers PROVE Len(got[Other(s)]) + Len(held[s]) + Len(sock[s]) <= sent[s]
  <2>1. Line(s)
    BY DEF TypeInv
  <2>2. GotLen(s) + HeldLen(s) + SockLen(s) <= sent[s]
    BY <2>1, LineLengths
  <2>. QED
    BY <2>2 DEF Got, GotLen, HeldLen, SockLen
<1>2. buf \in Seq(Bytes("client"))
  BY DEF TypeInv, Line, Buffered, Peers
<1>. QED
  BY <1>1, <1>2 DEF TypeInv, HandlerType, Line, RelayTypeOK, Max, Got

(* A line that nothing has touched. *)
Untouched(s) ==
    /\ sent'[s] = sent[s] /\ end'[s] = end[s] /\ sock'[s] = sock[s]
    /\ copier'[s] = copier[s] /\ held'[s] = held[s] /\ got'[Other(s)] = got[Other(s)]
    /\ Buffered(s)' = Buffered(s)

LEMMA UntouchedLengths ==
    ASSUME NEW s
    PROVE  /\ got'[Other(s)] = got[Other(s)] => Got(s)' = Got(s) /\ GotLen(s)' = GotLen(s)
           /\ held'[s] = held[s] => HeldLen(s)' = HeldLen(s)
           /\ Buffered(s)' = Buffered(s) => BufLen(s)' = BufLen(s)
           /\ sock'[s] = sock[s] => SockLen(s)' = SockLen(s)
  BY DEF Got, GotLen, HeldLen, BufLen, SockLen

LEMMA UntouchedType == ASSUME NEW s, Line(s), Untouched(s) PROVE Line(s)'
<1>1. OnItsWay(s)' = OnItsWay(s) /\ Got(s)' = Got(s)
  BY UntouchedLengths DEF Untouched, OnItsWay
<1>. QED
  BY <1>1 DEF Line, Untouched, Max, Bytes

(* What a reset leaves. *)
LEMMA ResetType ==
    ASSUME NEW s, Line(s), sock'[s] \in {sock[s], <<>>}, end'[s] = "reset",
           sent'[s] = sent[s], copier'[s] = copier[s], held'[s] = held[s],
           got'[Other(s)] = got[Other(s)], Buffered(s)' = Buffered(s)
    PROVE  Line(s)'
<1>1. sock'[s] \in Seq(Bytes(s)) /\ SockLen(s)' \in Nat /\ SockLen(s)' <= SockLen(s)
  <2>1. sock[s] \in Seq(Bytes(s)) /\ SockLen(s) \in Nat
    BY LineLengths DEF Line
  <2>2. <<>> \in Seq(Bytes(s)) /\ Len(<<>>) = 0
    BY EmptySeq
  <2>3. CASE sock'[s] = sock[s]
    BY <2>1, <2>3, UntouchedLengths
  <2>4. CASE sock'[s] = <<>>
    BY <2>1, <2>2, <2>4 DEF SockLen
  <2>. QED
    BY <2>3, <2>4
<1>2. /\ GotLen(s)' = GotLen(s) /\ Got(s)' = Got(s)
      /\ HeldLen(s)' = HeldLen(s) /\ BufLen(s)' = BufLen(s)
  BY UntouchedLengths
<1>3. OnItsWay(s)' <= sent[s]
  <2>1. GotLen(s) + HeldLen(s) + BufLen(s) + SockLen(s)' <= sent[s]
    BY <1>1, LineLengths
  <2>. QED
    BY <1>2, <2>1 DEF OnItsWay
<1>. QED
  BY <1>1, <1>2, <1>3 DEF Line, Max, Bytes

LEMMA SendType == ASSUME TypeInv, NEW s \in Peers, Send(s) PROVE TypeInv'
<1>1. /\ sent'[s] = sent[s] + 1 /\ sent[s] + 1 \in Bytes(s)
      /\ sock'[s] = Append(sock[s], sent[s] + 1)
      /\ UNCHANGED <<kind, eager, pc, end, open, buf, copyVars, eof>>
      /\ DOMAIN sent' = Peers /\ DOMAIN sock' = Peers
      /\ \A r \in Peers : r # s => sent'[r] = sent[r] /\ sock'[r] = sock[r]
  BY DEF Send, TypeInv, Indexed
<1>2. Line(s)
  BY DEF TypeInv
<1>3. sock'[s] \in Seq(Bytes(s)) /\ SockLen(s)' = SockLen(s) + 1
  BY <1>1, <1>2, AppendProperties DEF Line, SockLen
<1>4. Line(s)'
  <2>1. /\ Buffered(s)' = Buffered(s) /\ Got(s)' = Got(s) /\ GotLen(s)' = GotLen(s)
        /\ HeldLen(s)' = HeldLen(s) /\ BufLen(s)' = BufLen(s)
    BY <1>1, UntouchedLengths DEF Buffered, copyVars
  <2>2. sent'[s] \in 0..Max(s)
    BY <1>1, <1>2 DEF Line, Bytes, Max
  <2>3. OnItsWay(s)' <= sent'[s]
    <3>1. GotLen(s) + HeldLen(s) + BufLen(s) + (SockLen(s) + 1) <= sent[s] + 1
      BY <1>2, LineLengths
    <3>. QED
      BY <3>1, <2>1, <1>1, <1>3 DEF OnItsWay
  <2>. QED
    BY <1>1, <1>2, <1>3, <2>1, <2>2, <2>3 DEF Line, copyVars, Max, Bytes
<1>5. ASSUME NEW r \in Peers, r # s PROVE Line(r)'
  BY <1>1, <1>5, UntouchedType DEF Untouched, TypeInv, copyVars, Buffered
<1>. QED
  BY <1>1, <1>4, <1>5 DEF TypeInv, HandlerType, Indexed, copyVars, Early

LEMMA LeaveType == ASSUME TypeInv, NEW s \in Peers, Leave(s) PROVE TypeInv'
<1>1. /\ UNCHANGED <<kind, eager, pc, sent, sock, open, buf, copyVars, eof>>
      /\ DOMAIN end' = Peers /\ end'[s] \in {"finished", "closed"}
      /\ \A r \in Peers : r # s => end'[r] = end[r]
  BY DEF Leave, TypeInv, Indexed
<1>2. ASSUME NEW r \in Peers PROVE Line(r)'
  <2>1. Line(r)
    BY DEF TypeInv
  <2>2. OnItsWay(r)' = OnItsWay(r) /\ Got(r)' = Got(r) /\ Buffered(r)' = Buffered(r)
    BY <1>1, UntouchedLengths DEF OnItsWay, copyVars, Buffered
  <2>3. end'[r] \in {"open", "finished", "closed", "reset"}
    BY <1>1, <2>1 DEF Line
  <2>. QED
    BY <1>1, <2>1, <2>2, <2>3 DEF Line, copyVars, Max, Bytes
<1>. QED
  BY <1>1, <1>2 DEF TypeInv, HandlerType, Indexed, copyVars, Early

LEMMA ResetStepType == ASSUME TypeInv, NEW s \in Peers, Reset(s) PROVE TypeInv'
<1>1. /\ UNCHANGED <<kind, eager, pc, sent, open, buf, copyVars, eof>>
      /\ DOMAIN end' = Peers /\ DOMAIN sock' = Peers
      /\ end'[s] = "reset" /\ sock'[s] \in {sock[s], <<>>}
      /\ \A r \in Peers : r # s => end'[r] = end[r] /\ sock'[r] = sock[r]
  BY DEF Reset, Resets, TypeInv, Indexed
<1>2. Line(s)'
  BY <1>1, ResetType DEF TypeInv, copyVars, Buffered
<1>3. ASSUME NEW r \in Peers, r # s PROVE Line(r)'
  BY <1>1, <1>3, UntouchedType DEF TypeInv, Untouched, copyVars, Buffered
<1>. QED
  BY <1>1, <1>2, <1>3 DEF TypeInv, HandlerType, Indexed, copyVars, Early

(* The buffered reader takes n bytes from the client's socket. *)
LEMMA ReadRequestTakes ==
    ASSUME TypeInv, ReadRequest
    PROVE  \E n \in 0..SockLen("client") :
              /\ kind = "socks" => n = 0
              /\ buf' = SubSeq(sock["client"], 1, n)
              /\ sock'["client"] = SubSeq(sock["client"], n + 1, Len(sock["client"]))
              /\ buf' \in Seq(Bytes("client")) /\ sock'["client"] \in Seq(Bytes("client"))
              /\ BufLen("client")' = n /\ SockLen("client")' = SockLen("client") - n
              /\ DOMAIN sock' = Peers /\ sock'["remote"] = sock["remote"]
<1>. DEFINE q == sock["client"]
<1>1. PICK n \in 0..Len(q) :
        /\ kind = "socks" => n = 0
        /\ buf' = SubSeq(q, 1, n)
        /\ sock' = [sock EXCEPT !["client"] = SubSeq(@, n + 1, Len(@))]
  BY DEF ReadRequest
<1>2. DOMAIN sock' = Peers /\ sock'["client"] = SubSeq(q, n + 1, Len(q)) /\ sock'["remote"] = sock["remote"]
  BY <1>1 DEF TypeInv, Indexed, Peers
<1>3. q \in Seq(Bytes("client"))
  BY DEF TypeInv, Line, Peers
<1>4. /\ buf' \in Seq(Bytes("client")) /\ Len(buf') = n
      /\ sock'["client"] \in Seq(Bytes("client")) /\ Len(sock'["client"]) = Len(q) - n
  BY <1>1, <1>2, <1>3, Cut
<1>. QED
  BY <1>1, <1>2, <1>4 DEF SockLen, BufLen, Buffered

LEMMA ReadRequestType == ASSUME TypeInv, ReadRequest PROVE TypeInv'
<1>1. PICK n \in 0..SockLen("client") :
        /\ buf' \in Seq(Bytes("client")) /\ sock'["client"] \in Seq(Bytes("client"))
        /\ BufLen("client")' = n /\ SockLen("client")' = SockLen("client") - n
        /\ DOMAIN sock' = Peers /\ sock'["remote"] = sock["remote"]
  BY ReadRequestTakes
<1>2. /\ pc = "reading" /\ pc' = "dialing" /\ "client" \in Peers /\ Line("client")
      /\ UNCHANGED <<kind, eager, sent, end, open, copyVars, eof>>
  BY DEF ReadRequest, Goto, Peers, TypeInv
<1>3. Line("client")'
  <2>1. GotLen("client") + HeldLen("client") + n + (SockLen("client") - n) <= sent["client"]
    BY <1>2, LineLengths
  <2>2. /\ Buffered("client")' = buf' /\ Got("client")' = Got("client")
        /\ GotLen("client")' = GotLen("client") /\ HeldLen("client")' = HeldLen("client")
    BY <1>2, UntouchedLengths DEF Buffered, copyVars
  <2>3. OnItsWay("client")' <= sent["client"]
    BY <1>1, <2>1, <2>2 DEF OnItsWay
  <2>. QED
    BY <1>1, <1>2, <2>2, <2>3 DEF Line, copyVars, Max, Bytes
<1>4. Line("remote")'
  BY <1>1, <1>2, UntouchedType DEF TypeInv, Peers, Untouched, copyVars, Buffered
<1>. QED
  BY <1>1, <1>2, <1>3, <1>4 DEF TypeInv, HandlerType, Indexed, copyVars, Early, Peers

LEMMA ReplyType == ASSUME TypeInv, Reply PROVE TypeInv'
<1>1. /\ pc = "replying" /\ pc' = "relaying" /\ copier' = [s \in Peers |-> "read"]
      /\ UNCHANGED <<kind, eager, peerVars, open, buf, held, got, eof>>
  BY DEF Reply, Goto
<1>2. ASSUME NEW s \in Peers PROVE Line(s)'
  <2>1. Line(s) /\ held[s] = <<>>
    BY <1>1 DEF TypeInv, HandlerType, Early, Line
  <2>2. OnItsWay(s)' = OnItsWay(s) /\ Got(s)' = Got(s) /\ Buffered(s)' = Buffered(s)
    BY <1>1, UntouchedLengths DEF OnItsWay, peerVars, Buffered
  <2>. QED
    BY <1>1, <2>1, <2>2 DEF Line, peerVars, Max, Bytes
<1>. QED
  BY <1>1, <1>2 DEF TypeInv, HandlerType, Indexed, peerVars, Early

LEMMA HandleType == ASSUME TypeInv, Handle PROVE TypeInv'
<1>1. CASE ReadRequest
  BY <1>1, ReadRequestType
<1>2. CASE Reply
  BY <1>2, ReplyType
<1>3. CASE Greet \/ Refuse \/ DialFails \/ DialSucceeds \/ ReplyFails \/ Return \/ CloseRemote \/ CloseClient
  <2>1. /\ UNCHANGED <<kind, eager, peerVars, buf, copyVars>>
        /\ pc' \in {"reading", "dialing", "replying", "relaying", "closing", "leaving", "done"}
        /\ open' \in [Peers -> BOOLEAN] /\ eof' \in BOOLEAN
        /\ Early' => Early
    BY <1>3 DEF Greet, Refuse, DialFails, DialSucceeds, ReplyFails, Return, CloseRemote, CloseClient,
                Goto, TypeInv, HandlerType, Early
  <2>2. ASSUME NEW s \in Peers PROVE Line(s)'
    BY <2>1, UntouchedType DEF TypeInv, Untouched, peerVars, copyVars, Buffered
  <2>. QED
    BY <2>1, <2>2 DEF TypeInv, HandlerType, Indexed, peerVars, copyVars
<1>. QED
  BY <1>1, <1>2, <1>3 DEF Handle

(* What a step of the copier of s leaves alone. *)
LEMMA CopyFrame ==
    ASSUME TypeInv, NEW s \in Peers, Copy(s)
    PROVE  /\ UNCHANGED <<kind, eager, pc, sent, open>> /\ ~Early /\ eof' \in BOOLEAN
           /\ Indexed' /\ copier[s] \in {"read", "write"}
           /\ LET r == Other(s) IN
              /\ copier'[r] = copier[r] /\ held'[r] = held[r] /\ got'[s] = got[s]
              /\ Buffered(r)' = Buffered(r)
              /\ ~WriteToClosed(s) => end' = end /\ sock'[r] = sock[r]
<1>1. s \in Peers /\ Other(s) \in Peers /\ Other(s) # s
  BY OtherPeer
<1>2. copier[s] \in {"read", "write"}
  BY DEF Copy, ReadBuffered, ReadSocket, TakeFrom, Holds, Write, WriteToClosed, EndCopy, ReadEnds, WriteFails
<1>3. ~Early
  BY <1>2 DEF TypeInv, HandlerType
<1>4. eof' \in BOOLEAN
  BY DEF Copy, ReadBuffered, ReadSocket, TakeFrom, Write, WriteToClosed, EndCopy, TypeInv, HandlerType
<1>5. CASE ReadBuffered(s)
  BY <1>1, <1>2, <1>3, <1>5
     DEF ReadBuffered, Holds, FromBuffer, TypeInv, Indexed, peerVars, Buffered, Other, HandlerType
<1>6. CASE ReadSocket(s)
  BY <1>1, <1>2, <1>3, <1>6
     DEF ReadSocket, TakeFrom, Holds, TypeInv, Indexed, Buffered, HandlerType
<1>7. CASE Write(s)
  BY <1>1, <1>2, <1>3, <1>7 DEF Write, TypeInv, Indexed, peerVars, Buffered, HandlerType
<1>8. CASE WriteToClosed(s)
  BY <1>1, <1>2, <1>3, <1>8 DEF WriteToClosed, Resets, TypeInv, Indexed, Buffered, HandlerType
<1>9. CASE EndCopy(s)
  BY <1>1, <1>2, <1>3, <1>4, <1>9 DEF EndCopy, TypeInv, Indexed, peerVars, Buffered, HandlerType
<1>. QED
  BY <1>5, <1>6, <1>7, <1>8, <1>9 DEF Copy

LEMMA ReadBufferedTakes ==
    ASSUME TypeInv, NEW s \in Peers, ReadBuffered(s)
    PROVE  /\ s = "client" /\ kind = "http" /\ Buffered(s) # <<>> /\ copier[s] = "read" /\ held[s] = <<>>
           /\ copier'[s] = "write" /\ held'[s] = Buffered(s) /\ Buffered(s)' = <<>>
           /\ end' = end /\ sock' = sock /\ got' = got
           /\ HeldLen(s) = 0 /\ HeldLen(s)' = BufLen(s) /\ BufLen(s)' = 0
<1>1. /\ s = "client" /\ kind = "http" /\ buf # <<>> /\ copier[s] = "read"
      /\ copier'[s] = "write" /\ held'[s] = buf /\ buf' = <<>>
      /\ end' = end /\ sock' = sock /\ got' = got
  BY DEF ReadBuffered, FromBuffer, Holds, TypeInv, Indexed, peerVars
<1>2. Line(s) /\ held[s] = <<>>
  BY <1>1 DEF TypeInv, Line
<1>3. HeldLen(s) = 0
  BY <1>2, LineLengths
<1>4. Len(<<>>) = 0
  BY EmptySeq
<1>. QED
  BY <1>1, <1>2, <1>3, <1>4 DEF HeldLen, BufLen, Buffered

LEMMA ReadSocketTakes ==
    ASSUME TypeInv, NEW s \in Peers, ReadSocket(s)
    PROVE  \E n \in 1..SockLen(s) :
              /\ ~FromBuffer(s) /\ copier[s] = "read" /\ held[s] = <<>> /\ HeldLen(s) = 0
              /\ copier'[s] = "write"
              /\ held'[s] = SubSeq(sock[s], 1, n)
              /\ sock'[s] = SubSeq(sock[s], n + 1, Len(sock[s]))
              /\ held'[s] \in Seq(Bytes(s)) /\ held'[s] # <<>> /\ sock'[s] \in Seq(Bytes(s))
              /\ HeldLen(s)' = n /\ SockLen(s)' = SockLen(s) - n
              /\ end' = end /\ got' = got /\ buf' = buf
<1>1. PICK n \in 1..Len(sock[s]) :
        /\ copier[s] = "read" /\ copier'[s] = "write"
        /\ held'[s] = SubSeq(sock[s], 1, n)
        /\ sock'[s] = SubSeq(sock[s], n + 1, Len(sock[s]))
        /\ got' = got
  BY DEF ReadSocket, TakeFrom, Holds, TypeInv, Indexed
<1>2. Line(s) /\ held[s] = <<>>
  BY <1>1 DEF TypeInv, Line
<1>3. HeldLen(s) = 0 /\ SockLen(s) \in Nat /\ sock[s] \in Seq(Bytes(s)) /\ SockLen(s) = Len(sock[s])
  BY <1>2, LineLengths DEF Line, SockLen
<1>4. n \in 0..Len(sock[s]) /\ n \in 1..SockLen(s)
  BY <1>3
<1>5. /\ held'[s] \in Seq(Bytes(s)) /\ Len(held'[s]) = n
      /\ sock'[s] \in Seq(Bytes(s)) /\ Len(sock'[s]) = Len(sock[s]) - n
  BY <1>1, <1>3, <1>4, Cut
<1>6. held'[s] # <<>>
  <2>1. Len(held'[s]) # 0
    BY <1>4, <1>5
  <2>. QED
    BY <2>1, EmptySeq
<1>7. HeldLen(s)' = n /\ SockLen(s)' = SockLen(s) - n
  BY <1>5 DEF HeldLen, SockLen
<1>8. ~FromBuffer(s) /\ end' = end /\ buf' = buf
  BY DEF ReadSocket, TakeFrom
<1>. QED
  BY <1>1, <1>2, <1>3, <1>4, <1>5, <1>6, <1>7, <1>8

LEMMA WriteGives ==
    ASSUME TypeInv, NEW s \in Peers, Write(s)
    PROVE  /\ Listens(Other(s)) /\ copier[s] = "write" /\ copier'[s] = "read" /\ held'[s] = <<>>
           /\ Got(s)' = Got(s) \o held[s] /\ Got(s)' \in Seq(Bytes(s))
           /\ HeldLen(s)' = 0 /\ GotLen(s)' = GotLen(s) + HeldLen(s)
           /\ end' = end /\ sock' = sock /\ buf' = buf
<1>1. /\ Listens(Other(s)) /\ copier[s] = "write" /\ copier'[s] = "read" /\ held'[s] = <<>>
      /\ end' = end /\ sock' = sock /\ buf' = buf
      /\ got'[Other(s)] = got[Other(s)] \o held[s]
  BY OtherPeer DEF Write, TypeInv, Indexed, peerVars
<1>2. Got(s) \in Seq(Bytes(s)) /\ held[s] \in Seq(Bytes(s))
  BY DEF TypeInv, Line
<1>3. Got(s)' = Got(s) \o held[s]
  BY <1>1 DEF Got
<1>4. Got(s)' \in Seq(Bytes(s)) /\ Len(Got(s)') = Len(Got(s)) + Len(held[s])
  BY <1>2, <1>3, ConcatProperties
<1>5. Len(<<>>) = 0
  BY EmptySeq
<1>. QED
  BY <1>1, <1>3, <1>4, <1>5 DEF HeldLen, GotLen

(* The copier drops what it holds. *)
LEMMA Drops ==
    ASSUME TypeInv, NEW s \in Peers, held'[s] = <<>>,
           copier'[s] \in {"read", "ended"}, UNCHANGED <<sent, buf>>, got'[Other(s)] = got[Other(s)],
           end'[s] = end[s], sock'[s] = sock[s]
    PROVE  Line(s)'
<1>1. Line(s)
  BY DEF TypeInv
<1>2. /\ Got(s)' = Got(s) /\ GotLen(s)' = GotLen(s) /\ SockLen(s)' = SockLen(s)
      /\ Buffered(s)' = Buffered(s) /\ BufLen(s)' = BufLen(s)
  BY UntouchedLengths DEF Buffered
<1>3. held'[s] \in Seq(Bytes(s)) /\ HeldLen(s)' = 0
  BY EmptySeq DEF HeldLen
<1>4. OnItsWay(s)' <= sent[s]
  <2>1. GotLen(s) + 0 + BufLen(s) + SockLen(s) <= sent[s]
    BY <1>1, LineLengths
  <2>. QED
    BY <2>1, <1>2, <1>3 DEF OnItsWay
<1>. QED
  BY <1>1, <1>2, <1>3, <1>4 DEF Line, Max, Bytes

LEMMA CopyType == ASSUME TypeInv, NEW s \in Peers, Copy(s) PROVE TypeInv'
<1>. DEFINE r == Other(s)
<1>1. s \in Peers /\ r \in Peers /\ r # s /\ Other(r) = s /\ Line(s) /\ Line(r)
      /\ \A p \in Peers : p = s \/ p = r
  BY OtherPeer DEF TypeInv
<1>2. HandlerType' /\ Indexed'
  BY CopyFrame DEF TypeInv, HandlerType, Early
<1>3. ~WriteToClosed(s) => Line(r)'
  <2>1. ~WriteToClosed(s) => Untouched(r)
    BY <1>1, CopyFrame DEF Untouched
  <2>. QED
    BY <1>1, <2>1, UntouchedType
<1>4. CASE ReadBuffered(s)
  <2>1. OnItsWay(s)' <= sent[s]
    <3>1. GotLen(s) + BufLen(s) + 0 + SockLen(s) <= sent[s]
      BY <1>1, <1>4, LineLengths, ReadBufferedTakes
    <3>. QED
      BY <1>4, <3>1, ReadBufferedTakes, UntouchedLengths DEF OnItsWay
  <2>2. Line(s)'
    <3>1. /\ sent'[s] = sent[s] /\ end'[s] = end[s] /\ sock'[s] = sock[s] /\ Got(s)' = Got(s)
          /\ held'[s] = Buffered(s) /\ held'[s] # <<>> /\ copier'[s] = "write"
          /\ Buffered(s)' = <<>> /\ <<>> \in Seq(Bytes(s))
      BY <1>4, ReadBufferedTakes, CopyFrame, EmptySeq DEF Got
    <3>. QED
      BY <1>1, <2>1, <3>1 DEF Line, Max, Bytes
  <2>3. ~WriteToClosed(s)
    BY <1>4 DEF ReadBuffered, Holds, WriteToClosed
  <2>. QED
    BY <1>1, <1>2, <1>3, <2>2, <2>3 DEF TypeInv
<1>5. CASE ReadSocket(s)
  <2>1. PICK n \in 1..SockLen(s) :
          /\ copier[s] = "read" /\ held[s] = <<>> /\ HeldLen(s) = 0 /\ copier'[s] = "write"
          /\ held'[s] \in Seq(Bytes(s)) /\ held'[s] # <<>> /\ sock'[s] \in Seq(Bytes(s))
          /\ HeldLen(s)' = n /\ SockLen(s)' = SockLen(s) - n
          /\ end' = end /\ got' = got /\ buf' = buf
    BY <1>5, ReadSocketTakes
  <2>2. /\ Got(s)' = Got(s) /\ GotLen(s)' = GotLen(s)
        /\ Buffered(s)' = Buffered(s) /\ BufLen(s)' = BufLen(s)
    BY <2>1, UntouchedLengths DEF Buffered
  <2>3. OnItsWay(s)' <= sent[s]
    <3>1. GotLen(s) + n + BufLen(s) + (SockLen(s) - n) <= sent[s]
      BY <1>1, <2>1, LineLengths
    <3>. QED
      BY <2>1, <2>2, <3>1 DEF OnItsWay
  <2>4. Line(s)'
    <3>1. sent' = sent
      BY CopyFrame
    <3>. QED
      BY <1>1, <2>1, <2>2, <2>3, <3>1 DEF Line, Max, Bytes
  <2>5. ~WriteToClosed(s)
    BY <2>1 DEF WriteToClosed
  <2>. QED
    BY <1>1, <1>2, <1>3, <2>4, <2>5 DEF TypeInv
<1>6. CASE Write(s)
  <2>1. OnItsWay(s)' <= sent[s]
    <3>1. (GotLen(s) + HeldLen(s)) + 0 + BufLen(s) + SockLen(s) <= sent[s]
      BY <1>1, LineLengths
    <3>2. BufLen(s)' = BufLen(s) /\ SockLen(s)' = SockLen(s)
      BY <1>6, WriteGives, UntouchedLengths DEF Buffered
    <3>. QED
      BY <1>6, <3>1, <3>2, WriteGives DEF OnItsWay
  <2>2. Line(s)'
    <3>1. sent' = sent /\ held'[s] \in Seq(Bytes(s)) /\ Buffered(s)' = Buffered(s)
      BY <1>6, WriteGives, CopyFrame, EmptySeq DEF Buffered
    <3>. QED
      BY <1>1, <1>6, <2>1, <3>1, WriteGives DEF Line, Max, Bytes
  <2>3. CASE WriteToClosed(s)
    BY <1>6, <2>3 DEF Write, WriteToClosed, Listens
  <2>. QED
    BY <1>1, <1>2, <1>3, <2>2, <2>3 DEF TypeInv
<1>7. CASE WriteToClosed(s)
  <2>1. /\ copier'[s] = "read" /\ held'[s] = <<>> /\ UNCHANGED <<sent, buf, got>>
        /\ end'[s] = end[s] /\ sock'[s] = sock[s]
        /\ end'[r] = "reset" /\ sock'[r] \in {sock[r], <<>>}
        /\ copier'[r] = copier[r] /\ held'[r] = held[r]
    BY <1>1, <1>7 DEF WriteToClosed, Resets, TypeInv, Indexed
  <2>2. Line(s)'
    BY <2>1, Drops
  <2>3. Line(r)'
    BY <1>1, <2>1, ResetType DEF Buffered
  <2>. QED
    BY <1>1, <1>2, <2>2, <2>3 DEF TypeInv
<1>8. CASE EndCopy(s)
  <2>1. /\ copier'[s] = "ended" /\ held'[s] = <<>> /\ UNCHANGED <<sent, buf, got, end, sock>>
    BY <1>8 DEF EndCopy, TypeInv, Indexed, peerVars
  <2>2. Line(s)'
    BY <2>1, Drops
  <2>3. Line(r)'
    BY <1>1, <2>1, CopyFrame, UntouchedType DEF Untouched
  <2>. QED
    BY <1>1, <1>2, <2>2, <2>3 DEF TypeInv
<1>. QED
  BY <1>4, <1>5, <1>6, <1>7, <1>8 DEF Copy

LEMMA TypeInit == Init => TypeInv
<1>. SUFFICES ASSUME Init PROVE TypeInv
  OBVIOUS
<1>1. ASSUME NEW s \in Peers PROVE Line(s)
  <2>1. /\ sent[s] = 0 /\ end[s] = "open" /\ copier[s] = "none" /\ sock[s] = <<>> /\ held[s] = <<>>
        /\ Got(s) = <<>> /\ Buffered(s) = <<>> /\ Len(<<>>) = 0 /\ <<>> \in Seq(Bytes(s))
    BY OtherPeer, EmptySeq DEF Init, Got, Buffered
  <2>2. OnItsWay(s) = 0
    BY <2>1 DEF OnItsWay, GotLen, HeldLen, BufLen, SockLen
  <2>3. 0 \in 0..Max(s)
    BY DEF Max
  <2>. QED
    BY <2>1, <2>2, <2>3 DEF Line
<1>. QED
  BY <1>1 DEF Init, TypeInv, HandlerType, Indexed

LEMMA TypeNext == TypeInv /\ [Next]_vars => TypeInv'
<1>. SUFFICES ASSUME TypeInv, [Next]_vars PROVE TypeInv'
  OBVIOUS
<1>1. CASE UNCHANGED vars
  <2>1. ASSUME NEW s \in Peers PROVE Line(s)'
    BY <1>1, UntouchedType DEF TypeInv, Untouched, vars, peerVars, copyVars, Buffered
  <2>. QED
    BY <1>1, <2>1 DEF TypeInv, HandlerType, Indexed, vars, peerVars, copyVars, Early
<1>. QED
  BY <1>1, HandleType, SendType, LeaveType, ResetStepType, CopyType DEF Next

(* The type invariant: a copier holds bytes exactly while it writes, and   *)
(* no peer gets more than the other one has sent, whatever is lost.        *)
THEOREM RelayType == Spec => []RelayTypeOK
  BY TypeInit, TypeNext, TypeSuffices, PTL DEF Spec
-----------------------------------------------------------------------------
(* In order and without a gap                                              *)

(* The bytes of a sequence are from + 1, from + 2, ... *)
IsRun(seq, from) == \A i \in 1..Len(seq) : seq[i] = from + i

LEMMA EmptyRun == \A from : IsRun(<<>>, from)
  BY EmptySeq DEF IsRun

LEMMA RunAppend ==
    ASSUME NEW S, NEW seq \in Seq(S), NEW from \in Nat, IsRun(seq, from), from + Len(seq) + 1 \in S
    PROVE  IsRun(Append(seq, from + Len(seq) + 1), from)
<1>. DEFINE x == from + Len(seq) + 1
            longer == Append(seq, x)
<1>1. Len(seq) \in Nat
  BY Lengths
<1>2. /\ Len(longer) = Len(seq) + 1 /\ longer[Len(seq) + 1] = x
      /\ \A i \in 1..Len(seq) : longer[i] = seq[i]
  BY AppendProperties
<1>. HIDE DEF longer
<1>3. ASSUME NEW i \in 1..Len(longer) PROVE longer[i] = from + i
  <2>1. CASE i \in 1..Len(seq)
    BY <1>2, <2>1 DEF IsRun
  <2>2. CASE i = Len(seq) + 1
    BY <1>1, <1>2, <2>2
  <2>. QED
    BY <1>1, <1>2, <2>1, <2>2
<1>. QED
  BY <1>3 DEF IsRun, longer

LEMMA RunCut ==
    ASSUME NEW S, NEW seq \in Seq(S), NEW from \in Nat, IsRun(seq, from), NEW n \in 0..Len(seq)
    PROVE  IsRun(SubSeq(seq, 1, n), from) /\ IsRun(SubSeq(seq, n + 1, Len(seq)), from + n)
<1>. DEFINE a == SubSeq(seq, 1, n)
            b == SubSeq(seq, n + 1, Len(seq))
            m == Len(seq)
<1>1. /\ Len(a) = n /\ \A i \in 1..n : a[i] = seq[i]
      /\ Len(b) = m - n /\ \A i \in 1..(m - n) : b[i] = seq[n + i]
  BY Cut
<1>2. m \in Nat /\ n \in 0..m /\ \A i \in 1..m : seq[i] = from + i
  BY Lengths DEF IsRun
<1>. HIDE DEF a, b, m
<1>3. \A i \in 1..n : a[i] = from + i
  BY <1>1, <1>2
<1>4. ASSUME NEW i \in 1..(m - n) PROVE b[i] = from + n + i
  <2>1. n + i \in 1..m
    BY <1>2
  <2>2. b[i] = from + (n + i)
    BY <1>1, <1>2, <2>1
  <2>. QED
    BY <1>2, <2>2
<1>. QED
  BY <1>1, <1>3, <1>4 DEF IsRun, a, b

LEMMA RunConcat ==
    ASSUME NEW S, NEW a \in Seq(S), NEW b \in Seq(S), IsRun(a, 0), IsRun(b, Len(a))
    PROVE  IsRun(a \o b, 0)
<1>. DEFINE c == a \o b
            k == Len(a)
            m == Len(b)
<1>1. k \in Nat /\ m \in Nat
  BY Lengths
<1>2. Len(c) = k + m /\ \A i \in 1..(k + m) : c[i] = IF i <= k THEN a[i] ELSE b[i - k]
  BY ConcatProperties
<1>3. (\A i \in 1..k : a[i] = i) /\ (\A i \in 1..m : b[i] = k + i)
  BY DEF IsRun
<1>. HIDE DEF c, k, m
<1>4. ASSUME NEW i \in 1..(k + m) PROVE c[i] = i
  <2>1. CASE i <= k
    BY <1>1, <1>2, <1>3, <2>1
  <2>2. CASE ~(i <= k)
    <3>1. i - k \in 1..m /\ k + (i - k) = i
      BY <1>1, <2>2
    <3>. QED
      BY <1>2, <1>3, <2>2, <3>1
  <2>. QED
    BY <2>1, <2>2
<1>. QED
  BY <1>2, <1>4 DEF IsRun, c

(* What is on its way to a peer follows what has arrived there, piece by   *)
(* piece, as long as the copier may still give it.                         *)
Alive(s) == copier[s] # "ended" /\ end[Other(s)] # "reset"
Queued(s) ==
    /\ IsRun(held[s], GotLen(s))
    /\ IsRun(Buffered(s), GotLen(s) + HeldLen(s))
    /\ IsRun(sock[s], GotLen(s) + HeldLen(s) + BufLen(s))
    /\ end[s] # "reset" => sent[s] = OnItsWay(s)
Flows(s) == IsRun(Got(s), 0) /\ (Alive(s) => Queued(s))

(* handleConnect drops the buffer of an eager client. *)
Dropped(s) == s = "client" /\ kind = "connect" /\ eager

BufferOk ==
    /\ pc \in {"greeting", "reading"} => buf = <<>>
    /\ ~Dropped("client") /\ kind # "http" => buf = <<>>
    /\ ~eager /\ Early => sent["client"] = 0

FlowInv == BufferOk /\ \A s \in Peers : ~Dropped(s) => Flows(s)

LEMMA UntouchedFlows ==
    ASSUME NEW s, Flows(s), Untouched(s), Alive(s)' => Alive(s) PROVE Flows(s)'
<1>1. /\ Got(s)' = Got(s) /\ GotLen(s)' = GotLen(s) /\ HeldLen(s)' = HeldLen(s)
      /\ BufLen(s)' = BufLen(s) /\ SockLen(s)' = SockLen(s)
  BY UntouchedLengths DEF Untouched
<1>. QED
  BY <1>1 DEF Flows, Queued, Untouched, OnItsWay, IsRun

LEMMA ResetFlows ==
    ASSUME NEW s, Flows(s), sock'[s] \in {sock[s], <<>>}, end'[s] = "reset",
           copier'[s] = copier[s], held'[s] = held[s],
           got'[Other(s)] = got[Other(s)], Buffered(s)' = Buffered(s), Alive(s)' => Alive(s)
    PROVE  Flows(s)'
<1>1. /\ Got(s)' = Got(s) /\ GotLen(s)' = GotLen(s) /\ HeldLen(s)' = HeldLen(s)
      /\ BufLen(s)' = BufLen(s)
  BY UntouchedLengths
<1>2. Queued(s) => IsRun(sock'[s], GotLen(s) + HeldLen(s) + BufLen(s))
  BY EmptyRun DEF Queued
<1>. QED
  BY <1>1, <1>2 DEF Flows, Queued, IsRun

(* Once the copier can give nothing more, what has arrived stays as it is. *)
LEMMA DeadFlows ==
    ASSUME NEW s, Flows(s), got'[Other(s)] = got[Other(s)], ~Alive(s)'
    PROVE  Flows(s)'
<1>1. Got(s)' = Got(s)
  BY DEF Got
<1>. QED
  BY <1>1 DEF Flows, IsRun

LEMMA SendFlows ==
    ASSUME TypeInv, FlowInv, NEW s \in Peers, Send(s) PROVE FlowInv'
<1>1. /\ sent'[s] = sent[s] + 1 /\ sent[s] + 1 \in Bytes(s) /\ end[s] = "open" /\ MaySend(s)
      /\ sock'[s] = Append(sock[s], sent[s] + 1)
      /\ UNCHANGED <<kind, eager, pc, end, open, buf, copyVars, eof>>
      /\ \A r \in Peers : r # s => sent'[r] = sent[r] /\ sock'[r] = sock[r]
  BY DEF Send, TypeInv, Indexed
<1>2. Line(s) /\ Line(s)'
  BY SendType DEF TypeInv
<1>3. \A r : Alive(r)' = Alive(r) /\ Dropped(r)' = Dropped(r)
  BY <1>1 DEF Alive, Dropped, copyVars
<1>4. ASSUME ~Dropped(s) PROVE Flows(s)'
  <2>1. Flows(s)
    BY <1>4 DEF FlowInv
  <2>2. /\ Got(s)' = Got(s) /\ GotLen(s)' = GotLen(s) /\ HeldLen(s)' = HeldLen(s)
        /\ Buffered(s)' = Buffered(s) /\ BufLen(s)' = BufLen(s) /\ held' = held
    BY <1>1, UntouchedLengths DEF Buffered, copyVars
  <2>3. ASSUME Alive(s) PROVE Queued(s)'
    <3>1. Queued(s) /\ sent[s] = OnItsWay(s)
      BY <1>1, <2>1, <2>3 DEF Flows, Queued
    <3>. DEFINE from == GotLen(s) + HeldLen(s) + BufLen(s)
    <3>2. from \in Nat /\ sent[s] = from + SockLen(s) /\ SockLen(s) \in Nat
      BY <3>1, <1>2, LineLengths DEF OnItsWay
    <3>3. IsRun(sock[s], from) /\ sock[s] \in Seq(Bytes(s))
      BY <3>1, <1>2 DEF Queued, Line
    <3>. HIDE DEF from
    <3>4. sock'[s] = Append(sock[s], from + Len(sock[s]) + 1) /\ from + Len(sock[s]) + 1 \in Bytes(s)
      BY <1>1, <3>2 DEF SockLen
    <3>5. IsRun(sock'[s], from) /\ SockLen(s)' = SockLen(s) + 1
      <4>1. IsRun(Append(sock[s], from + Len(sock[s]) + 1), from)
        BY <3>2, <3>3, <3>4, RunAppend
      <4>2. Len(Append(sock[s], from + Len(sock[s]) + 1)) = Len(sock[s]) + 1
        BY <3>3, <3>4, AppendProperties
      <4>. QED
        BY <3>4, <4>1, <4>2 DEF SockLen
    <3>6. sent'[s] = OnItsWay(s)'
      <4>1. sent'[s] = from + (SockLen(s) + 1)
        BY <1>1, <3>2
      <4>. QED
        BY <4>1, <2>2, <3>5 DEF OnItsWay, from
    <3>. QED
      BY <3>1, <2>2, <3>5, <3>6 DEF Queued, from
  <2>. QED
    BY <2>1, <2>2, <2>3, <1>3 DEF Flows
<1>5. ASSUME NEW r \in Peers, r # s, ~Dropped(r) PROVE Flows(r)'
  <2>1. Untouched(r)
    BY <1>1, <1>5 DEF Untouched, copyVars, Buffered
  <2>. QED
    BY <1>3, <1>5, <2>1, UntouchedFlows DEF FlowInv
<1>6. BufferOk'
  <2>1. ~eager /\ Early => s # "client"
    BY <1>1 DEF MaySend, Early
  <2>. QED
    BY <1>1, <1>3, <2>1 DEF FlowInv, BufferOk, Early, Peers
<1>. QED
  BY <1>3, <1>4, <1>5, <1>6 DEF FlowInv

LEMMA LeaveFlows ==
    ASSUME TypeInv, FlowInv, NEW s \in Peers, Leave(s) PROVE FlowInv'
<1>1. /\ UNCHANGED <<kind, eager, pc, sent, sock, open, buf, copyVars, eof>>
      /\ end[s] # "reset" /\ end'[s] # "reset"
      /\ \A r \in Peers : r # s => end'[r] = end[r]
  BY DEF Leave, Listens, TypeInv, Indexed
<1>2. ASSUME NEW r \in Peers, ~Dropped(r) PROVE Flows(r)'
  <2>1. Flows(r)
    BY <1>2 DEF FlowInv
  <2>2. /\ Got(r)' = Got(r) /\ GotLen(r)' = GotLen(r) /\ HeldLen(r)' = HeldLen(r)
        /\ Buffered(r)' = Buffered(r) /\ BufLen(r)' = BufLen(r) /\ SockLen(r)' = SockLen(r)
    BY <1>1, UntouchedLengths DEF Buffered, copyVars
  <2>3. Alive(r)' => Alive(r)
    BY <1>1, OtherPeer DEF Alive, copyVars
  <2>4. end'[r] # "reset" => end[r] # "reset"
    BY <1>1
  <2>. QED
    BY <1>1, <2>1, <2>2, <2>3, <2>4 DEF Flows, Queued, OnItsWay, IsRun, copyVars
<1>. QED
  BY <1>1, <1>2 DEF FlowInv, BufferOk, Early, Dropped

LEMMA ResetStepFlows ==
    ASSUME TypeInv, FlowInv, NEW s \in Peers, Reset(s) PROVE FlowInv'
<1>1. /\ UNCHANGED <<kind, eager, pc, sent, open, buf, copyVars, eof>>
      /\ end'[s] = "reset" /\ sock'[s] \in {sock[s], <<>>}
      /\ \A r \in Peers : r # s => end'[r] = end[r] /\ sock'[r] = sock[r]
  BY DEF Reset, Resets, TypeInv, Indexed
<1>2. ASSUME NEW r \in Peers, ~Dropped(r) PROVE Flows(r)'
  <2>1. Flows(r) /\ Buffered(r)' = Buffered(r)
    BY <1>1, <1>2 DEF FlowInv, Buffered
  <2>2. CASE r = s
    <3>1. Alive(r)' => Alive(r)
      BY <1>1, <2>2, OtherPeer DEF Alive, copyVars
    <3>. QED
      BY <1>1, <2>1, <2>2, <3>1, ResetFlows DEF copyVars
  <2>3. CASE r # s
    <3>1. Other(r) = s
      BY <2>3, OtherPeer
    <3>2. ~Alive(r)'
      BY <1>1, <3>1 DEF Alive
    <3>. QED
      BY <1>1, <2>1, <3>2, DeadFlows DEF copyVars
  <2>. QED
    BY <2>2, <2>3
<1>. QED
  BY <1>1, <1>2 DEF FlowInv, BufferOk, Early, Dropped

LEMMA ReadRequestFlows ==
    ASSUME TypeInv, FlowInv, ReadRequest PROVE FlowInv'
<1>1. PICK n \in 0..SockLen("client") :
        /\ kind = "socks" => n = 0
        /\ buf' = SubSeq(sock["client"], 1, n)
        /\ sock'["client"] = SubSeq(sock["client"], n + 1, Len(sock["client"]))
        /\ BufLen("client")' = n /\ SockLen("client")' = SockLen("client") - n
        /\ sock'["remote"] = sock["remote"]
  BY ReadRequestTakes
<1>2. /\ pc = "reading" /\ pc' = "dialing" /\ "client" \in Peers /\ Line("client")
      /\ UNCHANGED <<kind, eager, sent, end, open, copyVars, eof>>
      /\ Early /\ buf = <<>> /\ copier["client"] = "none"
  BY DEF ReadRequest, Goto, Peers, TypeInv, HandlerType, FlowInv, BufferOk, Early
<1>3. \A r : Alive(r)' = Alive(r) /\ Dropped(r)' = Dropped(r)
  BY <1>2 DEF Alive, Dropped, copyVars
<1>4. held["client"] = <<>> /\ HeldLen("client") = 0 /\ BufLen("client") = 0
      /\ GotLen("client") \in Nat /\ SockLen("client") \in Nat
  BY <1>2, LineLengths DEF Line, Buffered
<1>5. ASSUME ~Dropped("client") PROVE Flows("client")'
  <2>1. Flows("client")
    BY <1>2, <1>5 DEF FlowInv
  <2>2. /\ Got("client")' = Got("client") /\ GotLen("client")' = GotLen("client")
        /\ HeldLen("client")' = HeldLen("client") /\ Buffered("client")' = buf'
    BY <1>2, UntouchedLengths DEF Buffered, copyVars
  <2>3. ASSUME Alive("client") PROVE Queued("client")'
    <3>1. Queued("client")
      BY <2>1, <2>3 DEF Flows
    <3>2. IsRun(sock["client"], GotLen("client")) /\ sock["client"] \in Seq(Bytes("client"))
          /\ n \in 0..Len(sock["client"])
      <4>1. GotLen("client") + HeldLen("client") + BufLen("client") = GotLen("client")
        BY <1>4
      <4>. QED
        BY <3>1, <4>1, <1>2 DEF Queued, Line, SockLen
    <3>3. IsRun(buf', GotLen("client")) /\ IsRun(sock'["client"], GotLen("client") + n)
      BY <1>1, <1>4, <3>2, RunCut
    <3>4. GotLen("client") + 0 = GotLen("client") /\ GotLen("client") + 0 + n = GotLen("client") + n
      BY <1>4
    <3>5. OnItsWay("client")' = OnItsWay("client")
      <4>1. GotLen("client") + 0 + n + (SockLen("client") - n) = GotLen("client") + 0 + 0 + SockLen("client")
        BY <1>4
      <4>. QED
        BY <4>1, <1>1, <1>4, <2>2 DEF OnItsWay
    <3>. QED
      BY <3>1, <3>3, <3>4, <3>5, <1>1, <1>2, <1>4, <2>2, EmptyRun DEF Queued, copyVars
  <2>. QED
    BY <2>1, <2>2, <2>3, <1>3 DEF Flows
<1>6. ASSUME ~Dropped("remote") PROVE Flows("remote")'
  <2>1. Untouched("remote")
    BY <1>1, <1>2 DEF Untouched, copyVars, Buffered
  <2>. QED
    BY <1>3, <1>6, <2>1, UntouchedFlows DEF FlowInv, Peers
<1>7. BufferOk'
  <2>1. ASSUME ~Dropped("client"), kind # "http" PROVE n = 0
    <3>1. CASE kind = "socks"
      BY <3>1, <1>1
    <3>2. CASE kind = "connect"
      <4>1. sent["client"] = 0
        BY <2>1, <3>2, <1>2 DEF Dropped, TypeInv, HandlerType, FlowInv, BufferOk
      <4>2. SockLen("client") = 0
        BY <4>1, <1>2, LineLengths
      <4>. QED
        BY <4>2
    <3>. QED
      BY <2>1, <3>1, <3>2 DEF TypeInv, HandlerType
  <2>2. n = 0 => buf' = <<>>
    <3>1. SubSeq(sock["client"], 1, 0) = <<>>
      BY SubSeqEmpty
    <3>. QED
      BY <1>1, <3>1
  <2>. QED
    BY <1>2, <1>3, <2>1, <2>2 DEF FlowInv, BufferOk, Early
<1>. QED
  BY <1>3, <1>5, <1>6, <1>7 DEF FlowInv, Peers

LEMMA HandleFlows == ASSUME TypeInv, FlowInv, Handle PROVE FlowInv'
<1>1. CASE ReadRequest
  BY <1>1, ReadRequestFlows
<1>2. CASE Reply
  <2>1. /\ pc = "replying" /\ pc' = "relaying" /\ copier' = [s \in Peers |-> "read"]
        /\ UNCHANGED <<kind, eager, peerVars, open, buf, held, got, eof>>
    BY <1>2 DEF Reply, Goto
  <2>2. ASSUME NEW s \in Peers, ~Dropped(s) PROVE Flows(s)'
    <3>1. Flows(s) /\ copier[s] = "none"
      BY <2>1, <2>2 DEF FlowInv, TypeInv, HandlerType, Early
    <3>2. /\ Got(s)' = Got(s) /\ GotLen(s)' = GotLen(s) /\ HeldLen(s)' = HeldLen(s)
          /\ Buffered(s)' = Buffered(s) /\ BufLen(s)' = BufLen(s) /\ SockLen(s)' = SockLen(s)
      BY <2>1, UntouchedLengths DEF Buffered, peerVars
    <3>3. Alive(s)' => Alive(s)
      BY <2>1, <3>1 DEF Alive, peerVars
    <3>. QED
      BY <2>1, <3>1, <3>2, <3>3 DEF Flows, Queued, OnItsWay, IsRun, peerVars
  <2>. QED
    BY <2>1, <2>2 DEF FlowInv, BufferOk, Early, Dropped, peerVars
<1>3. CASE Greet \/ Refuse \/ DialFails \/ DialSucceeds \/ ReplyFails \/ Return \/ CloseRemote \/ CloseClient
  <2>1. /\ UNCHANGED <<kind, eager, peerVars, buf, copyVars>>
        /\ Early' => Early
        /\ pc' \in {"greeting", "reading"} => pc \in {"greeting", "reading"}
    BY <1>3 DEF Greet, Refuse, DialFails, DialSucceeds, ReplyFails, Return, CloseRemote, CloseClient,
                Goto, Early
  <2>2. ASSUME NEW s \in Peers, ~Dropped(s) PROVE Flows(s)'
    <3>1. Untouched(s) /\ Alive(s)' = Alive(s)
      BY <2>1 DEF Untouched, Alive, peerVars, copyVars, Buffered
    <3>. QED
      BY <2>2, <3>1, UntouchedFlows DEF FlowInv
  <2>. QED
    BY <2>1, <2>2 DEF FlowInv, BufferOk, Dropped, peerVars
<1>. QED
  BY <1>1, <1>2, <1>3 DEF Handle

LEMMA CopyFlows == ASSUME TypeInv, FlowInv, NEW s \in Peers, Copy(s) PROVE FlowInv'
<1>. DEFINE r == Other(s)
<1>1. s \in Peers /\ r \in Peers /\ r # s /\ Other(r) = s /\ Line(s) /\ Line(r)
      /\ \A p \in Peers : p = s \/ p = r
  BY OtherPeer DEF TypeInv
<1>2. /\ UNCHANGED <<kind, eager, pc, sent>> /\ ~Early /\ copier[s] # "ended"
      /\ copier'[r] = copier[r] /\ held'[r] = held[r] /\ got'[s] = got[s] /\ Buffered(r)' = Buffered(r)
  BY CopyFrame
<1>3. \A p : Dropped(p)' = Dropped(p)
  BY <1>2 DEF Dropped
<1>4. BufferOk'
  <2>1. buf' \in {buf, <<>>}
    BY DEF Copy, ReadBuffered, ReadSocket, TakeFrom, Write, WriteToClosed, EndCopy
  <2>. QED
    BY <1>2, <1>3, <2>1 DEF FlowInv, BufferOk, Early
<1>5. ASSUME ~WriteToClosed(s), ~Dropped(r) PROVE Flows(r)'
  <2>1. Untouched(r) /\ Alive(r)' = Alive(r)
    BY <1>1, <1>2, <1>5, CopyFrame DEF Untouched, Alive
  <2>. QED
    BY <1>1, <1>5, <2>1, UntouchedFlows DEF FlowInv
<1>6. ASSUME ~Dropped(s) PROVE Flows(s)'
  <2>1. Flows(s)
    BY <1>6 DEF FlowInv
  <2>2. CASE ReadBuffered(s)
    <3>1. /\ held'[s] = Buffered(s) /\ Buffered(s)' = <<>> /\ end' = end /\ sock' = sock /\ got' = got
          /\ HeldLen(s) = 0 /\ HeldLen(s)' = BufLen(s) /\ BufLen(s)' = 0
      BY <2>2, ReadBufferedTakes
    <3>2. /\ Got(s)' = Got(s) /\ GotLen(s)' = GotLen(s) /\ SockLen(s)' = SockLen(s)
          /\ GotLen(s) \in Nat /\ BufLen(s) \in Nat /\ SockLen(s) \in Nat
      BY <1>1, <3>1, UntouchedLengths, LineLengths
    <3>3. /\ GotLen(s) + HeldLen(s) = GotLen(s)
          /\ GotLen(s) + BufLen(s) + 0 = GotLen(s) + 0 + BufLen(s)
          /\ GotLen(s) + BufLen(s) + 0 + SockLen(s) = GotLen(s) + 0 + BufLen(s) + SockLen(s)
      BY <3>1, <3>2
    <3>4. Alive(s)' => Alive(s)
      BY <1>2, <3>1 DEF Alive
    <3>. QED
      BY <1>2, <2>1, <3>1, <3>2, <3>3, <3>4, EmptyRun DEF Flows, Queued, OnItsWay, IsRun
  <2>3. CASE ReadSocket(s)
    <3>1. PICK n \in 1..SockLen(s) :
            /\ ~FromBuffer(s) /\ HeldLen(s) = 0
            /\ held'[s] = SubSeq(sock[s], 1, n)
            /\ sock'[s] = SubSeq(sock[s], n + 1, Len(sock[s]))
            /\ HeldLen(s)' = n /\ SockLen(s)' = SockLen(s) - n
            /\ end' = end /\ got' = got /\ buf' = buf
      BY <2>3, ReadSocketTakes
    <3>2. /\ Got(s)' = Got(s) /\ GotLen(s)' = GotLen(s) /\ BufLen(s)' = BufLen(s)
          /\ Buffered(s)' = Buffered(s) /\ GotLen(s) \in Nat /\ SockLen(s) \in Nat
      BY <1>1, <3>1, UntouchedLengths, LineLengths DEF Buffered
    <3>3. Buffered(s) = <<>> /\ BufLen(s) = 0
      <4>1. Buffered(s) = <<>>
        BY <1>6, <3>1 DEF Buffered, FromBuffer, FlowInv, BufferOk
      <4>. QED
        BY <1>1, <4>1, LineLengths
    <3>4. ASSUME Queued(s) PROVE Queued(s)'
      <4>1. IsRun(sock[s], GotLen(s)) /\ sock[s] \in Seq(Bytes(s)) /\ n \in 0..Len(sock[s])
        <5>1. GotLen(s) + HeldLen(s) + BufLen(s) = GotLen(s)
          BY <3>1, <3>2, <3>3
        <5>. QED
          BY <1>1, <3>2, <3>4, <5>1 DEF Queued, Line, SockLen
      <4>2. IsRun(held'[s], GotLen(s)) /\ IsRun(sock'[s], GotLen(s) + n)
        BY <3>1, <3>2, <4>1, RunCut
      <4>3. /\ GotLen(s) + n + 0 = GotLen(s) + n
            /\ GotLen(s) + n + 0 + (SockLen(s) - n) = GotLen(s) + 0 + 0 + SockLen(s)
        BY <3>2
      <4>4. OnItsWay(s)' = OnItsWay(s)
        BY <3>1, <3>2, <3>3, <4>3 DEF OnItsWay
      <4>. QED
        BY <1>2, <3>1, <3>2, <3>3, <3>4, <4>2, <4>3, <4>4, EmptyRun DEF Queued
    <3>5. Alive(s)' => Alive(s)
      BY <1>2, <3>1 DEF Alive
    <3>. QED
      BY <2>1, <3>2, <3>4, <3>5 DEF Flows
  <2>4. CASE Write(s)
    <3>1. /\ Listens(r) /\ copier[s] = "write" /\ held'[s] = <<>>
          /\ Got(s)' = Got(s) \o held[s] /\ HeldLen(s)' = 0 /\ GotLen(s)' = GotLen(s) + HeldLen(s)
          /\ end' = end /\ sock' = sock /\ buf' = buf
      BY <2>4, WriteGives
    <3>2. /\ BufLen(s)' = BufLen(s) /\ SockLen(s)' = SockLen(s) /\ Buffered(s)' = Buffered(s)
          /\ GotLen(s) \in Nat /\ HeldLen(s) \in Nat /\ BufLen(s) \in Nat /\ SockLen(s) \in Nat
      BY <1>1, <3>1, UntouchedLengths, LineLengths DEF Buffered
    <3>3. Queued(s)
      BY <2>1, <3>1 DEF Flows, Alive, Listens
    <3>4. IsRun(Got(s)', 0)
      <4>1. Got(s) \in Seq(Bytes(s)) /\ held[s] \in Seq(Bytes(s))
        BY <1>1 DEF Line
      <4>2. IsRun(Got(s), 0) /\ IsRun(held[s], Len(Got(s)))
        BY <2>1, <3>3 DEF Flows, Queued, GotLen
      <4>. QED
        BY <3>1, <4>1, <4>2, RunConcat
    <3>5. /\ GotLen(s) + HeldLen(s) + 0 = GotLen(s) + HeldLen(s)
          /\ GotLen(s) + HeldLen(s) + 0 + BufLen(s) = GotLen(s) + HeldLen(s) + BufLen(s)
          /\ GotLen(s) + HeldLen(s) + 0 + BufLen(s) + SockLen(s)
               = GotLen(s) + HeldLen(s) + BufLen(s) + SockLen(s)
      BY <3>2
    <3>6. Queued(s)'
      BY <1>2, <3>1, <3>2, <3>3, <3>5, EmptyRun DEF Queued, OnItsWay
    <3>. QED
      BY <3>4, <3>6 DEF Flows
  <2>5. CASE WriteToClosed(s) \/ EndCopy(s)
    <3>1. got' = got /\ ~Alive(s)'
      BY <1>1, <2>5 DEF WriteToClosed, Resets, EndCopy, Alive, TypeInv, Indexed
    <3>. QED
      BY <2>1, <3>1, DeadFlows
  <2>. QED
    BY <2>2, <2>3, <2>4, <2>5 DEF Copy
<1>7. ASSUME WriteToClosed(s), ~Dropped(r) PROVE Flows(r)'
  <2>1. /\ got' = got /\ end'[s] = end[s] /\ end'[r] = "reset" /\ sock'[r] \in {sock[r], <<>>}
    BY <1>1, <1>7 DEF WriteToClosed, Resets, TypeInv, Indexed
  <2>2. Flows(r) /\ (Alive(r)' => Alive(r))
    BY <1>1, <1>2, <1>7, <2>1 DEF FlowInv, Alive
  <2>. QED
    BY <1>1, <1>2, <2>1, <2>2, ResetFlows
<1>. QED
  BY <1>1, <1>3, <1>4, <1>5, <1>6, <1>7 DEF FlowInv

LEMMA FlowInit == Init => FlowInv
<1>. SUFFICES ASSUME Init PROVE FlowInv
  OBVIOUS
<1>1. ASSUME NEW s \in Peers PROVE Flows(s)
  <2>1. /\ sent[s] = 0 /\ sock[s] = <<>> /\ held[s] = <<>>
        /\ Got(s) = <<>> /\ Buffered(s) = <<>> /\ Len(<<>>) = 0
    BY OtherPeer, EmptySeq DEF Init, Got, Buffered
  <2>. QED
    BY <2>1, EmptyRun DEF Flows, Queued, OnItsWay, GotLen, HeldLen, BufLen, SockLen
<1>. QED
  BY <1>1 DEF Init, FlowInv, BufferOk, Peers

LEMMA FlowNext == TypeInv /\ FlowInv /\ [Next]_vars => FlowInv'
<1>. SUFFICES ASSUME TypeInv, FlowInv, [Next]_vars PROVE FlowInv'
  OBVIOUS
<1>1. CASE UNCHANGED vars
  <2>1. ASSUME NEW s \in Peers, ~Dropped(s) PROVE Flows(s)'
    <3>1. Untouched(s) /\ Alive(s)' = Alive(s)
      BY <1>1 DEF Untouched, Alive, vars, peerVars, copyVars, Buffered
    <3>. QED
      BY <2>1, <3>1, UntouchedFlows DEF FlowInv
  <2>. QED
    BY <1>1, <2>1 DEF FlowInv, BufferOk, Early, Dropped, vars, peerVars
<1>. QED
  BY <1>1, HandleFlows, SendFlows, LeaveFlows, ResetStepFlows, CopyFlows DEF Next

LEMMA RunIsSent ==
    ASSUME NEW s, NEW S, NEW seq \in Seq(S), IsRun(seq, 0), sent[s] \in Nat, Len(seq) <= sent[s]
    PROVE  /\ seq = SubSeq(Sent(s), 1, Len(seq))
           /\ Len(seq) = sent[s] => seq = Sent(s)
<1>. DEFINE m == Len(seq)
            all == Sent(s)
            part == SubSeq(all, 1, m)
<1>1. m \in Nat /\ (\A i \in 1..m : seq[i] = i)
  BY Lengths DEF IsRun
<1>2. all \in Seq(Nat) /\ Len(all) = sent[s] /\ \A i \in 1..sent[s] : all[i] = i
  BY DEF Sent
<1>3. m \in 0..Len(all) /\ seq \in Seq(S)
  BY <1>1, <1>2
<1>. HIDE DEF all
<1>4. part \in Seq(Nat) /\ Len(part) = m /\ \A i \in 1..m : part[i] = all[i]
  BY <1>2, <1>3, Cut
<1>. HIDE DEF part
<1>5. \A i \in 1..m : seq[i] = part[i]
  BY <1>1, <1>2, <1>3, <1>4
<1>6. seq = part
  BY <1>3, <1>4, <1>5, SeqEqual
<1>7. m = sent[s] => seq = all
  <2>. SUFFICES ASSUME m = sent[s] PROVE seq = all
    OBVIOUS
  <2>1. Len(seq) = Len(all) /\ \A i \in 1..Len(seq) : seq[i] = all[i]
    BY <1>1, <1>2
  <2>. QED
    BY <1>2, <1>3, <2>1, SeqEqual
<1>. QED
  BY <1>6, <1>7 DEF part, all

(* Every peer gets the bytes of the other one from the first on, in order  *)
(* and without a gap, but for the CONNECT client that does not wait.       *)
THEOREM InOrder == Spec => []Intact
<1>1. TypeInv /\ FlowInv => Intact
  <2>. SUFFICES ASSUME TypeInv, FlowInv, NEW s \in Peers, ~Dropped(s)
                PROVE  got[Other(s)] = SubSeq(Sent(s), 1, Len(got[Other(s)]))
    BY DEF Intact, Dropped
  <2>1. Line(s) /\ IsRun(Got(s), 0)
    BY DEF TypeInv, FlowInv, Flows
  <2>2. sent[s] \in Nat /\ GotLen(s) <= sent[s]
    BY <2>1, LineLengths
  <2>3. Got(s) = SubSeq(Sent(s), 1, Len(Got(s)))
    BY <2>1, <2>2, RunIsSent DEF Line, GotLen
  <2>. QED
    BY <2>3 DEF Got
<1>. QED
  BY <1>1, TypeInit, TypeNext, FlowInit, FlowNext, PTL DEF Spec
-----------------------------------------------------------------------------
(* The whole answer                                                        *)

(* The client still reads and the connection to the remote has not broken; *)
(* a plain HTTP client has neither finished nor sent anything more.        *)
Receptive ==
    /\ Listens("client") /\ end["remote"] # "reset"
    /\ kind = "http" => end["client"] = "open" /\ sent["client"] = 0

(* What the wait of the handler is for: it closes nothing before the       *)
(* remote's copier has ended, and that one ends with nothing left behind.  *)
Settled ==
    /\ Ended("remote") => GotLen("remote") = sent["remote"] /\ end["remote"] # "open"
    /\ pc \in {"closing", "leaving", "done"} => copier["remote"] \in {"none", "ended"}
    /\ kind = "http" /\ Ended("client") => pc = "done"

AnswerInv ==
    /\ pc \in {"replying", "relaying", "closing"} => open["remote"]
    /\ ~open["client"] => pc = "done"
    /\ eof => pc = "done" \/ Ended("remote")
    /\ Receptive => Settled

LEMMA PeersAre == "client" \in Peers /\ "remote" \in Peers /\ "client" # "remote"
                  /\ Other("client") = "remote" /\ Other("remote") = "client"
  BY DEF Peers, Other

(* Peers and bytes: what makes the client deaf does so for good.           *)
LEMMA ReceptiveBefore ==
    ASSUME TypeInv, [Next]_vars, Receptive' PROVE Receptive
<1>1. kind' = kind /\ Line("client")
  BY PeersAre DEF Next, vars, Handle, Greet, ReadRequest, Refuse, DialFails, DialSucceeds, Reply, ReplyFails,
        Return, CloseRemote, CloseClient, Send, Leave, Reset, Copy, ReadBuffered, ReadSocket, TakeFrom,
        Write, WriteToClosed, EndCopy, TypeInv
<1>2. CASE UNCHANGED <<sent, end>>
  BY <1>1, <1>2 DEF Receptive, Listens
<1>3. ASSUME NEW s \in Peers, Send(s) PROVE Receptive
  BY <1>1, <1>3, PeersAre DEF Receptive, Listens, Send, TypeInv, Indexed, Line, Max
<1>4. ASSUME NEW s \in Peers, Leave(s) PROVE Receptive
  BY <1>1, <1>4, PeersAre DEF Receptive, Listens, Leave, TypeInv, Indexed
<1>5. ASSUME NEW s \in Peers, end' = [end EXCEPT ![s] = "reset"], sent' = sent PROVE Receptive
  BY <1>1, <1>5, PeersAre DEF Receptive, Listens, TypeInv, Indexed
<1>6. CASE Handle
  BY <1>2, <1>6 DEF Handle, Greet, ReadRequest, Refuse, DialFails, DialSucceeds, Reply, ReplyFails,
        Return, CloseRemote, CloseClient, peerVars
<1>7. ASSUME NEW s \in Peers, Reset(s) PROVE Receptive
  BY <1>5, <1>7 DEF Reset, Resets
<1>8. ASSUME NEW s \in Peers, Copy(s) PROVE Receptive
  <2>1. CASE WriteToClosed(s)
    BY <1>5, <2>1, OtherPeer DEF WriteToClosed, Resets
  <2>2. CASE ~WriteToClosed(s)
    BY <1>2, <1>8, <2>2 DEF Copy, ReadBuffered, ReadSocket, TakeFrom, Write, EndCopy, peerVars
  <2>. QED
    BY <2>1, <2>2
<1>. QED
  BY <1>2, <1>3, <1>4, <1>6, <1>7, <1>8 DEF Next, vars, peerVars

LEMMA PeerAnswers ==
    ASSUME TypeInv, AnswerInv, NEW s \in Peers, Send(s) \/ Leave(s) \/ Reset(s), Receptive' => Receptive
    PROVE  AnswerInv'
<1>1. /\ UNCHANGED <<kind, pc, open, copyVars, eof>>
      /\ end["remote"] # "open" => sent'["remote"] = sent["remote"] /\ end'["remote"] # "open"
  BY PeersAre DEF Send, Leave, Reset, Resets, TypeInv, Indexed
<1>2. GotLen("remote")' = GotLen("remote")
  BY <1>1 DEF GotLen, Got, copyVars
<1>3. Settled => Settled'
  BY <1>1, <1>2 DEF Settled, Ended, copyVars
<1>. QED
  BY <1>1, <1>3 DEF AnswerInv, Ended, copyVars

LEMMA HandlerAnswers ==
    ASSUME TypeInv, AnswerInv, Handle, Receptive' => Receptive PROVE AnswerInv'
<1>1. /\ UNCHANGED <<kind, sent, end, got>> /\ GotLen("remote")' = GotLen("remote")
      /\ "remote" \in Peers /\ "client" \in Peers
  BY DEF Handle, Greet, ReadRequest, Refuse, DialFails, DialSucceeds, Reply, ReplyFails,
         Return, CloseRemote, CloseClient, peerVars, copyVars, GotLen, Got, Peers
<1>2. CASE Greet \/ ReadRequest \/ Refuse \/ DialFails
  <2>1. /\ UNCHANGED <<open, copyVars, eof>> /\ Early
        /\ pc' \in {"reading", "dialing", "leaving"} /\ pc # "done"
    BY <1>2 DEF Greet, ReadRequest, Refuse, DialFails, Goto, Early
  <2>. QED
    BY <1>1, <2>1 DEF AnswerInv, Settled, Ended, copyVars, TypeInv, HandlerType
<1>3. CASE DialSucceeds
  <2>1. /\ UNCHANGED <<copyVars, eof>> /\ pc = "dialing" /\ pc' = "replying"
        /\ open'["remote"] /\ open'["client"] = open["client"]
    BY <1>1, <1>3 DEF DialSucceeds, Goto, TypeInv, HandlerType, Peers
  <2>. QED
    BY <1>1, <2>1 DEF AnswerInv, Settled, Ended, copyVars
<1>4. CASE Reply
  <2>1. /\ UNCHANGED <<open, eof>> /\ pc = "replying" /\ pc' = "relaying"
        /\ copier'["remote"] = "read" /\ copier'["client"] = "read" /\ copier["remote"] = "none"
    BY <1>1, <1>4 DEF Reply, Goto, TypeInv, HandlerType, Early
  <2>. QED
    BY <1>1, <2>1 DEF AnswerInv, Settled, Ended
<1>5. CASE ReplyFails
  <2>1. /\ UNCHANGED <<open, copyVars, eof>> /\ pc = "replying" /\ pc' = "closing"
        /\ copier["remote"] = "none" /\ copier["client"] = "none"
    BY <1>1, <1>5 DEF ReplyFails, Goto, TypeInv, HandlerType, Early
  <2>. QED
    BY <1>1, <2>1 DEF AnswerInv, Settled, Ended, copyVars
<1>6. CASE Return
  <2>1. UNCHANGED <<open, copyVars, eof>> /\ pc = "relaying" /\ pc' = "closing" /\ MayReturn
    BY <1>6 DEF Return, Goto
  <2>2. Receptive => Settled /\ Ended("remote") /\ ~(kind = "http" /\ Ended("client"))
    BY <2>1 DEF AnswerInv, Settled, MayReturn, Peers
  <2>. QED
    BY <1>1, <2>1, <2>2 DEF AnswerInv, Settled, Ended, copyVars
<1>7. CASE CloseRemote
  <2>1. /\ UNCHANGED <<copyVars, eof>> /\ pc = "closing" /\ pc' = "leaving"
        /\ open'["client"] = open["client"]
    BY <1>1, <1>7 DEF CloseRemote, Goto, TypeInv, HandlerType, Peers
  <2>. QED
    BY <1>1, <2>1 DEF AnswerInv, Settled, Ended, copyVars
<1>8. CASE CloseClient
  <2>1. /\ UNCHANGED copyVars /\ pc = "leaving" /\ pc' = "done"
    BY <1>8 DEF CloseClient, Goto
  <2>. QED
    BY <1>1, <2>1 DEF AnswerInv, Settled, Ended, copyVars
<1>. QED
  BY <1>2, <1>3, <1>4, <1>5, <1>6, <1>7, <1>8 DEF Handle

(* A copier that goes on changes nothing here.                             *)
LEMMA CopierGoesOn ==
    ASSUME TypeInv, AnswerInv, NEW s \in Peers, Copy(s), ~EndCopy(s), Receptive' => Receptive
    PROVE  AnswerInv'
<1>1. /\ UNCHANGED <<kind, pc, sent, open, eof>> /\ ~Ended(s) /\ ~Ended(s)' /\ copier[s] # "none"
      /\ Indexed' /\ copier'[Other(s)] = copier[Other(s)] /\ got'[s] = got[s]
  <2>1. copier'[s] \in {"read", "write"} /\ eof' = eof
    BY DEF Copy, ReadBuffered, ReadSocket, TakeFrom, Holds, Write, WriteToClosed, TypeInv, Indexed
  <2>. QED
    BY <2>1, CopyFrame DEF Ended
<1>2. CASE s = "remote"
  BY <1>1, <1>2, PeersAre DEF AnswerInv, Settled, Ended
<1>3. CASE s = "client"
  <2>1. GotLen("remote")' = GotLen("remote")
    BY <1>1, <1>3, PeersAre DEF GotLen, Got
  <2>2. end["remote"] # "open" => end'["remote"] # "open"
    BY <1>3, PeersAre DEF Copy, ReadBuffered, ReadSocket, TakeFrom, Write, WriteToClosed, EndCopy, Resets,
                          peerVars, TypeInv, Indexed
  <2>. QED
    BY <1>1, <1>3, <2>1, <2>2, PeersAre DEF AnswerInv, Settled, Ended
<1>. QED
  BY <1>2, <1>3 DEF Peers

(* The copier from the remote ends when nothing is left to copy.           *)
LEMMA RemoteCopierEnds ==
    ASSUME TypeInv, FlowInv, AnswerInv, EndCopy("remote"), Receptive
    PROVE  GotLen("remote") = sent["remote"] /\ end["remote"] # "open"
<1>1. /\ Line("remote") /\ Flows("remote") /\ Settled
      /\ copier["remote"] \in {"read", "write"} /\ end["remote"] # "reset" /\ end["client"] # "reset"
  BY PeersAre DEF TypeInv, FlowInv, Dropped, EndCopy, ReadEnds, WriteFails, AnswerInv, Receptive, Listens
<1>2. open["remote"] /\ open["client"]
  BY <1>1, PeersAre DEF AnswerInv, Settled, TypeInv, HandlerType, Early
<1>3. copier["remote"] = "read" /\ end["remote"] # "open" /\ sock["remote"] = <<>>
  BY <1>1, <1>2, PeersAre DEF EndCopy, ReadEnds, WriteFails
<1>4. sent["remote"] = OnItsWay("remote") /\ held["remote"] = <<>> /\ Buffered("remote") = <<>>
  BY <1>1, <1>3, PeersAre DEF Flows, Alive, Queued, Line, Buffered
<1>. QED
  BY <1>1, <1>3, <1>4, LineLengths DEF OnItsWay

(* The one from the client does not end as long as it has nothing to copy. *)
LEMMA ClientCopierEnds ==
    ASSUME TypeInv, AnswerInv, EndCopy("client"), Receptive, kind = "http"
    PROVE  pc = "done"
<1>1. Line("client") /\ sent["client"] = 0 /\ end["client"] = "open" /\ end["remote"] # "reset"
  BY PeersAre DEF TypeInv, Receptive
<1>2. held["client"] = <<>>
  BY <1>1, LineLengths
<1>3. copier["client"] # "write"
  BY <1>1, <1>2 DEF Line
<1>4. ~open["client"]
  BY <1>1, <1>3 DEF EndCopy, ReadEnds, WriteFails
<1>. QED
  BY <1>4 DEF AnswerInv

LEMMA CopyAnswers ==
    ASSUME TypeInv, FlowInv, AnswerInv, NEW s \in Peers, Copy(s), Receptive' => Receptive
    PROVE  AnswerInv'
<1>1. CASE ~EndCopy(s)
  BY <1>1, CopierGoesOn
<1>2. CASE EndCopy(s)
  <2>1. /\ UNCHANGED <<kind, pc, sent, end, open, got>> /\ copier'[s] = "ended"
        /\ copier'[Other(s)] = copier[Other(s)] /\ GotLen("remote")' = GotLen("remote")
        /\ eof' = (eof \/ (kind # "http" /\ s = "remote"))
    BY <1>2, CopyFrame DEF EndCopy, peerVars, TypeInv, Indexed, GotLen, Got
  <2>2. CASE s = "remote"
    <3>1. Receptive => Settled'
      BY <1>2, <2>1, <2>2, RemoteCopierEnds, PeersAre DEF AnswerInv, Settled, Ended
    <3>. QED
      BY <2>1, <2>2, <3>1, PeersAre DEF AnswerInv, Ended
  <2>3. CASE s = "client"
    <3>1. Receptive => Settled'
      BY <1>2, <2>1, <2>3, ClientCopierEnds, PeersAre DEF AnswerInv, Settled, Ended
    <3>. QED
      BY <2>1, <2>3, <3>1, PeersAre DEF AnswerInv, Ended
  <2>. QED
    BY <2>2, <2>3 DEF Peers
<1>. QED
  BY <1>1, <1>2

LEMMA AnswerInit == Init => AnswerInv
  BY PeersAre DEF Init, AnswerInv, Settled, Ended

LEMMA AnswerNext == TypeInv /\ FlowInv /\ AnswerInv /\ [Next]_vars => AnswerInv'
<1>. SUFFICES ASSUME TypeInv, FlowInv, AnswerInv, [Next]_vars PROVE AnswerInv'
  OBVIOUS
<1>1. Receptive' => Receptive
  BY ReceptiveBefore
<1>2. CASE UNCHANGED vars
  BY <1>1, <1>2 DEF AnswerInv, Settled, Ended, GotLen, Got, vars, peerVars, copyVars
<1>. QED
  BY <1>1, <1>2, HandlerAnswers, PeerAnswers, CopyAnswers DEF Next

(* When the proxy ends the stream to a client that still reads, the client *)
(* has got all that the remote has sent.                                   *)
THEOREM AnswerIsWhole == Spec => []WholeAnswer
<1>1. TypeInv /\ FlowInv /\ AnswerInv => WholeAnswer
  <2>. SUFFICES ASSUME TypeInv, FlowInv, AnswerInv, eof, copier["remote"] # "none", Receptive
                PROVE  got["client"] = Sent("remote")
    BY DEF WholeAnswer, Receptive
  <2>1. Line("remote") /\ IsRun(Got("remote"), 0) /\ Got("remote") = got["client"]
    BY PeersAre DEF TypeInv, FlowInv, Dropped, Flows, Got
  <2>2. GotLen("remote") = sent["remote"] /\ sent["remote"] \in Nat
    BY <2>1, LineLengths DEF AnswerInv, Settled, Ended
  <2>3. Got("remote") \in Seq(Bytes("remote")) /\ Len(Got("remote")) = sent["remote"]
    BY <2>1, <2>2 DEF Line, GotLen
  <2>4. Len(Got("remote")) <= sent["remote"]
    BY <2>2, <2>3
  <2>5. Got("remote") = Sent("remote")
    BY <2>1, <2>2, <2>3, <2>4, RunIsSent
  <2>. QED
    BY <2>1, <2>5
<1>. QED
  BY <1>1, TypeInit, TypeNext, FlowInit, FlowNext, AnswerInit, AnswerNext, PTL DEF Spec
=============================================================================
