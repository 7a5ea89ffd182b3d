------------------------ MODULE LineTransportProofs ------------------------
(***************************************************************************)
(* Proofs about LineTransport, for every limit on a line, size of a read   *)
(* and of a pipe, every set of line lengths and every mirror: the buffer   *)
(* stays bounded, nothing leaks, the child is collected once, and lines    *)
(* cross whole and in order in both directions.                            *)
(*                                                                         *)
(* That the lines handed out so far are whole says nothing of a line that  *)
(* is under way.  LineInv adds how far each side has come: what is written *)
(* ends at the offset of the line in hand (Sent), and the buffer is the    *)
(* mirror's output from just after a line feed (Received).  That the bytes *)
(* up to the first line feed are one line follows by induction on their    *)
(* places (LineInBuffer).                                                  *)
(***************************************************************************)
EXTENDS LineTransport, SequenceTheorems, WellFoundedInduction, TLAPS

PeerStates == {"none", "running", "ending", "exited", "reaped"}
OwnerType ==
  [pc : {"new", "handshake", "idle", "writing", "reading", "waiting", "destroying", "gone"},
   closed : BOOLEAN, exit : Codes \cup {NoCode}, left : Nat, calls : 0 .. MaxCalls,
   tried : 0 .. Addresses, torn : BOOLEAN]
PeerType ==
  [state : PeerStates, code : Codes \cup {NoCode}, put : Nat, read : Nat,
   spoken : Seq(LineLengths), hit : PeerStates]
Handed == [text : Seq(Byte), feed : Byte]
LogType == [returned : Seq(Handed), begun : Seq(LineLengths), closes : Seq(Codes)]

\* What the structures hold, without their bounds.
Typed ==
  /\ kind \in Kinds /\ owner \in OwnerType /\ fds \subseteq PipeEnds \cup {"sock", "host"}
  /\ buf \in Seq(Byte) /\ wire \in Seq(Byte) /\ output \in Seq(Byte)
  /\ peer \in PeerType /\ taken \in Nat /\ log \in LogType
\* How far each side has got.
Bounded ==
  /\ peer.put <= Len(output) /\ peer.read <= Len(wire) /\ taken <= peer.put
  /\ Len(peer.spoken) <= MaxLines /\ BufferBounded

\* The descriptors and the buffer before a connection is made and after it is gone.
Held ==
  /\ owner.pc \in {"new", "gone"} => fds \subseteq {"host"} /\ buf = <<>>
  /\ At("handshake") => fds \subseteq {"host", "sock"} /\ buf = <<>> /\ ~Stdio
  /\ ~Stdio /\ owner.closed => buf = <<>>

\* The child: it has a code once it has ended, the owner has that code once the
\* child was collected, and close reports nothing else.
Child ==
  /\ peer.code = NoCode <=> ~Ended
  /\ At("new") => peer.state = "none"
  /\ peer.state = "none" => owner.pc \in {"new", "gone"}
  /\ peer.hit # "reaped"
  /\ owner.pc \in {"waiting", "destroying"} => Stdio
  /\ At("reading") => Stdio \/ ~owner.closed
  /\ Stdio =>
       /\ owner.exit # NoCode <=> peer.state = "reaped"
       /\ owner.exit \in {NoCode, peer.code}
       /\ log.closes # <<>> => peer.state = "reaped"
       /\ \A i \in 1 .. Len(log.closes) : log.closes[i] = peer.code
       /\ At("gone") => peer.state \in {"none", "reaped"}
       /\ owner.closed => At("waiting") \/ owner.exit # NoCode

\* The line being written.
Begun == Len(log.begun)
Writing == At("writing") => Begun > 0 /\ owner.left \in 1 .. log.begun[Begun] + 1

\* The first n bytes of s end the lines up to k.
EndsWith(s, n, k) == IF n = 0 THEN k = 0 ELSE s[n].lf /\ s[n].line = k

\* What is written is consecutive as long as somebody may read it.
Sent ==
  /\ Consecutive(wire, peer.read, log.begun)
  /\ ~Ended =>
       /\ Consecutive(wire, Len(wire), log.begun)
       /\ IF At("writing")
            THEN LET off == log.begun[Begun] + 1 - owner.left
                 IN IF off = 0 THEN EndsWith(wire, Len(wire), Begun - 1)
                    ELSE /\ Len(wire) > 0 /\ ~wire[Len(wire)].lf
                         /\ wire[Len(wire)].line = Begun /\ wire[Len(wire)].at = off
            ELSE EndsWith(wire, Len(wire), Begun)

\* Where the buffer begins in the mirror's output, and the lines before that.
Start == taken - Len(buf)
Done == IF Start = 0 THEN 0 ELSE output[Start].line
Active == ~owner.torn /\ ~At("gone") /\ (Stdio \/ ~owner.closed)
Received ==
  /\ Consecutive(output, Len(output), peer.spoken)
  /\ EndsWith(output, Len(output), Len(peer.spoken))
  /\ ~owner.torn => \A i \in 1 .. Len(log.returned) : HandedOut(i)
  /\ Active =>
       /\ Len(buf) <= taken
       /\ \A i \in 1 .. Len(buf) : buf[i] = output[Start + i]
       /\ Start > 0 => output[Start].lf
       /\ \A i \in 1 .. Len(log.returned) : Number(i) <= Done
       /\ \A n \in 1 .. Done : \/ \E i \in 1 .. Len(log.returned) : Number(i) = n
                               \/ peer.spoken[n] = 0 /\ kind # "tls"

LineInv == Typed /\ Bounded /\ Held /\ Child /\ Writing /\ Sent /\ Received
---------------------------------------------------------------------------
(* Steps that only move the owner or the mirror *)

\* No byte moves, and nobody starts or stops to write a line that may be read; the
\* buffer is dropped only with the connection.
Control ==
  /\ UNCHANGED <<kind, wire, output, taken>> /\ buf' \in {buf, <<>>}
  /\ log'.returned = log.returned /\ log'.begun = log.begun
  /\ peer'.spoken = peer.spoken /\ peer'.put = peer.put /\ peer'.read = peer.read
  /\ owner'.torn = owner.torn
  /\ Ended => Ended'
  /\ At("writing")' => At("writing") /\ owner'.left = owner.left
  /\ ~Ended' => (At("writing") => At("writing")')
  /\ Active' => Active /\ buf' = buf
Types ==
  /\ owner' \in OwnerType /\ peer' \in PeerType /\ log' \in LogType
  /\ fds' \subseteq PipeEnds \cup {"sock", "host"}

\* What is written does not change, nor who writes.
LEMMA SentSame ==
  ASSUME Sent, wire' = wire, log'.begun = log.begun, peer'.read = peer.read, Ended => Ended',
         At("writing")' => At("writing") /\ owner'.left = owner.left,
         ~Ended' => (At("writing") => At("writing")')
  PROVE  Sent'
<1>1. Begun' = Begun BY DEF Begun
<1>2. Consecutive(wire, peer.read, log.begun)' BY DEF Sent, Consecutive
<1>3. Consecutive(wire, Len(wire), log.begun)' <=> Consecutive(wire, Len(wire), log.begun)
  BY DEF Consecutive
<1>4. EndsWith(wire, Len(wire), Begun)' <=> EndsWith(wire, Len(wire), Begun)
  BY <1>1 DEF EndsWith
<1>5. EndsWith(wire, Len(wire), Begun - 1)' <=> EndsWith(wire, Len(wire), Begun - 1)
  BY <1>1 DEF EndsWith
<1> QED BY <1>1, <1>2, <1>3, <1>4, <1>5 DEF Sent

\* What was read does not change, or matters no more.
LEMMA ReceivedSame ==
  ASSUME Received, output' = output, taken' = taken, kind' = kind, log'.returned = log.returned,
         peer'.spoken = peer.spoken, owner'.torn = owner.torn, Active' => Active /\ buf' = buf
  PROVE  Received'
<1>1. Consecutive(output, Len(output), peer.spoken)' /\ EndsWith(output, Len(output), Len(peer.spoken))'
  BY DEF Received, Consecutive, EndsWith
<1>2. ~owner'.torn => \A i \in 1 .. Len(log'.returned) : HandedOut(i)'
  BY DEF Received, HandedOut, Number
<1>3. Active' => Active /\ buf' = buf /\ Start' = Start /\ Done' = Done
  BY DEF Start, Done
<1> QED BY <1>1, <1>2, <1>3 DEF Received, Number

\* Such a step keeps the invariant, given the two parts it may disturb.
LEMMA ControlStep == ASSUME LineInv, Control, Types, Held', Child' PROVE LineInv'
<1>1. Typed /\ Bounded /\ Writing /\ Sent /\ Received BY DEF LineInv
<1>2. Typed'
  <2>1. <<>> \in Seq(Byte) BY EmptySeq
  <2>2. buf' \in Seq(Byte) BY <1>1, <2>1 DEF Typed, Control
  <2> QED BY <1>1, <2>2 DEF Typed, Control, Types
<1>3. Bounded'
  <2>1. Len(<<>>) = 0 BY EmptySeq
  <2>2. Len(buf') <= MaxLine + Chunk
    BY <1>1, <2>1, TransportAssumption DEF Control, Bounded, BufferBounded
  <2> QED BY <1>1, <2>2 DEF Bounded, BufferBounded, Control
<1>4. Writing' BY <1>1 DEF Writing, Control, Begun
<1>5. Sent' BY <1>1, SentSame DEF Control
<1>6. Received' BY <1>1, ReceivedSame DEF Control
<1> QED BY <1>2, <1>3, <1>4, <1>5, <1>6 DEF LineInv

\* The fields.
LEMMA Fields ==
  ASSUME Typed
  PROVE  /\ owner = [pc |-> owner.pc, closed |-> owner.closed, exit |-> owner.exit, left |-> owner.left,
                     calls |-> owner.calls, tried |-> owner.tried, torn |-> owner.torn]
         /\ peer = [state |-> peer.state, code |-> peer.code, put |-> peer.put, read |-> peer.read,
                    spoken |-> peer.spoken, hit |-> peer.hit]
         /\ log = [returned |-> log.returned, begun |-> log.begun, closes |-> log.closes]
         /\ owner.pc \in {"new", "handshake", "idle", "writing", "reading", "waiting", "destroying", "gone"}
         /\ owner.closed \in BOOLEAN /\ owner.exit \in Codes \cup {NoCode} /\ owner.left \in Nat
         /\ owner.calls \in 0 .. MaxCalls /\ owner.tried \in 0 .. Addresses /\ owner.torn \in BOOLEAN
         /\ peer.state \in PeerStates /\ peer.code \in Codes \cup {NoCode} /\ peer.put \in Nat
         /\ peer.read \in Nat /\ peer.spoken \in Seq(LineLengths) /\ peer.hit \in PeerStates
         /\ log.returned \in Seq(Handed) /\ log.begun \in Seq(LineLengths) /\ log.closes \in Seq(Codes)
  BY DEF Typed, OwnerType, PeerType, LogType

\* The connection is made.
LEMMA SpawnStep == ASSUME LineInv, Spawn PROVE LineInv'
<1>1. Typed /\ Held /\ Child BY DEF LineInv
<1>2. /\ owner' = [owner EXCEPT !.pc = "idle"] /\ peer' = [peer EXCEPT !.state = "running"]
      /\ owner.pc = "new" /\ fds' = fds \cup ParentEnds /\ Stdio
      /\ UNCHANGED <<kind, buf, wire, output, taken, log>>
  BY DEF Spawn, At
<1>3. /\ owner'.pc = "idle" /\ owner'.closed = owner.closed /\ owner'.exit = owner.exit
      /\ owner'.left = owner.left /\ owner'.torn = owner.torn /\ owner' \in OwnerType
      /\ peer'.state = "running" /\ peer'.code = peer.code /\ peer'.put = peer.put
      /\ peer'.read = peer.read /\ peer'.spoken = peer.spoken /\ peer'.hit = peer.hit
      /\ peer' \in PeerType
  BY <1>1, <1>2, Fields DEF OwnerType, PeerType, PeerStates
<1>4. Types BY <1>1, <1>2, <1>3 DEF Types, Typed, ParentEnds, PipeEnds
<1>5. Control BY <1>1, <1>2, <1>3 DEF Control, At, Ended, Active, Child, Stdio
<1>6. Held' BY <1>1, <1>2, <1>3 DEF Held, At, Stdio
<1>7. Child' BY <1>1, <1>2, <1>3 DEF Child, At, Stdio, Ended
<1> QED BY <1>4, <1>5, <1>6, <1>7, ControlStep

\* The connection is not made, or not yet.
LEMMA SpawnFailsStep == ASSUME LineInv, NEW stage, SpawnFails(stage) PROVE LineInv'
<1>1. Typed /\ Held /\ Child BY DEF LineInv
<1>2. /\ owner' = [owner EXCEPT !.pc = "gone"] /\ owner.pc = "new" /\ fds' \subseteq fds
      /\ UNCHANGED <<kind, buf, wire, output, peer, taken, log>>
  BY DEF SpawnFails, At
<1>3. /\ owner'.pc = "gone" /\ owner'.closed = owner.closed /\ owner'.exit = owner.exit
      /\ owner'.left = owner.left /\ owner'.torn = owner.torn /\ owner' \in OwnerType
  BY <1>1, <1>2, Fields DEF OwnerType
<1>4. Types BY <1>1, <1>2, <1>3 DEF Types, Typed
<1>5. Control BY <1>1, <1>2, <1>3 DEF Control, At, Ended, Active, Child, Stdio
<1>6. Held' BY <1>1, <1>2, <1>3 DEF Held, At, Stdio
<1>7. Child' BY <1>1, <1>2, <1>3 DEF Child, At, Stdio, Ended
<1> QED BY <1>4, <1>5, <1>6, <1>7, ControlStep

\* No connection is made, and nothing is held.
LEMMA ConnectFailsStep == ASSUME LineInv, ConnectFails PROVE LineInv'
<1>1. Typed /\ Held /\ Child BY DEF LineInv
<1>2. /\ owner' = [owner EXCEPT !.pc = "gone"] /\ owner.pc = "new" /\ ~Stdio
      /\ UNCHANGED <<kind, fds, buf, wire, output, peer, taken, log>>
  BY DEF ConnectFails, At
<1>3. /\ owner'.pc = "gone" /\ owner'.closed = owner.closed /\ owner'.exit = owner.exit
      /\ owner'.left = owner.left /\ owner'.torn = owner.torn /\ owner' \in OwnerType
  BY <1>1, <1>2, Fields DEF OwnerType
<1>4. Types BY <1>1, <1>2, <1>3 DEF Types, Typed
<1>5. Control BY <1>1, <1>2, <1>3 DEF Control, At, Ended, Active, Child, Stdio
<1>6. Held' BY <1>1, <1>2, <1>3 DEF Held, At, Stdio
<1>7. Child' BY <1>1, <1>2, <1>3 DEF Child, At, Stdio, Ended
<1> QED BY <1>4, <1>5, <1>6, <1>7, ControlStep

\* One address did not answer.
LEMMA TryAddressStep == ASSUME LineInv, TryAddress PROVE LineInv'
<1>1. Typed /\ Held /\ Child BY DEF LineInv
<1>2. /\ owner' = [owner EXCEPT !.tried = owner.tried + 1] /\ owner.pc = "new"
      /\ owner.tried < Addresses /\ UNCHANGED <<kind, fds, buf, wire, output, peer, taken, log>>
  BY DEF TryAddress, At
<1>3. /\ owner'.pc = "new" /\ owner'.closed = owner.closed /\ owner'.exit = owner.exit
      /\ owner'.left = owner.left /\ owner'.torn = owner.torn /\ owner' \in OwnerType
  <2>1. owner.tried \in 0 .. Addresses BY <1>1, Fields
  <2>2. owner.tried + 1 \in 0 .. Addresses BY <1>2, <2>1, TransportAssumption
  <2>3. owner \in OwnerType BY <1>1 DEF Typed
  <2> QED BY <1>2, <2>2, <2>3 DEF OwnerType
<1>4. Types BY <1>1, <1>2, <1>3 DEF Types, Typed
<1>5. Control BY <1>1, <1>2, <1>3 DEF Control, At, Ended, Active, Child, Stdio
<1>6. Held' BY <1>1, <1>2, <1>3 DEF Held, At, Stdio
<1>7. Child' BY <1>1, <1>2, <1>3 DEF Child, At, Stdio, Ended
<1> QED BY <1>4, <1>5, <1>6, <1>7, ControlStep

\* A socket is connected, and for TLS a handshake follows.
LEMMA ConnectStep == ASSUME LineInv, Connect PROVE LineInv'
<1>1. Typed /\ Held /\ Child BY DEF LineInv
<1>2. /\ owner' = [owner EXCEPT !.pc = owner'.pc] /\ owner'.pc \in {"handshake", "idle"}
      /\ peer' = [peer EXCEPT !.state = "running"]
      /\ owner.pc = "new" /\ fds' = fds \cup {"sock"} /\ ~Stdio
      /\ UNCHANGED <<kind, buf, wire, output, taken, log>>
  <2>1. owner \in OwnerType BY <1>1 DEF Typed
  <2> QED BY <2>1 DEF Connect, At, OwnerType
<1>3. /\ owner'.closed = owner.closed /\ owner'.exit = owner.exit
      /\ owner'.left = owner.left /\ owner'.torn = owner.torn /\ owner' \in OwnerType
  BY <1>1, <1>2, Fields DEF OwnerType
<1>4. /\ peer'.state = "running" /\ peer'.code = peer.code /\ peer'.put = peer.put
      /\ peer'.read = peer.read /\ peer'.spoken = peer.spoken /\ peer'.hit = peer.hit
      /\ peer' \in PeerType
  BY <1>1, <1>2, Fields DEF PeerType, PeerStates
<1>5. Types BY <1>1, <1>2, <1>3, <1>4 DEF Types, Typed
<1>6. Control BY <1>1, <1>2, <1>3, <1>4 DEF Control, At, Ended, Active, Child, Stdio
<1>7. Held' BY <1>1, <1>2, <1>3 DEF Held, At, Stdio
<1>8. Child' BY <1>1, <1>2, <1>3, <1>4 DEF Child, At, Stdio, Ended
<1> QED BY <1>5, <1>6, <1>7, <1>8, ControlStep
\* The handshake ends; a failure drops the socket.
LEMMA HandshakeStep == ASSUME LineInv, NEW ok \in BOOLEAN, Handshake(ok) PROVE LineInv'
<1>1. Typed /\ Held /\ Child BY DEF LineInv
<1>2. /\ owner' = [owner EXCEPT !.pc = owner'.pc] /\ owner.pc = "handshake" /\ ~Stdio
      /\ \/ owner'.pc = "idle" /\ fds' = fds
         \/ owner'.pc = "gone" /\ fds' = fds \ {"sock"}
      /\ UNCHANGED <<kind, buf, wire, output, peer, taken, log>>
  <2>1. owner \in OwnerType BY <1>1 DEF Typed
  <2> QED BY <1>1, <2>1 DEF Handshake, At, OwnerType, Held
<1>3. /\ owner'.closed = owner.closed /\ owner'.exit = owner.exit
      /\ owner'.left = owner.left /\ owner'.torn = owner.torn /\ owner' \in OwnerType
  BY <1>1, <1>2, Fields DEF OwnerType
<1>4. Types BY <1>1, <1>2, <1>3 DEF Types, Typed
<1>5. Control BY <1>1, <1>2, <1>3 DEF Control, At, Ended, Active, Child, Stdio
<1>6. Held' BY <1>1, <1>2, <1>3 DEF Held, At, Stdio
<1>7. Child' BY <1>1, <1>2, <1>3 DEF Child, At, Stdio, Ended
<1> QED BY <1>4, <1>5, <1>6, <1>7, ControlStep

---------------------------------------------------------------------------
(* Calls that move no byte *)

Points == {"new", "handshake", "idle", "writing", "reading", "waiting", "destroying", "gone"}

\* A call begins.
LEMMA BeginFields ==
  ASSUME Typed, MayCall, NEW point \in Points
  PROVE  LET o == Begin(point, owner)
         IN /\ owner.pc = "idle" /\ o.pc = point /\ o.closed = owner.closed /\ o.exit = owner.exit
            /\ o.left = owner.left /\ o.torn = owner.torn /\ o \in OwnerType
<1> DEFINE o == Begin(point, owner)
<1>1. o = [owner EXCEPT !.pc = point, !.calls = owner.calls + 1] BY DEF Begin
<1>2. owner.pc = "idle" /\ owner.calls + 1 \in 0 .. MaxCalls
  <2>1. owner.calls \in 0 .. MaxCalls BY Fields
  <2>2. owner.pc = "idle" /\ owner.calls < MaxCalls BY DEF MayCall, At
  <2> QED BY <2>1, <2>2, TransportAssumption
<1> HIDE DEF o
<1>3. /\ o.pc = point /\ o.closed = owner.closed /\ o.exit = owner.exit /\ o.left = owner.left
      /\ o.torn = owner.torn /\ o.calls = owner.calls + 1 /\ o.tried = owner.tried
  BY <1>1, Fields
<1>4. o \in OwnerType BY <1>1, <1>2, <1>3, Fields DEF OwnerType, Points
<1> QED BY <1>2, <1>3, <1>4 DEF o

\* A call ends.
LEMMA ReturnFields ==
  ASSUME NEW o \in OwnerType
  PROVE  /\ Return(o).pc = "idle" /\ Return(o).closed = o.closed /\ Return(o).exit = o.exit
         /\ Return(o).torn = o.torn /\ Return(o) \in OwnerType
  BY DEF Return, OwnerType

\* try_wait.
LEMMA TryWaitFields ==
  ASSUME Typed
  PROVE  /\ TryWait(owner).pc = owner.pc /\ TryWait(owner).closed = owner.closed
         /\ TryWait(owner).left = owner.left /\ TryWait(owner).torn = owner.torn
         /\ TryWait(owner).exit = IF Collected THEN peer.code ELSE owner.exit
         /\ TryWait(owner) \in OwnerType
  BY Fields DEF TryWait, OwnerType, Typed
\* The child that try_wait collects.
LEMMA CollectFields ==
  ASSUME Typed, Collect
  PROVE  /\ peer'.state = IF Collected THEN "reaped" ELSE peer.state
         /\ peer'.code = peer.code /\ peer'.put = peer.put /\ peer'.read = peer.read
         /\ peer'.spoken = peer.spoken /\ peer'.hit = peer.hit /\ peer' \in PeerType
  BY Fields DEF Collect, Reaped, PeerType, PeerStates, Typed

\* Calls that are refused or end at once, and recv_line.
LEMMA SendRefusedStep == ASSUME LineInv, SendRefused PROVE LineInv'
<1>1. Typed /\ Held /\ Child BY DEF LineInv
<1>2. /\ owner.pc = "idle" /\ owner'.pc = "idle" /\ owner'.closed = owner.closed
      /\ owner'.exit = owner.exit /\ owner'.torn = owner.torn /\ owner' \in OwnerType
      /\ UNCHANGED <<kind, fds, buf, wire, output, peer, taken, log>>
  BY <1>1, BeginFields DEF SendRefused, Points
<1>3. Types BY <1>1, <1>2 DEF Types, Typed
<1>4. Control BY <1>1, <1>2 DEF Control, At, Ended, Active, Stdio
<1>5. Held' BY <1>1, <1>2 DEF Held, At, Stdio
<1>6. Child' BY <1>1, <1>2 DEF Child, At, Stdio, Ended
<1> QED BY <1>3, <1>4, <1>5, <1>6, ControlStep

\* recv_line begins to read, unless a socket was closed.
LEMMA RecvLineStep == ASSUME LineInv, RecvLine PROVE LineInv'
<1>1. Typed /\ Held /\ Child BY DEF LineInv
<1>2. /\ owner.pc = "idle" /\ owner'.pc \in {"idle", "reading"} /\ owner'.closed = owner.closed
      /\ ~Stdio /\ owner.closed => owner'.pc = "idle"
      /\ owner'.exit = owner.exit /\ owner'.torn = owner.torn /\ owner' \in OwnerType
      /\ UNCHANGED <<kind, fds, buf, wire, output, peer, taken, log>>
  <2>1. CASE ~Stdio /\ owner.closed
    BY <1>1, <2>1, BeginFields DEF RecvLine, Points
  <2>2. CASE ~(~Stdio /\ owner.closed)
    BY <1>1, <2>2, BeginFields DEF RecvLine, Points
  <2> QED BY <2>1, <2>2
<1>3. Types BY <1>1, <1>2 DEF Types, Typed
<1>4. Control BY <1>1, <1>2 DEF Control, At, Ended, Active, Stdio
<1>5. Held' BY <1>1, <1>2 DEF Held, At, Stdio
<1>6. Child' BY <1>1, <1>2 DEF Child, At, Stdio, Ended
<1> QED BY <1>3, <1>4, <1>5, <1>6, ControlStep

\* A result of close is noted.
LEMMA Noted ==
  ASSUME Typed, NEW code \in Codes, log' = [log EXCEPT !.closes = Append(log.closes, code)]
  PROVE  /\ log'.returned = log.returned /\ log'.begun = log.begun /\ log' \in LogType
         /\ log'.closes # <<>>
         /\ \A c : (\A i \in 1 .. Len(log.closes) : log.closes[i] = c) /\ code = c =>
                   \A i \in 1 .. Len(log'.closes) : log'.closes[i] = c
<1>1. log.closes \in Seq(Codes) BY Fields
<1>2. /\ Append(log.closes, code) \in Seq(Codes)
      /\ Len(Append(log.closes, code)) = Len(log.closes) + 1
      /\ \A i \in 1 .. Len(log.closes) : Append(log.closes, code)[i] = log.closes[i]
      /\ Append(log.closes, code)[Len(log.closes) + 1] = code
  BY <1>1, AppendProperties
<1>3. log'.closes = Append(log.closes, code) /\ log'.returned = log.returned /\ log'.begun = log.begun
  BY Fields
<1>4. Len(log.closes) \in Nat BY <1>1, LenProperties
<1>5. log'.closes # <<>> BY <1>2, <1>3, <1>4, EmptySeq
<1>6. log' \in LogType BY <1>2, <1>3, Fields DEF LogType
<1>7. ASSUME NEW c, \A i \in 1 .. Len(log.closes) : log.closes[i] = c, code = c
      PROVE  \A i \in 1 .. Len(log'.closes) : log'.closes[i] = c
  <2> TAKE i \in 1 .. Len(log'.closes)
  <2>1. i \in 1 .. Len(log.closes) \/ i = Len(log.closes) + 1 BY <1>2, <1>3, <1>4
  <2> QED BY <1>2, <1>3, <1>7, <2>1
<1> QED BY <1>3, <1>5, <1>6, <1>7

---------------------------------------------------------------------------
(* close, the destructors and the end of the mirror *)

LEMMA CloseAgainStep == ASSUME LineInv, CloseAgain PROVE LineInv'
<1>1. Typed /\ Held /\ Child BY DEF LineInv
<1>2. /\ owner.pc = "idle" /\ owner'.pc = "idle" /\ owner'.closed = owner.closed
      /\ owner'.exit = owner.exit /\ owner'.torn = owner.torn /\ owner' \in OwnerType
      /\ owner.closed /\ log' = [log EXCEPT !.closes = Append(log.closes, Again)]
      /\ UNCHANGED <<kind, fds, buf, wire, output, peer, taken>>
  BY <1>1, BeginFields DEF CloseAgain, Points
<1>3. Again \in Codes /\ (Stdio => Again = peer.code /\ peer.state = "reaped")
  <2>1. owner.exit \in Codes \cup {NoCode} BY <1>1, Fields
  <2>2. owner.closed /\ owner.pc # "waiting" BY <1>2
  <2>3. Again \in Codes BY <2>1 DEF Again, Codes
  <2>4. Stdio => owner.exit # NoCode /\ owner.exit \in {NoCode, peer.code} /\ peer.state = "reaped"
    BY <1>1, <2>2 DEF Child, At
  <2> QED BY <2>3, <2>4 DEF Again
<1>4. /\ log'.returned = log.returned /\ log'.begun = log.begun /\ log' \in LogType
      /\ Stdio => \A i \in 1 .. Len(log'.closes) : log'.closes[i] = peer.code
  BY <1>1, <1>2, <1>3, Noted DEF Child
<1>5. Types BY <1>1, <1>2, <1>4 DEF Types, Typed
<1>6. Control BY <1>1, <1>2, <1>4 DEF Control, At, Ended, Active, Stdio
<1>7. Held' BY <1>1, <1>2 DEF Held, At, Stdio
<1>8. Child' BY <1>1, <1>2, <1>3, <1>4 DEF Child, At, Stdio, Ended
<1> QED BY <1>5, <1>6, <1>7, <1>8, ControlStep

\* close gives up the child's input and waits.
LEMMA CloseChildStep == ASSUME LineInv, CloseChild PROVE LineInv'
<1>1. Typed /\ Held /\ Child BY DEF LineInv
<1>2. /\ owner' = [Begin("waiting", owner) EXCEPT !.closed = TRUE] /\ MayCall
      /\ Stdio /\ fds' = fds \ {"in_w"} /\ UNCHANGED <<kind, buf, wire, output, peer, taken, log>>
  BY DEF CloseChild
<1>3. /\ owner.pc = "idle" /\ owner'.pc = "waiting" /\ owner'.closed = TRUE
      /\ owner'.exit = owner.exit /\ owner'.torn = owner.torn /\ owner' \in OwnerType
  BY <1>1, <1>2, BeginFields DEF Points, OwnerType
<1>4. Types BY <1>1, <1>2, <1>3 DEF Types, Typed
<1>5. Control BY <1>1, <1>2, <1>3 DEF Control, At, Ended, Active, Stdio
<1>6. Held' BY <1>1, <1>2, <1>3 DEF Held, At, Stdio
<1>7. Child' BY <1>1, <1>2, <1>3 DEF Child, At, Stdio, Ended
<1> QED BY <1>4, <1>5, <1>6, <1>7, ControlStep

\* close of a socket drops the buffer.
LEMMA CloseSocketStep == ASSUME LineInv, CloseSocket PROVE LineInv'
<1>1. Typed /\ Held /\ Child BY DEF LineInv
<1>2. /\ owner' = [Begin("idle", owner) EXCEPT !.closed = TRUE] /\ MayCall
      /\ ~Stdio /\ fds' = fds \ {"sock"} /\ buf' = <<>>
      /\ log' = [log EXCEPT !.closes = Append(log.closes, "0")]
      /\ UNCHANGED <<kind, wire, output, peer, taken>>
  BY DEF CloseSocket
<1>3. /\ owner.pc = "idle" /\ owner'.pc = "idle" /\ owner'.closed = TRUE
      /\ owner'.exit = owner.exit /\ owner'.torn = owner.torn /\ owner' \in OwnerType
  BY <1>1, <1>2, BeginFields DEF Points, OwnerType
<1>4. /\ log'.returned = log.returned /\ log'.begun = log.begun /\ log' \in LogType
  <2>1. "0" \in Codes BY DEF Codes
  <2> QED BY <1>1, <1>2, <2>1, Noted
<1>5. Types BY <1>1, <1>2, <1>3, <1>4 DEF Types, Typed
<1>6. Control BY <1>1, <1>2, <1>3, <1>4 DEF Control, At, Ended, Active, Stdio
<1>7. Held' BY <1>1, <1>2, <1>3 DEF Held, At, Stdio
<1>8. Child' BY <1>1, <1>2, <1>3, <1>4 DEF Child, At, Stdio, Ended
<1> QED BY <1>5, <1>6, <1>7, <1>8, ControlStep

\* close ends with the exit code of the child.
LEMMA WaitStep == ASSUME LineInv, Wait PROVE LineInv'
<1>1. Typed /\ Held /\ Child BY DEF LineInv
<1>2. /\ owner' = Return(TryWait(owner)) /\ Collect /\ owner.pc = "waiting"
      /\ owner.exit # NoCode \/ Collected
      /\ log' = [log EXCEPT !.closes = Append(log.closes, TryWait(owner).exit)]
      /\ UNCHANGED <<kind, fds, buf, wire, output, taken>>
  BY DEF Wait, At
<1>3. /\ owner'.pc = "idle" /\ owner'.closed = owner.closed /\ owner'.torn = owner.torn
      /\ owner'.exit = IF Collected THEN peer.code ELSE owner.exit
      /\ owner' \in OwnerType
  BY <1>1, <1>2, TryWaitFields, ReturnFields
<1>4. /\ peer'.state = IF Collected THEN "reaped" ELSE peer.state
      /\ peer'.code = peer.code /\ peer'.put = peer.put /\ peer'.read = peer.read
      /\ peer'.spoken = peer.spoken /\ peer'.hit = peer.hit /\ peer' \in PeerType
  BY <1>1, <1>2, CollectFields
<1>5. Stdio /\ peer'.state = "reaped" /\ owner'.exit = peer.code /\ peer.code \in Codes /\ Ended
  BY <1>1, <1>2, <1>3, <1>4, Fields DEF Child, Collected, Ended, At
<1>6. TryWait(owner).exit = peer.code
  BY <1>1, <1>3, <1>5, TryWaitFields
<1>7. /\ log'.returned = log.returned /\ log'.begun = log.begun /\ log' \in LogType
      /\ \A i \in 1 .. Len(log'.closes) : log'.closes[i] = peer.code
  BY <1>1, <1>2, <1>5, <1>6, Noted DEF Child
<1>8. Types BY <1>1, <1>2, <1>3, <1>4, <1>7 DEF Types, Typed
<1>9. Control BY <1>1, <1>2, <1>3, <1>4, <1>5, <1>7 DEF Control, At, Ended, Active, Stdio
<1>10. Held' BY <1>1, <1>2, <1>3 DEF Held, At, Stdio
<1>11. Child' BY <1>1, <1>2, <1>3, <1>4, <1>5, <1>7 DEF Child, At, Stdio, Ended, NoCode, Codes
<1> QED BY <1>8, <1>9, <1>10, <1>11, ControlStep

\* The destructor kills a child it has no code of.
LEMMA DestroyStep == ASSUME LineInv, Destroy PROVE LineInv'
<1>1. Typed /\ Held /\ Child BY DEF LineInv
<1>2. owner.pc = "idle" /\ UNCHANGED <<kind, wire, output, taken, log>> BY DEF Destroy, At
<1>3. CASE Stdio /\ owner.exit = NoCode
  <2>1. /\ owner' = [owner EXCEPT !.pc = "destroying"] /\ UNCHANGED <<fds, buf>>
        /\ peer' = [peer EXCEPT !.hit = peer.state,
                                !.state = IF PeerRuns THEN "ending" ELSE peer.state,
                                !.code = IF PeerRuns THEN "137" ELSE peer.code]
    BY <1>3 DEF Destroy
  <2>2. /\ owner'.pc = "destroying" /\ owner'.closed = owner.closed /\ owner'.exit = owner.exit
        /\ owner'.torn = owner.torn /\ owner' \in OwnerType
    BY <1>1, <2>1, Fields DEF OwnerType
  <2>3. /\ peer'.state = IF PeerRuns THEN "ending" ELSE peer.state
        /\ peer'.code = IF PeerRuns THEN "137" ELSE peer.code
        /\ peer'.put = peer.put /\ peer'.read = peer.read
        /\ peer'.spoken = peer.spoken /\ peer'.hit = peer.state
    BY <1>1, <2>1, Fields
  <2>4. peer' \in PeerType
    BY <1>1, <2>1, Fields DEF PeerType, PeerStates, Codes
  <2>5. Types BY <1>1, <1>2, <2>1, <2>2, <2>4 DEF Types, Typed
  <2>6. Control
    BY <1>1, <1>2, <2>1, <2>2, <2>3 DEF Control, At, Ended, Active, Stdio, PeerRuns
  <2>7. Held' BY <1>1, <1>2, <2>1, <2>2 DEF Held, At, Stdio
  <2>8. Child'
    BY <1>1, <1>2, <1>3, <2>1, <2>2, <2>3 DEF Child, At, Stdio, Ended, PeerRuns, NoCode, Codes
  <2> QED BY <2>5, <2>6, <2>7, <2>8, ControlStep
<1>4. CASE ~(Stdio /\ owner.exit = NoCode)
  <2>1. /\ owner' = [owner EXCEPT !.pc = "gone"] /\ fds' = fds \cap {"host"} /\ buf' = <<>>
        /\ peer' = peer
    BY <1>4 DEF Destroy
  <2>2. /\ owner'.pc = "gone" /\ owner'.closed = owner.closed /\ owner'.exit = owner.exit
        /\ owner'.torn = owner.torn /\ owner' \in OwnerType
    BY <1>1, <2>1, Fields DEF OwnerType
  <2>3. Types BY <1>1, <1>2, <2>1, <2>2 DEF Types, Typed
  <2>4. Control BY <1>1, <1>2, <2>1, <2>2 DEF Control, At, Ended, Active, Stdio
  <2>5. Held' BY <1>1, <1>2, <2>1, <2>2 DEF Held, At, Stdio
  <2>6. Child' BY <1>1, <1>2, <1>4, <2>1, <2>2 DEF Child, At, Stdio, Ended
  <2> QED BY <2>3, <2>4, <2>5, <2>6, ControlStep
<1> QED BY <1>3, <1>4

\* The destructor collects it.
LEMMA DestroyWaitStep == ASSUME LineInv, DestroyWait PROVE LineInv'
<1>1. Typed /\ Held /\ Child BY DEF LineInv
<1>2. /\ owner' = [TryWait(owner) EXCEPT !.pc = "gone"] /\ Collect /\ owner.pc = "destroying"
      /\ Collected /\ fds' = fds \cap {"host"} /\ buf' = <<>>
      /\ UNCHANGED <<kind, wire, output, taken, log>>
  BY DEF DestroyWait, At
<1>3. /\ owner'.pc = "gone" /\ owner'.closed = owner.closed /\ owner'.torn = owner.torn
      /\ owner'.exit = peer.code /\ owner' \in OwnerType
  BY <1>1, <1>2, TryWaitFields DEF OwnerType
<1>4. /\ peer'.state = "reaped" /\ Stdio /\ peer.state = "exited"
      /\ peer'.code = peer.code /\ peer'.put = peer.put /\ peer'.read = peer.read
      /\ peer'.spoken = peer.spoken /\ peer'.hit = peer.hit /\ peer' \in PeerType
  BY <1>1, <1>2, CollectFields DEF Collected
<1>5. Types BY <1>1, <1>2, <1>3, <1>4 DEF Types, Typed
<1>6. Control BY <1>1, <1>2, <1>3, <1>4 DEF Control, At, Ended, Active, Stdio
<1>7. Held' BY <1>1, <1>2, <1>3 DEF Held, At, Stdio
<1>8. Child' BY <1>1, <1>2, <1>3, <1>4 DEF Child, At, Stdio, Ended, NoCode, Codes
<1> QED BY <1>5, <1>6, <1>7, <1>8, ControlStep

\* A call ends, and the child is collected if it can be.
LEMMA Collecting ==
  ASSUME Typed, Child, Collect, owner' = Return(TryWait(owner)), owner.pc \in {"writing", "reading"},
         kind' = kind, log'.closes = log.closes
  PROVE  /\ owner'.pc = "idle" /\ owner'.closed = owner.closed /\ owner'.torn = owner.torn
         /\ owner' \in OwnerType /\ peer' \in PeerType
         /\ peer'.put = peer.put /\ peer'.read = peer.read /\ peer'.spoken = peer.spoken
         /\ (Ended' <=> Ended) /\ Child'
<1>1. /\ owner'.pc = "idle" /\ owner'.closed = owner.closed /\ owner'.torn = owner.torn
      /\ owner'.exit = IF Collected THEN peer.code ELSE owner.exit
      /\ owner' \in OwnerType
  BY TryWaitFields, ReturnFields
<1>2. /\ peer'.state = IF Collected THEN "reaped" ELSE peer.state
      /\ peer'.code = peer.code /\ peer'.put = peer.put /\ peer'.read = peer.read
      /\ peer'.spoken = peer.spoken /\ peer'.hit = peer.hit /\ peer' \in PeerType
  BY CollectFields
<1>3. Ended' <=> Ended BY <1>2 DEF Ended, Collected
<1>4. Child'
  <2>1. CASE Collected
    BY <1>1, <1>2, <2>1 DEF Child, At, Stdio, Ended, Collected, NoCode, Codes
  <2>2. CASE ~Collected
    BY <1>1, <1>2, <2>2 DEF Child, At, Stdio, Ended
  <2> QED BY <2>1, <2>2
<1> QED BY <1>1, <1>2, <1>3, <1>4

\* A write fails, since the mirror has ended.
LEMMA WriteFailsStep == ASSUME LineInv, WriteFails PROVE LineInv'
<1>1. Typed /\ Held /\ Child BY DEF LineInv
<1>2. /\ owner' = Return(TryWait(owner)) /\ Collect /\ owner.pc = "writing" /\ Ended
      /\ UNCHANGED <<kind, fds, buf, wire, output, taken, log>>
  BY DEF WriteFails, At
<1>3. /\ owner'.pc = "idle" /\ owner'.closed = owner.closed /\ owner'.torn = owner.torn
      /\ owner' \in OwnerType /\ peer' \in PeerType
      /\ peer'.put = peer.put /\ peer'.read = peer.read /\ peer'.spoken = peer.spoken
      /\ Ended' /\ Child'
  BY <1>1, <1>2, Collecting
<1>4. Types BY <1>1, <1>2, <1>3 DEF Types, Typed
<1>5. Control BY <1>1, <1>2, <1>3 DEF Control, At, Active, Stdio
<1>6. Held' BY <1>1, <1>2, <1>3 DEF Held, At, Stdio
<1> QED BY <1>3, <1>4, <1>5, <1>6, ControlStep

\* A read meets the end of the mirror's output.
LEMMA EofStep == ASSUME LineInv, Eof PROVE LineInv'
<1>1. Typed /\ Held /\ Child BY DEF LineInv
<1>2. owner.pc = "reading" /\ UNCHANGED <<kind, fds, buf, wire, output, taken, log>> BY DEF Eof, At
<1>3. /\ owner'.pc = "idle" /\ owner'.closed = owner.closed /\ owner'.torn = owner.torn
      /\ owner' \in OwnerType /\ peer' \in PeerType
      /\ peer'.put = peer.put /\ peer'.read = peer.read /\ peer'.spoken = peer.spoken
      /\ (Ended' <=> Ended) /\ Child'
  <2>1. CASE buf = <<>>
    <3>1. owner' = Return(TryWait(owner)) /\ Collect BY <2>1 DEF Eof
    <3> QED BY <1>1, <1>2, <3>1, Collecting
  <2>2. CASE buf # <<>>
    <3>1. owner' = Return(owner) /\ peer' = peer BY <2>2 DEF Eof
    <3>2. owner \in OwnerType /\ peer \in PeerType BY <1>1 DEF Typed
    <3>3. /\ owner'.pc = "idle" /\ owner'.closed = owner.closed /\ owner'.torn = owner.torn
          /\ owner'.exit = owner.exit /\ owner' \in OwnerType
      BY <3>1, <3>2, ReturnFields
    <3>4. Ended' <=> Ended BY <3>1 DEF Ended
    <3>5. Child' BY <1>1, <1>2, <3>1, <3>3 DEF Child, At, Stdio, Ended
    <3> QED BY <3>1, <3>2, <3>3, <3>4, <3>5
  <2> QED BY <2>1, <2>2
<1>4. Types BY <1>1, <1>2, <1>3 DEF Types, Typed
<1>5. Control BY <1>1, <1>2, <1>3 DEF Control, At, Active, Stdio
<1>6. Held' BY <1>1, <1>2, <1>3 DEF Held, At, Stdio
<1> QED BY <1>3, <1>4, <1>5, <1>6, ControlStep

\* The mirror ends, and can be waited for.
LEMMA MirrorEndsStep == ASSUME LineInv, NEW code \in Codes, MirrorEnds(code) PROVE LineInv'
<1>1. Typed /\ Held /\ Child BY DEF LineInv
<1>2. /\ peer.state = "running" /\ peer' = [peer EXCEPT !.state = "ending", !.code = code]
      /\ UNCHANGED <<kind, owner, fds, buf, wire, output, taken, log>>
  BY DEF MirrorEnds, PeerRuns
<1>3. /\ peer'.state = "ending" /\ peer'.code = code /\ peer'.put = peer.put
      /\ peer'.read = peer.read /\ peer'.spoken = peer.spoken /\ peer'.hit = peer.hit
      /\ peer' \in PeerType
  BY <1>1, <1>2, Fields DEF PeerType, PeerStates
<1>4. Types BY <1>1, <1>2, <1>3 DEF Types, Typed
<1>5. Control BY <1>1, <1>2, <1>3 DEF Control, At, Ended, Active, Stdio
<1>6. Held' BY <1>1, <1>2 DEF Held, At, Stdio
<1>7. Child' BY <1>1, <1>2, <1>3 DEF Child, At, Stdio, Ended, NoCode, Codes
<1> QED BY <1>4, <1>5, <1>6, <1>7, ControlStep

\* The mirror's process can be waited for.
LEMMA MirrorExitedStep == ASSUME LineInv, MirrorExited PROVE LineInv'
<1>1. Typed /\ Held /\ Child BY DEF LineInv
<1>2. /\ peer.state = "ending" /\ peer' = [peer EXCEPT !.state = "exited"]
      /\ UNCHANGED <<kind, owner, fds, buf, wire, output, taken, log>>
  BY DEF MirrorExited
<1>3. /\ peer'.state = "exited" /\ peer'.code = peer.code /\ peer'.put = peer.put
      /\ peer'.read = peer.read /\ peer'.spoken = peer.spoken /\ peer'.hit = peer.hit
      /\ peer' \in PeerType
  BY <1>1, <1>2, Fields DEF PeerType, PeerStates
<1>4. Types BY <1>1, <1>2, <1>3 DEF Types, Typed
<1>5. Control BY <1>1, <1>2, <1>3 DEF Control, At, Ended, Active, Stdio
<1>6. Held' BY <1>1, <1>2 DEF Held, At, Stdio
<1>7. Child' BY <1>1, <1>2, <1>3 DEF Child, At, Stdio, Ended
<1> QED BY <1>4, <1>5, <1>6, <1>7, ControlStep

---------------------------------------------------------------------------
(* Writing *)

\* A further line begins.
LEMMA ConsecutiveGrows ==
  ASSUME NEW lengths \in Seq(LineLengths), NEW k \in LineLengths, NEW s, NEW n \in Nat,
         Consecutive(s, n, lengths)
  PROVE  Consecutive(s, n, Append(lengths, k))
<1>1. /\ Len(lengths) \in Nat /\ Len(Append(lengths, k)) = Len(lengths) + 1
      /\ \A i \in 1 .. Len(lengths) : Append(lengths, k)[i] = lengths[i]
  BY AppendProperties, LenProperties
<1>2. \A i \in 1 .. n : s[i].line \in 1 .. Len(lengths) BY DEF Consecutive
<1>3. \A i \in 1 .. n : /\ s[i].line \in 1 .. Len(Append(lengths, k))
                        /\ Append(lengths, k)[s[i].line] = lengths[s[i].line]
  BY <1>1, <1>2
<1> QED BY <1>3 DEF Consecutive

\* send_line takes up a line.
LEMMA SendLineStep == ASSUME LineInv, NEW k \in LineLengths, SendLine(k) PROVE LineInv'
<1>1. Typed /\ Held /\ Child /\ Bounded /\ Sent /\ Received BY DEF LineInv
<1>2. /\ owner' = [Begin("writing", owner) EXCEPT !.left = k + 1] /\ MayCall
      /\ log' = [log EXCEPT !.begun = Append(log.begun, k)]
      /\ UNCHANGED <<kind, fds, buf, wire, output, peer, taken>>
  BY DEF SendLine
<1>3. /\ owner.pc = "idle" /\ owner'.pc = "writing" /\ owner'.closed = owner.closed
      /\ owner'.exit = owner.exit /\ owner'.torn = owner.torn /\ owner' \in OwnerType
      /\ owner'.left = k + 1
  <2>1. k \in Nat BY TransportAssumption
  <2> DEFINE o == Begin("writing", owner)
  <2>2. /\ owner.pc = "idle" /\ o.pc = "writing" /\ o.closed = owner.closed /\ o.exit = owner.exit
        /\ o.torn = owner.torn /\ o \in OwnerType
    BY <1>1, <1>2, BeginFields DEF Points
  <2>3. owner' = [o EXCEPT !.left = k + 1] BY <1>2
  <2> HIDE DEF o
  <2> QED BY <2>1, <2>2, <2>3 DEF OwnerType
<1>4. /\ log.begun \in Seq(LineLengths) /\ Begun \in Nat
      /\ log'.begun = Append(log.begun, k) /\ log'.returned = log.returned
      /\ log'.closes = log.closes /\ log' \in LogType
      /\ Begun' = Begun + 1 /\ log'.begun[Begun + 1] = k
  <2>1. log.begun \in Seq(LineLengths) /\ log'.begun = Append(log.begun, k)
    BY <1>1, <1>2, Fields
  <2>2. /\ Append(log.begun, k) \in Seq(LineLengths)
        /\ Len(Append(log.begun, k)) = Len(log.begun) + 1
        /\ Append(log.begun, k)[Len(log.begun) + 1] = k
    BY <2>1, AppendProperties
  <2>3. Len(log.begun) \in Nat BY <2>1, LenProperties
  <2> QED BY <1>1, <1>2, <2>1, <2>2, <2>3, Fields DEF LogType, Begun
<1>5. Typed' /\ Bounded' BY <1>1, <1>2, <1>3, <1>4 DEF Typed, Bounded, BufferBounded
<1>6. Held' BY <1>1, <1>2, <1>3 DEF Held, At, Stdio
<1>7. Child' BY <1>1, <1>2, <1>3, <1>4 DEF Child, At, Stdio, Ended
<1>8. Writing' BY <1>3, <1>4, TransportAssumption DEF Writing, At
<1>9. Sent'
  <2>1. peer.read \in Nat /\ Len(wire) \in Nat BY <1>1, Fields, LenProperties DEF Typed
  <2>2. Consecutive(wire, peer.read, log'.begun) BY <1>1, <1>4, <2>1, ConsecutiveGrows DEF Sent
  <2>3. ASSUME ~Ended'
        PROVE  /\ Consecutive(wire, Len(wire), log'.begun)
               /\ EndsWith(wire, Len(wire), Begun)
    <3>1. ~Ended /\ ~At("writing") BY <1>2, <1>3, <2>3 DEF Ended, At
    <3>2. Consecutive(wire, Len(wire), log.begun) /\ EndsWith(wire, Len(wire), Begun)
      BY <1>1, <3>1 DEF Sent
    <3> QED BY <1>4, <2>1, <3>2, ConsecutiveGrows
  <2>4. log'.begun[Begun'] + 1 - owner'.left = 0 /\ Begun' - 1 = Begun
    BY <1>3, <1>4, TransportAssumption
  <2>5. EndsWith(wire, Len(wire), Begun) => EndsWith(wire, Len(wire), Begun - 1)'
    BY <1>2, <2>4 DEF EndsWith
  <2>6. At("writing")' BY <1>3 DEF At
  <2>7. /\ Consecutive(wire, peer.read, log'.begun) => Consecutive(wire, peer.read, log.begun)'
        /\ Consecutive(wire, Len(wire), log'.begun) => Consecutive(wire, Len(wire), log.begun)'
    BY <1>2 DEF Consecutive
  <2> QED BY <2>2, <2>3, <2>4, <2>5, <2>6, <2>7 DEF Sent
<1>10. Received'
  <2>1. Active' => Active /\ buf' = buf BY <1>2, <1>3 DEF Active, At, Stdio
  <2> QED BY <1>1, <1>2, <1>3, <1>4, <2>1, ReceivedSame
<1> QED BY <1>5, <1>6, <1>7, <1>8, <1>9, <1>10 DEF LineInv

\* The bytes of a write: those of the line in hand that come next.
LEMMA RestBytes ==
  ASSUME Typed, Writing, At("writing"), NEW n \in Nat, n <= owner.left
  PROVE  /\ Begun \in Nat \ {0} /\ log.begun[Begun] \in Nat
         /\ owner.left \in 1 .. log.begun[Begun] + 1
         /\ Rest(n) \in Seq(Byte) /\ Len(Rest(n)) = n
         /\ \A i \in 1 .. n :
              Rest(n)[i] = [line |-> Begun, at |-> log.begun[Begun] + 1 - owner.left + i,
                            lf |-> i = owner.left]
<1> DEFINE K == log.begun[Begun]
           line == Framed(Begun, K)
           off == Len(line) - owner.left
<1>1. Begun \in Nat \ {0} /\ K \in Nat /\ owner.left \in 1 .. K + 1
  <2>1. log.begun \in Seq(LineLengths) BY Fields
  <2>2. Begun \in Nat /\ Begun > 0 BY <2>1, LenProperties DEF Begun, Writing
  <2>3. K \in LineLengths BY <2>1, <2>2, ElementOfSeq DEF Begun
  <2>4. K \in Nat BY <2>3, TransportAssumption
  <2>5. owner.left \in 1 .. K + 1 BY DEF Writing
  <2> QED BY <2>2, <2>4, <2>5
<1>2. Len(line) = K + 1 /\ \A i \in 1 .. K + 1 : line[i] = [line |-> Begun, at |-> i, lf |-> i = K + 1]
  BY <1>1 DEF Framed
<1>3. off = K + 1 - owner.left /\ off \in Nat /\ off + n <= K + 1
  <2> HIDE DEF line, K
  <2>1. Len(line) = K + 1 BY <1>2
  <2>2. K \in Nat /\ owner.left \in 1 .. K + 1 BY <1>1
  <2> QED BY <2>1, <2>2
<1>4. Rest(n) = SubSeq(line, off + 1, off + n) BY DEF Rest, Begun
<1> HIDE DEF line, off, K
<1>5. \A i \in off + 1 .. off + n : line[i] \in Byte
  <2> TAKE i \in off + 1 .. off + n
  <2>1. i \in 1 .. K + 1 BY <1>1, <1>3
  <2>2. (i = K + 1) \in BOOLEAN /\ i \in Nat BY <2>1
  <2>3. line[i] = [line |-> Begun, at |-> i, lf |-> i = K + 1] BY <1>2, <2>1
  <2> HIDE DEF line
  <2> QED BY <1>1, <2>2, <2>3 DEF Byte
<1>6. /\ Rest(n) \in Seq(Byte) /\ Len(Rest(n)) = n
      /\ \A i \in 1 .. n : Rest(n)[i] = line[off + i]
  <2> DEFINE first == off + 1
             last == off + n
  <2>1. first \in Int /\ last \in Int /\ last - first + 1 = n /\ (first <= last <=> n # 0)
    BY <1>3
  <2>2. /\ Rest(n) = SubSeq(line, first, last) /\ \A i \in first .. last : line[i] \in Byte
        /\ \A i \in 1 .. n : first + i - 1 = off + i
    BY <1>3, <1>4, <1>5
  <2> HIDE DEF first, last
  <2>3. /\ Rest(n) \in Seq(Byte)
        /\ Len(Rest(n)) = IF first <= last THEN last - first + 1 ELSE 0
        /\ \A i \in 1 .. last - first + 1 : Rest(n)[i] = line[first + i - 1]
    BY <2>1, <2>2, SubSeqProperties
  <2> QED BY <2>1, <2>2, <2>3
<1>7. ASSUME NEW i \in 1 .. n
      PROVE  Rest(n)[i] = [line |-> Begun, at |-> K + 1 - owner.left + i, lf |-> i = owner.left]
  <2>1. Rest(n)[i] = line[off + i]
    <3>1. \A j \in 1 .. n : Rest(n)[j] = line[off + j] BY <1>6
    <3> QED BY <3>1
  <2>2. off + i \in 1 .. K + 1 /\ (off + i = K + 1 <=> i = owner.left) BY <1>1, <1>3
  <2>3. off + i = K + 1 - owner.left + i BY <1>1, <1>3
  <2> QED BY <1>2, <2>1, <2>2, <2>3
<1> QED BY <1>1, <1>6, <1>7 DEF K

\* Bytes appended to those written so far.
LEMMA Appended ==
  ASSUME NEW s \in Seq(Byte), NEW t \in Seq(Byte)
  PROVE  /\ s \o t \in Seq(Byte) /\ Len(s) \in Nat /\ Len(t) \in Nat /\ Len(s \o t) = Len(s) + Len(t)
         /\ \A i \in 1 .. Len(s) : (s \o t)[i] = s[i]
         /\ \A i \in 1 .. Len(t) : (s \o t)[Len(s) + i] = t[i]
<1>1. Len(s) \in Nat /\ Len(t) \in Nat BY LenProperties
<1>2. /\ s \o t \in Seq(Byte) /\ Len(s \o t) = Len(s) + Len(t)
      /\ \A i \in 1 .. Len(s) + Len(t) : (s \o t)[i] = IF i <= Len(s) THEN s[i] ELSE t[i - Len(s)]
  BY ConcatProperties
<1>3. \A i \in 1 .. Len(s) : i \in 1 .. Len(s) + Len(t) /\ i <= Len(s) BY <1>1
<1>4. \A i \in 1 .. Len(t) : /\ Len(s) + i \in 1 .. Len(s) + Len(t) /\ ~(Len(s) + i <= Len(s))
                             /\ Len(s) + i - Len(s) = i
  BY <1>1
<1> QED BY <1>1, <1>2, <1>3, <1>4

\* Consecutive bytes and the next ones: part of a line, from the byte after the last.
LEMMA ConsecutiveAppended ==
  ASSUME NEW s \in Seq(Byte), NEW t \in Seq(Byte), NEW lengths, NEW m \in 1 .. Len(lengths),
         NEW off \in Nat, lengths[m] \in Nat, Len(lengths) \in Nat,
         Consecutive(s, Len(s), lengths),
         \A i \in 1 .. Len(t) : /\ t[i].line = m /\ t[i].at = off + i
                                /\ t[i].lf <=> off + i = lengths[m] + 1,
         off + Len(t) <= lengths[m] + 1,
         IF off = 0 THEN EndsWith(s, Len(s), m - 1)
         ELSE Len(s) > 0 /\ ~s[Len(s)].lf /\ s[Len(s)].line = m /\ s[Len(s)].at = off
  PROVE  Consecutive(s \o t, Len(s \o t), lengths)
<1> DEFINE w == s \o t
           N == Len(s)
           T == Len(t)
<1>1. /\ N \in Nat /\ T \in Nat /\ Len(w) = N + T
      /\ \A i \in 1 .. N : w[i] = s[i]
      /\ \A i \in 1 .. T : w[N + i] = t[i]
  BY Appended
<1>2. /\ \A i \in 1 .. N : /\ s[i].line \in 1 .. Len(lengths) /\ s[i].at > 0
                           /\ s[i].lf <=> s[i].at = lengths[s[i].line] + 1
      /\ N > 0 => s[1].line = 1 /\ s[1].at = 1
      /\ \A i \in 1 .. N - 1 : Follows(s[i], s[i + 1])
  BY DEF Consecutive
<1>3. /\ \A i \in 1 .. T : /\ t[i].line = m /\ t[i].at = off + i
                           /\ t[i].lf <=> off + i = lengths[m] + 1
      /\ off + T <= lengths[m] + 1
  OBVIOUS
<1>4. /\ off = 0 /\ N = 0 => m = 1
      /\ off = 0 /\ N > 0 => s[N].lf /\ s[N].line = m - 1
      /\ off # 0 => N > 0 /\ ~s[N].lf /\ s[N].line = m /\ s[N].at = off
  <2>1. m \in Nat OBVIOUS
  <2> QED BY <1>1, <2>1 DEF EndsWith
<1> HIDE DEF w, N, T
<1>5. \A i \in 1 .. N + T : i \in 1 .. N \/ \E j \in 1 .. T : i = N + j
  <2> TAKE i \in 1 .. N + T
  <2>1. i > N => i - N \in 1 .. T /\ i = N + (i - N) BY <1>1
  <2> QED BY <1>1, <2>1
<1>6. ASSUME NEW i \in 1 .. N + T
      PROVE  /\ w[i].line \in 1 .. Len(lengths) /\ w[i].at > 0
             /\ w[i].lf <=> w[i].at = lengths[w[i].line] + 1
  <2>1. CASE i \in 1 .. N BY <1>1, <1>2, <2>1
  <2>2. CASE \E j \in 1 .. T : i = N + j
    <3>1. PICK j \in 1 .. T : i = N + j BY <2>2
    <3>2. w[i] = t[j] /\ off + j > 0 BY <1>1, <3>1
    <3>3. /\ t[j].line = m /\ t[j].at = off + j
          /\ t[j].lf <=> off + j = lengths[m] + 1
      BY <1>3
    <3> QED BY <3>2, <3>3
  <2> QED BY <1>5, <2>1, <2>2
<1>7. N + T > 0 => w[1].line = 1 /\ w[1].at = 1
  <2>1. CASE N > 0 BY <1>1, <1>2, <2>1
  <2>2. CASE N = 0 /\ T > 0
    <3>1. w[1] = t[1] /\ off = 0 /\ m = 1 BY <1>1, <1>4, <2>2
    <3> QED BY <1>3, <2>2, <3>1, <1>1
  <2> QED BY <1>1, <2>1, <2>2
<1>8. ASSUME NEW i \in 1 .. (N + T) - 1
      PROVE  Follows(w[i], w[i + 1])
  <2>1. CASE i < N
    <3>1. w[i] = s[i] /\ w[i + 1] = s[i + 1] /\ i \in 1 .. N - 1 BY <1>1, <2>1
    <3> QED BY <1>2, <3>1
  <2>2. CASE i = N
    <3>1. 1 \in 1 .. T /\ N \in 1 .. N /\ N > 0 BY <1>1, <2>2
    <3>2. w[i] = s[N] /\ w[i + 1] = t[1] BY <1>1, <2>2, <3>1
    <3>3. t[1].line = m /\ t[1].at = off + 1 BY <1>3, <3>1
    <3>4. CASE off = 0
      <4>1. s[N].lf /\ s[N].line + 1 = m BY <1>4, <3>1, <3>4
      <4> QED BY <3>2, <3>3, <3>4, <4>1 DEF Follows
    <3>5. CASE off # 0 BY <1>4, <3>2, <3>3, <3>5 DEF Follows
    <3> QED BY <3>4, <3>5
  <2>3. CASE i > N
    <3>1. i \in 1 .. N + T /\ i \notin 1 .. N BY <1>1, <2>3
    <3>2. PICK j \in 1 .. T : i = N + j BY <1>5, <3>1
    <3>3. j + 1 \in 1 .. T /\ i + 1 = N + (j + 1) BY <1>1, <3>2
    <3>4. w[i] = t[j] /\ w[i + 1] = t[j + 1] BY <1>1, <3>2, <3>3
    <3>5. off + j # lengths[m] + 1 BY <1>1, <1>3, <3>3
    <3>6. ~t[j].lf /\ t[j].line = m /\ t[j].at = off + j BY <1>3, <3>5
    <3>7. t[j + 1].line = m /\ t[j + 1].at = off + j + 1 BY <1>3, <3>3
    <3> QED BY <3>4, <3>6, <3>7 DEF Follows
  <2> QED BY <1>1, <2>1, <2>2, <2>3
<1>9. Consecutive(w, N + T, lengths)
  <2>1. \A i \in 1 .. N + T : /\ w[i].line \in 1 .. Len(lengths) /\ w[i].at > 0
                              /\ w[i].lf <=> w[i].at = lengths[w[i].line] + 1
    BY <1>6
  <2>2. \A i \in 1 .. (N + T) - 1 : Follows(w[i], w[i + 1]) BY <1>8
  <2> QED BY <1>7, <2>1, <2>2 DEF Consecutive
<1> QED BY <1>1, <1>9 DEF w

\* The next bytes of the line in hand are written.
LEMMA WriteStep == ASSUME LineInv, NEW n \in Nat \ {0}, Write(n) PROVE LineInv'
<1>1. Typed /\ Held /\ Child /\ Bounded /\ Writing /\ Sent /\ Received BY DEF LineInv
<1>2. /\ owner.pc = "writing" /\ At("writing") /\ n <= owner.left /\ wire' = wire \o Rest(n)
      /\ owner' = IF n = owner.left THEN Return(owner) ELSE [owner EXCEPT !.left = owner.left - n]
      /\ UNCHANGED <<kind, fds, buf, output, peer, taken, log>>
  BY DEF Write, At
<1> DEFINE K == log.begun[Begun]
           off == K + 1 - owner.left
<1>3. /\ Begun \in Nat \ {0} /\ K \in Nat /\ owner.left \in 1 .. K + 1
      /\ Rest(n) \in Seq(Byte) /\ Len(Rest(n)) = n
      /\ \A i \in 1 .. n : Rest(n)[i] = [line |-> Begun, at |-> off + i, lf |-> i = owner.left]
  <2>1. n \in Nat OBVIOUS
  <2> QED BY <1>1, <1>2, <2>1, RestBytes
<1>4. /\ owner'.closed = owner.closed /\ owner'.exit = owner.exit /\ owner'.torn = owner.torn
      /\ owner' \in OwnerType
      /\ owner'.pc = IF n = owner.left THEN "idle" ELSE "writing"
      /\ n # owner.left => owner'.left = owner.left - n
  <2>1. owner \in OwnerType BY <1>1 DEF Typed
  <2>2. CASE n = owner.left BY <1>2, <2>1, <2>2, ReturnFields
  <2>3. CASE n # owner.left
    <3>1. owner.left - n \in Nat BY <1>2, <1>3, <2>3
    <3> QED BY <1>2, <2>1, <2>3, <3>1 DEF OwnerType
  <2> QED BY <2>2, <2>3
<1>5. /\ wire \in Seq(Byte) /\ Len(wire) \in Nat
      /\ wire' \in Seq(Byte) /\ Len(wire') = Len(wire) + n
      /\ \A i \in 1 .. Len(wire) : wire'[i] = wire[i]
      /\ \A i \in 1 .. n : wire'[Len(wire) + i] = Rest(n)[i]
  <2> DEFINE t == Rest(n)
  <2>1. wire \in Seq(Byte) /\ t \in Seq(Byte) /\ Len(t) = n BY <1>1, <1>3 DEF Typed
  <2>2. wire' = wire \o t BY <1>2
  <2> HIDE DEF t
  <2>3. /\ wire \o t \in Seq(Byte) /\ Len(wire) \in Nat /\ Len(wire \o t) = Len(wire) + Len(t)
        /\ \A i \in 1 .. Len(wire) : (wire \o t)[i] = wire[i]
        /\ \A i \in 1 .. Len(t) : (wire \o t)[Len(wire) + i] = t[i]
    BY <2>1, Appended
  <2>4. \A i \in 1 .. n : wire'[Len(wire) + i] = t[i] BY <2>1, <2>2, <2>3
  <2> QED BY <2>1, <2>2, <2>3, <2>4 DEF t
<1>6. Typed' BY <1>1, <1>2, <1>4, <1>5 DEF Typed
<1>7. Bounded'
  <2>1. peer.read \in Nat /\ peer.read <= Len(wire) BY <1>1, Fields DEF Bounded
  <2>2. peer'.read <= Len(wire') BY <1>2, <1>5, <2>1
  <2> QED BY <1>1, <1>2, <2>2 DEF Bounded, BufferBounded
<1>8. Held' BY <1>1, <1>2, <1>4 DEF Held, At, Stdio
<1>9. Child' BY <1>1, <1>2, <1>4 DEF Child, At, Stdio, Ended
<1>10. Writing'
  <2>1. Begun' = Begun /\ log' = log BY <1>2 DEF Begun
  <2>2. n # owner.left => owner.left - n \in 1 .. K + 1 BY <1>2, <1>3
  <2> QED BY <1>3, <1>4, <2>1, <2>2 DEF Writing, At
<1>11. Sent'
  <2>1. Consecutive(wire, peer.read, log.begun)'
    <3>1. peer.read \in Nat /\ peer.read <= Len(wire) BY <1>1, Fields DEF Bounded
    <3>2. Consecutive(wire, peer.read, log.begun) BY <1>1 DEF Sent
    <3>3. \A i \in 1 .. peer.read : wire'[i] = wire[i] BY <1>5, <3>1
    <3>4. peer.read > 0 => wire'[1] = wire[1] BY <3>1, <3>3
    <3>5. \A i \in 1 .. peer.read - 1 : wire'[i] = wire[i] /\ wire'[i + 1] = wire[i + 1]
      BY <3>1, <3>3
    <3>6. Consecutive(wire', peer.read, log.begun) BY <3>2, <3>3, <3>4, <3>5 DEF Consecutive
    <3> QED BY <1>2, <3>6 DEF Consecutive
  <2>2. SUFFICES ASSUME ~Ended'
                 PROVE  /\ Consecutive(wire, Len(wire), log.begun)'
                        /\ owner'.pc = "writing" =>
                             /\ log.begun[Begun] + 1 - owner'.left # 0
                             /\ Len(wire') > 0 /\ ~wire'[Len(wire')].lf
                             /\ wire'[Len(wire')].line = Begun
                             /\ wire'[Len(wire')].at = log.begun[Begun] + 1 - owner'.left
                        /\ owner'.pc # "writing" => EndsWith(wire, Len(wire), Begun)'
    <3>1. Begun' = Begun /\ log' = log BY <1>2 DEF Begun
    <3> QED BY <2>1, <2>2, <3>1 DEF Sent, At
  <2>3. /\ Consecutive(wire, Len(wire), log.begun)
        /\ IF off = 0 THEN EndsWith(wire, Len(wire), Begun - 1)
           ELSE /\ Len(wire) > 0 /\ ~wire[Len(wire)].lf
                /\ wire[Len(wire)].line = Begun /\ wire[Len(wire)].at = off
    <3>1. ~Ended BY <1>2, <2>2 DEF Ended
    <3> QED BY <1>1, <1>2, <3>1 DEF Sent
  <2>4. /\ off \in Nat /\ off + n <= K + 1 /\ Begun \in 1 .. Len(log.begun) /\ Len(log.begun) \in Nat
        /\ \A i \in 1 .. n : (i = owner.left) <=> (off + i = K + 1)
    <3>1. Begun = Len(log.begun) BY DEF Begun
    <3>2. Begun \in Nat \ {0} /\ K \in Nat /\ owner.left \in 1 .. K + 1 /\ n <= owner.left
      BY <1>2, <1>3
    <3> HIDE DEF K
    <3>3. off \in Nat /\ off + n <= K + 1 BY <3>2
    <3>4. \A i \in 1 .. n : (i = owner.left) <=> (off + i = K + 1) BY <3>2
    <3> QED BY <3>1, <3>2, <3>3, <3>4
  <2> HIDE DEF off, K
  <2>5. \A i \in 1 .. Len(Rest(n)) : /\ Rest(n)[i].line = Begun /\ Rest(n)[i].at = off + i
                                     /\ Rest(n)[i].lf <=> off + i = K + 1
    <3> TAKE i \in 1 .. Len(Rest(n))
    <3>1. Rest(n)[i] = [line |-> Begun, at |-> off + i, lf |-> i = owner.left] /\ i \in 1 .. n
      BY <1>3
    <3>2. Rest(n)[i].line = Begun /\ Rest(n)[i].at = off + i /\ Rest(n)[i].lf = (i = owner.left)
      BY <3>1
    <3> QED BY <2>4, <3>1, <3>2
  <2>6. Consecutive(wire \o Rest(n), Len(wire \o Rest(n)), log.begun)
    <3>1. \A i \in 1 .. Len(Rest(n)) : /\ Rest(n)[i].line = Begun /\ Rest(n)[i].at = off + i
                                       /\ Rest(n)[i].lf <=> off + i = log.begun[Begun] + 1
      BY <2>5 DEF K
    <3>2. log.begun[Begun] \in Nat /\ off + Len(Rest(n)) <= log.begun[Begun] + 1 BY <1>3, <2>4 DEF K
    <3> DEFINE t == Rest(n)
               lengths == log.begun
               m == Begun
    <3>3. /\ wire \in Seq(Byte) /\ t \in Seq(Byte) /\ m \in 1 .. Len(lengths) /\ off \in Nat
          /\ lengths[m] \in Nat /\ Len(lengths) \in Nat /\ Consecutive(wire, Len(wire), lengths)
      BY <1>3, <1>5, <2>3, <2>4, <3>2
    <3>4. /\ \A i \in 1 .. Len(t) : /\ t[i].line = m /\ t[i].at = off + i
                                    /\ t[i].lf <=> off + i = lengths[m] + 1
          /\ off + Len(t) <= lengths[m] + 1
      BY <3>1, <3>2
    <3>5. IF off = 0 THEN EndsWith(wire, Len(wire), m - 1)
          ELSE Len(wire) > 0 /\ ~wire[Len(wire)].lf /\ wire[Len(wire)].line = m /\ wire[Len(wire)].at = off
      BY <2>3
    <3> HIDE DEF t, lengths, m
    <3>6. Consecutive(wire \o t, Len(wire \o t), lengths)
      BY <3>3, <3>4, <3>5, ConsecutiveAppended
    <3> QED BY <3>6 DEF t, lengths
  <2>7. Consecutive(wire, Len(wire), log.begun)' BY <1>2, <2>6
  <2>8. wire'[Len(wire')] = Rest(n)[n] /\ Len(wire') > 0 /\ n \in 1 .. Len(Rest(n))
    BY <1>3, <1>5
  <2>9. wire'[Len(wire')].line = Begun /\ wire'[Len(wire')].at = off + n
        /\ (wire'[Len(wire')].lf <=> off + n = K + 1)
    BY <2>5, <2>8
  <2>10. CASE n = owner.left
    <3>1. off + n = K + 1 BY <1>3, <2>10 DEF off
    <3>2. wire'[Len(wire')].lf /\ Len(wire') # 0 BY <2>8, <2>9, <3>1
    <3>3. Begun' = Begun BY <1>2 DEF Begun
    <3>4. EndsWith(wire, Len(wire), Begun)' BY <2>9, <3>2, <3>3 DEF EndsWith
    <3> QED BY <1>4, <2>7, <2>10, <3>4
  <2>11. CASE n # owner.left
    <3>1. /\ off + n # K + 1 /\ K + 1 - owner'.left = off + n /\ off + n # 0
      BY <1>2, <1>3, <1>4, <2>11 DEF off
    <3> QED BY <1>4, <2>7, <2>8, <2>9, <2>11, <3>1 DEF K
  <2> QED BY <2>10, <2>11
<1>12. Received'
  <2>1. Active' => Active /\ buf' = buf BY <1>2, <1>4 DEF Active, At, Stdio
  <2> QED BY <1>1, <1>2, <1>4, <2>1, ReceivedSame
<1> QED BY <1>6, <1>7, <1>8, <1>9, <1>10, <1>11, <1>12 DEF LineInv

\* The mirror reads what was written so far.
LEMMA MirrorReadsStep == ASSUME LineInv, MirrorReads PROVE LineInv'
<1>1. Typed /\ Held /\ Child /\ Bounded /\ Writing /\ Sent /\ Received BY DEF LineInv
<1>2. /\ peer.state = "running" /\ peer' = [peer EXCEPT !.read = Len(wire)]
      /\ UNCHANGED <<kind, owner, fds, buf, wire, output, taken, log>>
  BY DEF MirrorReads, PeerRuns
<1>3. Len(wire) \in Nat BY <1>1, LenProperties DEF Typed
<1>4. /\ peer'.state = peer.state /\ peer'.code = peer.code /\ peer'.put = peer.put
      /\ peer'.read = Len(wire) /\ peer'.spoken = peer.spoken /\ peer'.hit = peer.hit
      /\ peer' \in PeerType
  BY <1>1, <1>2, <1>3, Fields DEF PeerType
<1>5. Typed' /\ Bounded' BY <1>1, <1>2, <1>3, <1>4 DEF Typed, Bounded, BufferBounded
<1>6. Held' BY <1>1, <1>2 DEF Held, At, Stdio
<1>7. Child' BY <1>1, <1>2, <1>4 DEF Child, At, Stdio, Ended
<1>8. Writing' BY <1>1, <1>2 DEF Writing, At, Begun
<1>9. Sent'
  <2>1. ~Ended BY <1>2 DEF Ended
  <2>2. Consecutive(wire, Len(wire), log.begun) BY <1>1, <2>1 DEF Sent
  <2>3. Consecutive(wire, peer.read, log.begun)' BY <1>2, <1>4, <2>2 DEF Consecutive
  <2>4. Consecutive(wire, Len(wire), log.begun)' BY <1>2, <2>2 DEF Consecutive
  <2>5. Begun' = Begun /\ (At("writing")' <=> At("writing")) BY <1>2 DEF Begun, At
  <2>6. EndsWith(wire, Len(wire), Begun)' <=> EndsWith(wire, Len(wire), Begun)
    BY <1>2, <2>5 DEF EndsWith
  <2>7. EndsWith(wire, Len(wire), Begun - 1)' <=> EndsWith(wire, Len(wire), Begun - 1)
    BY <1>2, <2>5 DEF EndsWith
  <2> QED BY <1>1, <1>2, <2>1, <2>3, <2>4, <2>5, <2>6, <2>7 DEF Sent
<1>10. Received'
  <2>1. Active' => Active /\ buf' = buf BY <1>2 DEF Active, At, Stdio
  <2> QED BY <1>1, <1>2, <1>4, <2>1, ReceivedSame
<1> QED BY <1>5, <1>6, <1>7, <1>8, <1>9, <1>10 DEF LineInv

\* The mirror puts bytes into the pipe, and finishes.
LEMMA MirrorWritesStep == ASSUME LineInv, NEW n \in Nat, MirrorWrites(n) PROVE LineInv'
<1>1. Typed /\ Held /\ Child /\ Bounded /\ Writing /\ Sent /\ Received BY DEF LineInv
<1>2. /\ peer.state = "running" /\ peer' = [peer EXCEPT !.put = peer.put + n]
      /\ n <= Len(output) - peer.put
      /\ UNCHANGED <<kind, owner, fds, buf, wire, output, taken, log>>
  BY DEF MirrorWrites, PeerRuns
<1>3. peer.put \in Nat /\ Len(output) \in Nat BY <1>1, Fields, LenProperties DEF Typed
<1>4. /\ peer'.state = peer.state /\ peer'.code = peer.code /\ peer'.put = peer.put + n
      /\ peer'.read = peer.read /\ peer'.spoken = peer.spoken /\ peer'.hit = peer.hit
      /\ peer' \in PeerType
  <2>1. peer.put + n \in Nat BY <1>3
  <2>2. peer \in PeerType BY <1>1 DEF Typed
  <2> QED BY <1>2, <2>1, <2>2 DEF PeerType
<1>5. Typed' BY <1>1, <1>2, <1>4 DEF Typed
<1>6. Bounded'
  <2>1. taken \in Nat /\ taken <= peer.put BY <1>1 DEF Typed, Bounded
  <2>2. taken' <= peer'.put /\ peer'.put <= Len(output') BY <1>2, <1>3, <1>4, <2>1
  <2> QED BY <1>1, <1>2, <1>4, <2>2 DEF Bounded, BufferBounded
<1>7. Held' BY <1>1, <1>2 DEF Held, At, Stdio
<1>8. Child' BY <1>1, <1>2, <1>4 DEF Child, At, Stdio, Ended
<1>9. Writing' BY <1>1, <1>2 DEF Writing, At, Begun
<1>10. Sent'
  <2>1. (Ended => Ended') /\ (At("writing")' <=> At("writing")) BY <1>2, <1>4 DEF Ended, At
  <2> QED BY <1>1, <1>2, <1>4, <2>1, SentSame
<1>11. Received'
  <2>1. Active' => Active /\ buf' = buf BY <1>2 DEF Active, At, Stdio
  <2> QED BY <1>1, <1>2, <1>4, <2>1, ReceivedSame
<1> QED BY <1>5, <1>6, <1>7, <1>8, <1>9, <1>10, <1>11 DEF LineInv

\* The mirror ends well.
LEMMA MirrorFinishesStep == ASSUME LineInv, MirrorFinishes PROVE LineInv'
<1>1. MirrorEnds("0") /\ "0" \in Codes BY DEF MirrorFinishes, Codes
<1> QED BY <1>1, MirrorEndsStep

---------------------------------------------------------------------------
(* Reading *)

\* An overlong line, and the buffer with it, is dropped.
LEMMA DropLongStep == ASSUME LineInv, DropLong PROVE LineInv'
<1>1. Typed /\ Held /\ Child /\ Bounded /\ Writing /\ Sent /\ Received BY DEF LineInv
<1>2. /\ owner.pc = "reading" /\ owner' = [Return(owner) EXCEPT !.torn = TRUE] /\ buf' = <<>>
      /\ UNCHANGED <<kind, fds, wire, output, peer, taken, log>>
  BY DEF DropLong, At
<1>3. /\ owner'.pc = "idle" /\ owner'.closed = owner.closed /\ owner'.exit = owner.exit
      /\ owner'.torn /\ owner' \in OwnerType
  <2> DEFINE o == Return(owner)
  <2>1. owner \in OwnerType BY <1>1 DEF Typed
  <2>2. o.pc = "idle" /\ o.closed = owner.closed /\ o.exit = owner.exit /\ o \in OwnerType
    BY <2>1, ReturnFields
  <2>3. owner' = [o EXCEPT !.torn = TRUE] BY <1>2
  <2> HIDE DEF o
  <2> QED BY <2>2, <2>3 DEF OwnerType
<1>4. <<>> \in Seq(Byte) /\ Len(<<>>) = 0 BY EmptySeq
<1>5. Typed' BY <1>1, <1>2, <1>3, <1>4 DEF Typed
<1>6. Bounded'
  <2>1. Len(buf') <= MaxLine + Chunk BY <1>2, <1>4, TransportAssumption
  <2> QED BY <1>1, <1>2, <2>1 DEF Bounded, BufferBounded
<1>7. Held' BY <1>1, <1>2, <1>3 DEF Held, At, Stdio
<1>8. Child' BY <1>1, <1>2, <1>3 DEF Child, At, Stdio, Ended
<1>9. Writing' BY <1>3 DEF Writing, At
<1>10. Sent'
  <2>1. (Ended => Ended') /\ ~At("writing")' /\ ~At("writing") BY <1>2, <1>3 DEF Ended, At
  <2> QED BY <1>1, <1>2, <2>1, SentSame
<1>11. Received'
  <2>1. ~Active' BY <1>3 DEF Active
  <2>2. Consecutive(output, Len(output), peer.spoken)' /\ EndsWith(output, Len(output), Len(peer.spoken))'
    BY <1>1, <1>2 DEF Received, Consecutive, EndsWith
  <2> QED BY <1>3, <2>1, <2>2 DEF Received
<1> QED BY <1>5, <1>6, <1>7, <1>8, <1>9, <1>10, <1>11 DEF LineInv

\* Bytes taken out of others.
LEMMA Piece ==
  ASSUME NEW s \in Seq(Byte), NEW a \in Nat, NEW n \in Nat, a + n <= Len(s)
  PROVE  /\ SubSeq(s, a + 1, a + n) \in Seq(Byte) /\ Len(SubSeq(s, a + 1, a + n)) = n
         /\ \A i \in 1 .. n : SubSeq(s, a + 1, a + n)[i] = s[a + i]
<1> DEFINE first == a + 1
           last == a + n
           t == SubSeq(s, first, last)
<1>1. Len(s) \in Nat BY LenProperties
<1>2. \A i \in first .. last : s[i] \in Byte
  <2> TAKE i \in first .. last
  <2>1. i \in 1 .. Len(s) BY <1>1
  <2> QED BY <2>1, ElementOfSeq
<1>3. /\ first \in Int /\ last \in Int /\ last - first + 1 = n /\ (first <= last <=> n # 0)
      /\ \A i \in 1 .. n : first + i - 1 = a + i
  OBVIOUS
<1> HIDE DEF first, last
<1>4. /\ t \in Seq(Byte) /\ Len(t) = IF first <= last THEN last - first + 1 ELSE 0
      /\ \A i \in 1 .. last - first + 1 : t[i] = s[first + i - 1]
  BY <1>2, <1>3, SubSeqProperties
<1> HIDE DEF t
<1>5. t \in Seq(Byte) /\ Len(t) = n /\ \A i \in 1 .. n : t[i] = s[a + i] BY <1>3, <1>4
<1> QED BY <1>5 DEF t, first, last

\* A read appends to the buffer the bytes that follow those read before.
LEMMA FillStep == ASSUME LineInv, NEW n \in Nat, Fill(n) PROVE LineInv'
<1>1. Typed /\ Held /\ Child /\ Bounded /\ Writing /\ Sent /\ Received BY DEF LineInv
<1> DEFINE t == SubSeq(output, taken + 1, taken + n)
<1>2. /\ owner.pc = "reading" /\ buf' = buf \o t /\ taken' = taken + n
      /\ n <= Chunk /\ n <= peer.put - taken
      /\ UNCHANGED <<kind, owner, fds, wire, output, peer, log>>
  BY DEF Fill, At, Available
<1>3. Len(buf) <= MaxLine BY TransportAssumption, <1>1, LenProperties DEF Fill, Overlong, Typed
<1>4. /\ taken \in Nat /\ peer.put \in Nat /\ Len(output) \in Nat /\ Len(buf) \in Nat
      /\ taken + n <= peer.put /\ taken + n <= Len(output)
  <2>1. taken \in Nat /\ peer.put \in Nat /\ Len(output) \in Nat /\ Len(buf) \in Nat
    BY <1>1, Fields, LenProperties DEF Typed
  <2>2. peer.put <= Len(output) BY <1>1 DEF Bounded
  <2> QED BY <1>2, <2>1, <2>2
<1>5. t \in Seq(Byte) /\ Len(t) = n /\ \A i \in 1 .. n : t[i] = output[taken + i]
  BY <1>1, <1>4, Piece DEF Typed
<1> HIDE DEF t
<1>6. /\ buf' \in Seq(Byte) /\ Len(buf') = Len(buf) + n
      /\ \A i \in 1 .. Len(buf) : buf'[i] = buf[i]
      /\ \A i \in 1 .. n : buf'[Len(buf) + i] = output[taken + i]
  <2>1. buf \in Seq(Byte) BY <1>1 DEF Typed
  <2>2. /\ buf \o t \in Seq(Byte) /\ Len(buf \o t) = Len(buf) + Len(t)
        /\ \A i \in 1 .. Len(buf) : (buf \o t)[i] = buf[i]
        /\ \A i \in 1 .. Len(t) : (buf \o t)[Len(buf) + i] = t[i]
    BY <1>5, <2>1, Appended
  <2>3. \A i \in 1 .. n : (buf \o t)[Len(buf) + i] = output[taken + i] BY <1>5, <2>2
  <2> QED BY <1>2, <1>5, <2>2, <2>3
<1>7. Typed' BY <1>1, <1>2, <1>4, <1>6 DEF Typed
<1>8. Bounded'
  <2>1. Len(buf') <= MaxLine + Chunk BY <1>2, <1>3, <1>4, <1>6, TransportAssumption
  <2> QED BY <1>1, <1>2, <1>4, <2>1 DEF Bounded, BufferBounded
<1>9. Held' BY <1>1, <1>2 DEF Held, Child, At, Stdio
<1>10. Child' BY <1>1, <1>2 DEF Child, At, Stdio, Ended
<1>11. Writing' BY <1>2 DEF Writing, At
<1>12. Sent'
  <2>1. (Ended => Ended') /\ ~At("writing")' /\ ~At("writing") BY <1>2 DEF Ended, At
  <2> QED BY <1>1, <1>2, <2>1, SentSame
<1>13. Received'
  <2>1. /\ Consecutive(output, Len(output), peer.spoken)' /\ EndsWith(output, Len(output), Len(peer.spoken))'
        /\ ~owner'.torn => \A i \in 1 .. Len(log'.returned) : HandedOut(i)'
    <3>1. output' = output /\ peer' = peer /\ log' = log /\ owner' = owner /\ kind' = kind BY <1>2
    <3>2. \A i : HandedOut(i)' <=> HandedOut(i) BY <3>1 DEF HandedOut, Number
    <3>3. Consecutive(output, Len(output), peer.spoken)' /\ EndsWith(output, Len(output), Len(peer.spoken))'
      BY <1>1, <3>1 DEF Received, Consecutive, EndsWith
    <3> QED BY <1>1, <3>1, <3>2, <3>3 DEF Received
  <2>2. Active' => Active BY <1>2 DEF Active, At, Stdio
  <2>3. Start \in Int /\ Start' = Start BY <1>2, <1>4, <1>6 DEF Start
  <2>4. Done' = Done BY <1>2, <2>3 DEF Done
  <2>5. ASSUME Active
        PROVE  Len(buf') <= taken' /\ \A i \in 1 .. Len(buf') : buf'[i] = output[Start + i]
    <3>1. Len(buf) <= taken /\ \A i \in 1 .. Len(buf) : buf[i] = output[Start + i]
      BY <1>1, <2>5 DEF Received
    <3>2. ASSUME NEW i \in 1 .. Len(buf') PROVE buf'[i] = output[Start + i]
      <4>1. CASE i <= Len(buf) BY <1>4, <1>6, <3>1, <4>1
      <4>2. CASE i > Len(buf)
        <5> DEFINE j == i - Len(buf)
        <5>1. j \in 1 .. n /\ i = Len(buf) + j /\ Start + i = taken + j
          BY <1>4, <1>6, <4>2 DEF Start
        <5> HIDE DEF j
        <5> QED BY <1>6, <5>1
      <4> QED BY <1>4, <1>6, <4>1, <4>2
    <3> QED BY <1>2, <1>4, <1>6, <3>1, <3>2
  <2>6. Active => /\ Start > 0 => output[Start].lf
                  /\ \A i \in 1 .. Len(log.returned) : Number(i) <= Done
                  /\ \A m \in 1 .. Done : \/ \E i \in 1 .. Len(log.returned) : Number(i) = m
                                          \/ peer.spoken[m] = 0 /\ kind # "tls"
    BY <1>1 DEF Received
  <2> QED BY <1>2, <2>1, <2>2, <2>3, <2>4, <2>5, <2>6 DEF Received, Number
<1> QED BY <1>7, <1>8, <1>9, <1>10, <1>11, <1>12, <1>13 DEF LineInv

\* Induction, and the least member of a set of numbers.
LEMMA Least ==
  ASSUME NEW T \in SUBSET Nat, T # {}
  PROVE  \E x \in T : \A y \in T : x <= y
<1> DEFINE R == OpToRel(<, Nat)
<1>1. IsWellFoundedOn(R, Nat) BY NatLessThanWellFounded
<1>2. \E x \in T : \A y \in T : ~ (<<y, x>> \in R)
  <2> HIDE DEF R
  <2> QED BY <1>1, WFMin
<1>3. \A x, y \in Nat : y < x => <<y, x>> \in R
  BY DEF OpToRel
<1> HIDE DEF R
<1>4. PICK x \in T : \A y \in T : ~ (<<y, x>> \in R) BY <1>2
<1>5. ASSUME NEW y \in T PROVE x <= y
  <2>1. x \in Nat /\ y \in Nat OBVIOUS
  <2>2. ~(y < x) BY <1>3, <1>4, <2>1
  <2> QED BY <2>1, <2>2
<1> QED BY <1>5

\* A set that holds 0 and with a number the next one holds all.
LEMMA Induct ==
  ASSUME NEW S \in SUBSET Nat, 0 \in S, \A n \in S : n + 1 \in S
  PROVE  S = Nat
<1>1. SUFFICES ASSUME Nat \ S # {} PROVE FALSE OBVIOUS
<1>2. PICK x \in Nat \ S : \A y \in Nat \ S : x <= y BY <1>1, Least
<1>3. x # 0 /\ x - 1 \in Nat BY <1>2
<1>4. x - 1 \in S BY <1>2, <1>3
<1> QED BY <1>2, <1>3, <1>4

\* The line feed that recv_line finds is the first.
LEMMA LfAtFirst ==
  ASSUME Typed, HasLine
  PROVE  LfAt \in 1 .. Len(buf) /\ buf[LfAt].lf /\ \A j \in 1 .. LfAt - 1 : ~buf[j].lf
<1> DEFINE T == {i \in 1 .. Len(buf) : buf[i].lf}
<1>1. Len(buf) \in Nat BY LenProperties DEF Typed
<1>2. T \in SUBSET Nat /\ T # {} BY <1>1 DEF HasLine
<1> HIDE DEF T
<1>3. PICK x \in T : \A y \in T : x <= y BY <1>2, Least
<1>4. x \in 1 .. Len(buf) /\ buf[x].lf BY <1>3 DEF T
<1>5. ASSUME NEW j \in 1 .. x - 1, buf[j].lf PROVE FALSE
  <2>1. j \in 1 .. Len(buf) /\ ~(x <= j) BY <1>1, <1>4
  <2>2. j \in T BY <1>5, <2>1 DEF T
  <2> QED BY <1>3, <2>1, <2>2
<1> QED BY <1>4, <1>5 DEF LfAt

\* The buffer up to its first line feed is the line after those done, whole.
LEMMA LineInBuffer ==
  ASSUME LineInv, Active, HasLine
  PROVE  /\ Done \in Nat /\ Done + 1 \in 1 .. Len(peer.spoken) /\ LfAt = peer.spoken[Done + 1] + 1
         /\ peer.spoken[Done + 1] \in Nat
         /\ \A i \in 1 .. LfAt : buf[i].line = Done + 1 /\ buf[i].at = i
         /\ Start \in Nat /\ Start + LfAt <= Len(output)
         /\ buf[LfAt] = output[Start + LfAt]
<1>1. Typed /\ Bounded /\ Received BY DEF LineInv
<1>2. LfAt \in 1 .. Len(buf) /\ buf[LfAt].lf /\ \A j \in 1 .. LfAt - 1 : ~buf[j].lf
  BY <1>1, LfAtFirst
<1> DEFINE A == LfAt
<1> HIDE DEF A
<1>3. A \in Nat /\ A >= 1 /\ A <= Len(buf) /\ Len(buf) \in Nat
  <2>1. Len(buf) \in Nat BY <1>1, LenProperties DEF Typed
  <2> QED BY <1>2, <2>1 DEF A
<1>4. /\ Start \in Nat /\ Start + A <= Len(output) /\ Len(output) \in Nat
      /\ \A i \in 1 .. A : buf[i] = output[Start + i] /\ Start + i \in 1 .. Len(output)
      /\ Start > 0 => output[Start].lf
  <2>1. taken \in Nat /\ peer.put \in Nat /\ Len(output) \in Nat
    BY <1>1, Fields, LenProperties DEF Typed
  <2>2. taken <= peer.put /\ peer.put <= Len(output) BY <1>1 DEF Bounded
  <2>3. /\ Len(buf) <= taken /\ \A i \in 1 .. Len(buf) : buf[i] = output[Start + i]
        /\ Start > 0 => output[Start].lf
    BY <1>1 DEF Received
  <2>4. Start \in Nat /\ Start + Len(buf) <= Len(output)
    <3>1. Start = taken - Len(buf) BY DEF Start
    <3>2. Len(buf) \in Nat /\ Len(buf) <= taken BY <1>3, <2>3
    <3> QED BY <2>1, <2>2, <3>1, <3>2
  <2>5. \A i \in 1 .. A : i \in 1 .. Len(buf) /\ Start + i \in 1 .. Len(output) BY <1>3, <2>1, <2>4
  <2>6. Start + A <= Len(output) BY <1>3, <2>1, <2>4
  <2> QED BY <2>1, <2>3, <2>4, <2>5, <2>6
<1>5. /\ \A i \in 1 .. Len(output) : /\ output[i].line \in 1 .. Len(peer.spoken) /\ output[i].at > 0
                                     /\ output[i].lf <=> output[i].at = peer.spoken[output[i].line] + 1
      /\ Len(output) > 0 => output[1].line = 1 /\ output[1].at = 1
      /\ \A i \in 1 .. Len(output) - 1 : Follows(output[i], output[i + 1])
  BY <1>1 DEF Received, Consecutive
<1>6. Len(peer.spoken) \in Nat /\ \A i \in 1 .. Len(peer.spoken) : peer.spoken[i] \in Nat
  <2>1. peer.spoken \in Seq(LineLengths) BY <1>1, Fields
  <2>2. \A i \in 1 .. Len(peer.spoken) : peer.spoken[i] \in LineLengths BY <2>1, ElementOfSeq
  <2> QED BY <2>1, <2>2, LenProperties, TransportAssumption
<1>7. Done \in Nat
  <2>1. Start > 0 => Start \in 1 .. Len(output) BY <1>3, <1>4
  <2> QED BY <1>4, <1>5, <1>6, <2>1 DEF Done
<1> DEFINE Placed == {k \in Nat : k < A => buf[k + 1].line = Done + 1 /\ buf[k + 1].at = k + 1}
<1>8. 0 \in Placed
  <2>1. 1 \in 1 .. A /\ Len(output) > 0 BY <1>3, <1>4
  <2>2. buf[1] = output[Start + 1] BY <1>4, <2>1
  <2>3. CASE Start = 0 BY <1>5, <2>1, <2>2, <2>3 DEF Done
  <2>4. CASE Start > 0
    <3>1. Start \in 1 .. Len(output) - 1 BY <1>3, <1>4, <2>4
    <3>2. Follows(output[Start], output[Start + 1]) /\ output[Start].lf BY <1>4, <1>5, <2>4, <3>1
    <3>3. Done = output[Start].line BY <2>4 DEF Done
    <3> QED BY <2>2, <3>2, <3>3 DEF Follows
  <2> QED BY <1>4, <2>3, <2>4
<1>9. ASSUME NEW k \in Placed PROVE k + 1 \in Placed
  <2>1. k \in Nat OBVIOUS
  <2>2. SUFFICES ASSUME k + 1 < A
                 PROVE  buf[(k + 1) + 1].line = Done + 1 /\ buf[(k + 1) + 1].at = (k + 1) + 1
    BY <2>1
  <2>3. buf[k + 1].line = Done + 1 /\ buf[k + 1].at = k + 1 BY <1>3, <2>1, <2>2
  <2> HIDE DEF Placed
  <2>4. k + 1 \in 1 .. A - 1 BY <1>3, <2>1, <2>2
  <2>5. ~buf[k + 1].lf BY <1>2, <2>4 DEF A
  <2>6. k + 1 \in 1 .. A /\ (k + 1) + 1 \in 1 .. A BY <1>3, <2>1, <2>2
  <2> DEFINE j == Start + (k + 1)
  <2>7. buf[k + 1] = output[j] /\ buf[(k + 1) + 1] = output[Start + ((k + 1) + 1)] BY <1>4, <2>6
  <2>8. Start + ((k + 1) + 1) = j + 1 /\ j \in 1 .. Len(output) - 1 BY <1>3, <1>4, <2>1, <2>2
  <2> HIDE DEF j
  <2>9. Follows(output[j], output[j + 1]) BY <1>5, <2>8
  <2>10. Follows(buf[k + 1], buf[(k + 1) + 1]) BY <2>7, <2>8, <2>9
  <2> QED BY <2>3, <2>5, <2>10 DEF Follows
<1>10. Placed = Nat
  <2>1. Placed \in SUBSET Nat OBVIOUS
  <2> HIDE DEF Placed
  <2> QED BY <1>8, <1>9, <2>1, Induct
<1>11. ASSUME NEW i \in 1 .. A PROVE buf[i].line = Done + 1 /\ buf[i].at = i
  <2>1. i - 1 \in Nat /\ i - 1 < A /\ (i - 1) + 1 = i BY <1>3
  <2>2. i - 1 \in Placed BY <1>10, <2>1
  <2> QED BY <2>1, <2>2
<1> HIDE DEF Placed
<1>12. A \in 1 .. A /\ buf[A] = output[Start + A] /\ Start + A \in 1 .. Len(output) BY <1>3, <1>4
<1>13. buf[A].line = Done + 1 /\ buf[A].at = A /\ buf[A].lf BY <1>2, <1>11, <1>12 DEF A
<1>14. Done + 1 \in 1 .. Len(peer.spoken) /\ A = peer.spoken[Done + 1] + 1
  BY <1>5, <1>12, <1>13
<1>15. peer.spoken[Done + 1] \in Nat BY <1>6, <1>14
<1> QED BY <1>4, <1>7, <1>11, <1>12, <1>14, <1>15 DEF A

\* What recv_line takes out of the buffer, and what it leaves.
LEMMA Taken ==
  ASSUME Typed, HasLine
  PROVE  /\ SubSeq(buf, 1, LfAt - 1) \in Seq(Byte) /\ Len(SubSeq(buf, 1, LfAt - 1)) = LfAt - 1
         /\ \A i \in 1 .. LfAt - 1 : SubSeq(buf, 1, LfAt - 1)[i] = buf[i]
         /\ SubSeq(buf, LfAt + 1, Len(buf)) \in Seq(Byte)
         /\ Len(SubSeq(buf, LfAt + 1, Len(buf))) = Len(buf) - LfAt
         /\ \A i \in 1 .. Len(buf) - LfAt : SubSeq(buf, LfAt + 1, Len(buf))[i] = buf[LfAt + i]
         /\ LfAt \in 1 .. Len(buf) /\ Len(buf) \in Nat /\ buf[LfAt] \in Byte
<1> DEFINE A == LfAt
           K == A - 1
           M == Len(buf) - A
<1>1. buf \in Seq(Byte) /\ Len(buf) \in Nat /\ A \in 1 .. Len(buf)
  BY LfAtFirst, LenProperties DEF Typed
<1>2. buf[A] \in Byte BY <1>1, ElementOfSeq
<1> HIDE DEF A
<1>3. K \in Nat /\ M \in Nat /\ A \in Nat /\ 0 + K <= Len(buf) /\ A + M <= Len(buf) BY <1>1
<1>4. /\ A - 1 = 0 + K /\ Len(buf) = A + M /\ 1 = 0 + 1
      /\ \A i \in 1 .. K : 0 + i = i
  BY <1>1
<1> HIDE DEF K, M
<1>5. /\ SubSeq(buf, 0 + 1, 0 + K) \in Seq(Byte) /\ Len(SubSeq(buf, 0 + 1, 0 + K)) = K
      /\ \A i \in 1 .. K : SubSeq(buf, 0 + 1, 0 + K)[i] = buf[0 + i]
  BY <1>1, <1>3, Piece
<1>6. /\ SubSeq(buf, A + 1, A + M) \in Seq(Byte) /\ Len(SubSeq(buf, A + 1, A + M)) = M
      /\ \A i \in 1 .. M : SubSeq(buf, A + 1, A + M)[i] = buf[A + i]
  BY <1>1, <1>3, Piece
<1>7. SubSeq(buf, 1, A - 1) = SubSeq(buf, 0 + 1, 0 + K) BY <1>4
<1>8. SubSeq(buf, A + 1, Len(buf)) = SubSeq(buf, A + 1, A + M) BY <1>4
<1>9. /\ SubSeq(buf, 1, A - 1) \in Seq(Byte) /\ Len(SubSeq(buf, 1, A - 1)) = K
      /\ \A i \in 1 .. K : SubSeq(buf, 1, A - 1)[i] = buf[i]
  BY <1>4, <1>5, <1>7
<1>10. /\ SubSeq(buf, A + 1, Len(buf)) \in Seq(Byte) /\ Len(SubSeq(buf, A + 1, Len(buf))) = M
       /\ \A i \in 1 .. M : SubSeq(buf, A + 1, Len(buf))[i] = buf[A + i]
  BY <1>6, <1>8
<1> QED BY <1>1, <1>2, <1>9, <1>10 DEF A, K, M

\* The text of the line is its payload.
LEMMA LineText ==
  ASSUME LineInv, Active, HasLine
  PROVE  SubSeq(buf, 1, LfAt - 1) = Payload(Done + 1, peer.spoken[Done + 1])
<1> DEFINE K == peer.spoken[Done + 1]
           N == Done + 1
           t == SubSeq(buf, 1, LfAt - 1)
           u == Payload(N, K)
<1>1. Typed BY DEF LineInv
<1>2. /\ N \in Nat /\ K \in Nat /\ LfAt - 1 = K
      /\ \A i \in 1 .. K : i \in 1 .. LfAt /\ buf[i].line = N /\ buf[i].at = i
  <2>1. /\ Done \in Nat /\ K \in Nat /\ LfAt = K + 1
        /\ \A i \in 1 .. LfAt : buf[i].line = N /\ buf[i].at = i
    BY LineInBuffer
  <2> HIDE DEF K
  <2>2. N \in Nat /\ LfAt - 1 = K /\ \A i \in 1 .. K : i \in 1 .. LfAt BY <2>1
  <2> HIDE DEF N
  <2> QED BY <2>1, <2>2
<1>3. /\ t \in Seq(Byte) /\ Len(t) = K /\ \A i \in 1 .. K : t[i] = buf[i]
  BY <1>1, <1>2, Taken
<1>4. \A i \in 1 .. K : ~buf[i].lf BY <1>1, <1>2, LfAtFirst
<1> HIDE DEF N, K, t
<1>5. u = [i \in 1 .. K |-> [line |-> N, at |-> i, lf |-> FALSE]] BY DEF Payload
<1>6. \A i \in 1 .. K : [line |-> N, at |-> i, lf |-> FALSE] \in Byte BY <1>2 DEF Byte
<1>7. u \in Seq(Byte) /\ Len(u) = K /\ \A i \in 1 .. K : u[i] = [line |-> N, at |-> i, lf |-> FALSE]
  BY <1>2, <1>5, <1>6
<1>8. ASSUME NEW i \in 1 .. K PROVE t[i] = u[i]
  <2>1. t[i] \in Byte BY <1>3, ElementOfSeq
  <2>2. t[i].line = N /\ t[i].at = i /\ ~t[i].lf BY <1>2, <1>3, <1>4
  <2>3. t[i] = [line |-> N, at |-> i, lf |-> FALSE] BY <2>1, <2>2 DEF Byte
  <2> QED BY <1>7, <2>3
<1>9. t = u BY <1>3, <1>7, <1>8, SeqEqual
<1> QED BY <1>9 DEF t, N, K

\* A line leaves the buffer: it is handed out, or it is a blank one that is not.
Out == [text |-> SubSeq(buf, 1, LfAt - 1), feed |-> buf[LfAt]]
\* The line after those done is done then, and handed out unless it is a blank one.
LEMMA DeliverReceived ==
  ASSUME LineInv, HasLine, ~owner.torn => Active,
         buf' = SubSeq(buf, LfAt + 1, Len(buf)), output' = output, taken' = taken, kind' = kind,
         peer'.spoken = peer.spoken, owner'.torn = owner.torn,
         \/ log'.returned = Append(log.returned, Out)
         \/ log'.returned = log.returned /\ SubSeq(buf, 1, LfAt - 1) = <<>> /\ kind # "tls"
  PROVE  Received'
<1>1. Typed /\ Bounded /\ Received BY DEF LineInv
<1>2. Consecutive(output, Len(output), peer.spoken)' /\ EndsWith(output, Len(output), Len(peer.spoken))'
  BY <1>1 DEF Received, Consecutive, EndsWith
<1>3. CASE owner.torn BY <1>2, <1>3 DEF Received, Active
<1>4. CASE ~owner.torn
  <2> DEFINE N == Done + 1
             R == Len(log.returned)
  <2>1. Active BY <1>4
  <2>2. /\ Done \in Nat /\ N \in 1 .. Len(peer.spoken) /\ LfAt = peer.spoken[N] + 1
        /\ peer.spoken[N] \in Nat /\ buf[LfAt].line = N
        /\ Start \in Nat /\ Start + LfAt <= Len(output) /\ buf[LfAt] = output[Start + LfAt]
    <3>1. LfAt \in 1 .. LfAt BY <1>1, LfAtFirst, LenProperties DEF Typed
    <3> QED BY <2>1, <3>1, LineInBuffer
  <2>3. SubSeq(buf, 1, LfAt - 1) = Payload(N, peer.spoken[N]) BY <2>1, LineText
  <2>4. /\ Len(buf') = Len(buf) - LfAt /\ LfAt \in 1 .. Len(buf) /\ Len(buf) \in Nat
        /\ \A i \in 1 .. Len(buf) - LfAt : buf'[i] = buf[LfAt + i]
        /\ buf[LfAt].lf
    BY <1>1, Taken, LfAtFirst
  <2>5. /\ taken \in Nat /\ Len(buf) <= taken /\ \A i \in 1 .. Len(buf) : buf[i] = output[Start + i]
        /\ \A i \in 1 .. R : HandedOut(i) /\ Number(i) <= Done
        /\ \A n \in 1 .. Done : \/ \E i \in 1 .. R : Number(i) = n
                                \/ peer.spoken[n] = 0 /\ kind # "tls"
    BY <1>1, <1>4, <2>1 DEF Received, Typed
  <2>6. Start' = Start + LfAt /\ Start' > 0
    <3>1. Start' = taken - (Len(buf) - LfAt) /\ Start = taken - Len(buf) BY <2>4 DEF Start
    <3>2. LfAt \in Nat /\ LfAt > 0 BY <2>4
    <3>3. Len(buf) \in Nat /\ taken \in Nat /\ Start \in Nat BY <2>2, <2>4, <2>5
    <3>4. taken - (Len(buf) - LfAt) = (taken - Len(buf)) + LfAt BY <3>2, <3>3
    <3>5. Start' = Start + LfAt BY <3>1, <3>4
    <3> QED BY <3>2, <3>3, <3>5
  <2>7. Done' = N /\ output'[Start'].lf
    <3>1. output'[Start'] = buf[LfAt] BY <2>2, <2>6
    <3>2. Start' # 0 BY <2>2, <2>4, <2>6
    <3> QED BY <2>2, <2>4, <3>1, <3>2 DEF Done
  <2>8. Len(buf') <= taken' /\ \A i \in 1 .. Len(buf') : buf'[i] = output'[Start' + i]
    <3>1. Len(buf') <= taken' BY <2>4, <2>5
    <3>2. ASSUME NEW i \in 1 .. Len(buf') PROVE buf'[i] = output'[Start' + i]
      <4> DEFINE j == LfAt + i
      <4>1. buf'[i] = buf[j] /\ j \in 1 .. Len(buf) BY <2>4
      <4>2. Start \in Nat /\ LfAt \in Nat /\ Start' = Start + LfAt /\ i \in Nat BY <2>2, <2>4, <2>6
      <4>3. Start' + i = Start + j BY <4>2
      <4> HIDE DEF j
      <4> QED BY <2>5, <4>1, <4>3
    <3> QED BY <3>1, <3>2
  <2>9. R \in Nat /\ log.returned \in Seq(Handed) BY <1>1, Fields, LenProperties
  <2>10. CASE log'.returned = Append(log.returned, Out)
    <3>1. Out \in Handed
      BY <1>1, Taken DEF Out, Handed
    <3>2. /\ Len(log'.returned) = R + 1 /\ log'.returned[R + 1] = Out
          /\ \A i \in 1 .. R : log'.returned[i] = log.returned[i]
      BY <2>9, <2>10, <3>1, AppendProperties
    <3>3. Out.text = Payload(N, peer.spoken[N]) /\ Out.feed.line = N BY <2>2, <2>3 DEF Out
    <3>4. /\ \A i \in 1 .. R : Number(i)' = Number(i)
          /\ \A i \in Nat : i = R + 1 => Number(i)' = N
      BY <3>2, <3>3 DEF Number
    <3> HIDE DEF N, R
    <3>5. ASSUME NEW i \in 1 .. R PROVE HandedOut(i)'
      <4>1. HandedOut(i) BY <2>5
      <4>2. \A j \in 1 .. i - 1 : j \in 1 .. R BY <2>9
      <4>3. \A j \in 1 .. i - 1 : Number(j)' = Number(j) BY <3>4, <4>2
      <4>4. Number(i)' = Number(i) /\ log'.returned[i] = log.returned[i] BY <3>2, <3>4
      <4> QED BY <4>1, <4>3, <4>4 DEF HandedOut
    <3>6. ASSUME NEW r \in Nat, r = R + 1 PROVE HandedOut(r)'
      <4>1. \A j \in 1 .. r - 1 : j \in 1 .. R BY <2>9, <3>6
      <4>2. \A j \in 1 .. r - 1 : Number(j)' < N
        <5> TAKE j \in 1 .. r - 1
        <5>1. j \in 1 .. R BY <4>1
        <5>2. HandedOut(j) /\ Number(j) <= Done /\ Number(j)' = Number(j) BY <2>5, <3>4, <5>1
        <5>3. Number(j) \in 1 .. Len(peer.spoken) BY <5>2 DEF HandedOut
        <5>4. Number(j) \in Nat BY <5>3
        <5> QED BY <2>2, <5>2, <5>4 DEF N
      <4>3. \A n \in 1 .. N - 1 : \/ \E j \in 1 .. r - 1 : Number(j)' = n
                                  \/ peer.spoken[n] = 0 /\ kind # "tls"
        <5> TAKE n \in 1 .. N - 1
        <5>1. n \in 1 .. Done BY <2>2 DEF N
        <5>2. CASE \E j \in 1 .. R : Number(j) = n
          <6>1. PICK j \in 1 .. R : Number(j) = n BY <5>2
          <6>2. j \in 1 .. r - 1 /\ Number(j)' = n BY <2>9, <3>4, <3>6, <6>1
          <6> QED BY <6>2
        <5> QED BY <2>5, <5>1, <5>2
      <4>4. log'.returned[r].text = Payload(N, peer.spoken[N]) /\ Number(r)' = N BY <3>2, <3>3, <3>4, <3>6
      <4> QED BY <2>2, <4>2, <4>3, <4>4 DEF HandedOut
    <3>7. \A i \in 1 .. Len(log'.returned) : i \in 1 .. R \/ (i \in Nat /\ i = R + 1)
      BY <2>9, <3>2
    <3>8. \A i \in 1 .. Len(log'.returned) : HandedOut(i)' BY <3>5, <3>6, <3>7
    <3>9. \A i \in 1 .. Len(log'.returned) : Number(i)' <= N
      <4> TAKE i \in 1 .. Len(log'.returned)
      <4>1. CASE i \in 1 .. R
        <5>1. Number(i)' = Number(i) /\ Number(i) <= Done /\ HandedOut(i) BY <2>5, <3>4, <4>1
        <5>2. Number(i) \in 1 .. Len(peer.spoken) BY <5>1 DEF HandedOut
        <5> QED BY <2>2, <5>1, <5>2 DEF N
      <4>2. CASE i \in Nat /\ i = R + 1
        <5>1. Number(i)' = N BY <3>4, <4>2
        <5> QED BY <2>2, <5>1 DEF N
      <4> QED BY <3>7, <4>1, <4>2
    <3>10. \A n \in 1 .. N : \/ \E i \in 1 .. Len(log'.returned) : Number(i)' = n
                             \/ peer.spoken[n] = 0 /\ kind # "tls"
      <4> TAKE n \in 1 .. N
      <4>1. CASE n = N
        <5>1. PICK r \in Nat : r = R + 1 BY <2>9
        <5>2. r \in 1 .. Len(log'.returned) BY <2>9, <3>2, <5>1
        <5>3. Number(r)' = n BY <3>4, <4>1, <5>1
        <5> QED BY <5>2, <5>3
      <4>2. CASE n # N
        <5>1. n \in 1 .. Done BY <2>2, <4>2 DEF N
        <5>2. CASE \E j \in 1 .. R : Number(j) = n
          <6>1. PICK j \in 1 .. R : Number(j) = n BY <5>2
          <6>2. j \in 1 .. Len(log'.returned) /\ Number(j)' = n BY <2>9, <3>2, <3>4, <6>1
          <6> QED BY <6>2
        <5> QED BY <2>5, <5>1, <5>2
      <4> QED BY <4>1, <4>2
    <3> QED BY <1>2, <2>6, <2>7, <2>8, <3>8, <3>9, <3>10 DEF Received
  <2>11. CASE log'.returned = log.returned /\ SubSeq(buf, 1, LfAt - 1) = <<>> /\ kind # "tls"
    <3>1. peer.spoken[N] = 0
      <4> DEFINE t == SubSeq(buf, 1, LfAt - 1)
      <4>1. Len(t) = LfAt - 1 /\ t = <<>> BY <1>1, <2>11, Taken
      <4> HIDE DEF t
      <4>2. Len(t) = 0 BY <4>1, EmptySeq
      <4> HIDE DEF N
      <4>3. LfAt = peer.spoken[N] + 1 /\ peer.spoken[N] \in Nat BY <2>2
      <4> QED BY <4>1, <4>2, <4>3
    <3>2. \A i : Number(i)' = Number(i) BY <2>11 DEF Number
    <3>3. \A i : HandedOut(i)' <=> HandedOut(i) BY <2>11, <3>2 DEF HandedOut
    <3>4. \A i \in 1 .. R : Number(i) <= N
      <4> TAKE i \in 1 .. R
      <4>1. Number(i) <= Done /\ HandedOut(i) BY <2>5
      <4>2. Number(i) \in 1 .. Len(peer.spoken) BY <4>1 DEF HandedOut
      <4> QED BY <2>2, <4>1, <4>2
    <3>5. \A n \in 1 .. N : n \in 1 .. Done \/ n = N BY <2>2
    <3> HIDE DEF N, R
    <3>6. \A n \in 1 .. N : \/ \E i \in 1 .. R : Number(i) = n
                            \/ peer.spoken[n] = 0 /\ kind # "tls"
      BY <2>5, <2>11, <3>1, <3>5
    <3>7. Len(log'.returned) = R BY <2>11 DEF R
    <3> QED BY <1>2, <2>5, <2>6, <2>7, <2>8, <3>2, <3>3, <3>4, <3>6, <3>7 DEF Received
  <2> QED BY <2>10, <2>11
<1> QED BY <1>3, <1>4

\* recv_line returns a line, or takes a blank one for an end of file.
LEMMA DeliverStep == ASSUME LineInv, Deliver PROVE LineInv'
<1>1. Typed /\ Held /\ Child /\ Bounded /\ Writing /\ Sent /\ Received BY DEF LineInv
<1> DEFINE line == SubSeq(buf, 1, LfAt - 1)
<1>2. /\ owner.pc = "reading" /\ HasLine /\ buf' = SubSeq(buf, LfAt + 1, Len(buf))
      /\ UNCHANGED <<kind, fds, wire, output, taken>>
  BY DEF Deliver, At
<1>3. \/ /\ log' = [log EXCEPT !.returned = Append(log.returned, Out)]
         /\ owner' = Return(owner) /\ peer' = peer
      \/ /\ line = <<>> /\ kind # "tls" /\ log' = log
         /\ owner' = Return(TryWait(owner)) /\ Collect
  BY DEF Deliver, Out
<1> HIDE DEF line
<1>4. /\ owner'.pc = "idle" /\ owner'.closed = owner.closed /\ owner'.torn = owner.torn
      /\ owner' \in OwnerType /\ peer' \in PeerType
      /\ peer'.put = peer.put /\ peer'.read = peer.read /\ peer'.spoken = peer.spoken
      /\ (Ended' <=> Ended) /\ Child'
      /\ log'.begun = log.begun /\ log' \in LogType
      /\ \/ log'.returned = Append(log.returned, Out)
         \/ log'.returned = log.returned /\ line = <<>> /\ kind # "tls"
  <2>1. CASE /\ log' = [log EXCEPT !.returned = Append(log.returned, Out)]
             /\ owner' = Return(owner) /\ peer' = peer
    <3>1. log.returned \in Seq(Handed) /\ log \in LogType /\ owner \in OwnerType /\ peer \in PeerType
      BY <1>1, Fields DEF Typed
    <3>2. Out \in Handed BY <1>1, <1>2, Taken DEF Out, Handed
    <3>3. Append(log.returned, Out) \in Seq(Handed) BY <3>1, <3>2, AppendProperties
    <3>4. /\ log'.returned = Append(log.returned, Out) /\ log'.begun = log.begun
          /\ log'.closes = log.closes /\ log' \in LogType
      BY <2>1, <3>1, <3>3 DEF LogType
    <3>5. /\ owner'.pc = "idle" /\ owner'.closed = owner.closed /\ owner'.torn = owner.torn
          /\ owner'.exit = owner.exit /\ owner' \in OwnerType
      BY <2>1, <3>1, ReturnFields
    <3>6. Ended' <=> Ended BY <2>1 DEF Ended
    <3>7. Child' BY <1>1, <1>2, <2>1, <3>4, <3>5 DEF Child, At, Stdio, Ended
    <3> QED BY <2>1, <3>1, <3>4, <3>5, <3>6, <3>7
  <2>2. CASE /\ line = <<>> /\ kind # "tls" /\ log' = log
             /\ owner' = Return(TryWait(owner)) /\ Collect
    <3>1. log \in LogType BY <1>1 DEF Typed
    <3>2. /\ owner'.pc = "idle" /\ owner'.closed = owner.closed /\ owner'.torn = owner.torn
          /\ owner' \in OwnerType /\ peer' \in PeerType
          /\ peer'.put = peer.put /\ peer'.read = peer.read /\ peer'.spoken = peer.spoken
          /\ (Ended' <=> Ended) /\ Child'
      BY <1>1, <1>2, <2>2, Collecting
    <3> QED BY <2>2, <3>1, <3>2
  <2> QED BY <1>3, <2>1, <2>2
<1>5. buf' \in Seq(Byte) /\ Len(buf') <= Len(buf) /\ Len(buf) \in Nat /\ Len(buf') \in Nat
  BY <1>1, <1>2, Taken
<1>6. Typed' BY <1>1, <1>2, <1>4, <1>5 DEF Typed
<1>7. Bounded'
  <2>1. Len(buf') <= MaxLine + Chunk
    <3>1. Len(buf) <= MaxLine + Chunk BY <1>1 DEF Bounded, BufferBounded
    <3>2. MaxLine + Chunk \in Nat BY TransportAssumption
    <3> QED BY <1>5, <3>1, <3>2
  <2> QED BY <1>1, <1>2, <1>4, <2>1 DEF Bounded, BufferBounded
<1>8. ~Stdio => ~owner.closed BY <1>1, <1>2 DEF Child, At
<1>9. Held' BY <1>1, <1>2, <1>4, <1>8 DEF Held, At, Stdio
<1>10. Writing' BY <1>4 DEF Writing, At
<1>11. Sent'
  <2>1. (Ended => Ended') /\ ~At("writing")' /\ ~At("writing") BY <1>2, <1>4 DEF At
  <2> QED BY <1>1, <1>2, <1>4, <2>1, SentSame
<1>12. Received'
  <2>1. ~owner.torn => Active BY <1>2, <1>8 DEF Active, At
  <2> QED BY <1>2, <1>4, <2>1, DeliverReceived DEF line
<1> QED BY <1>4, <1>6, <1>7, <1>9, <1>10, <1>11, <1>12 DEF LineInv

\* The mirror begins a line of its own.
LEMMA MirrorSpeaksStep == ASSUME LineInv, NEW k \in LineLengths, MirrorSpeaks(k) PROVE LineInv'
<1>1. Typed /\ Held /\ Child /\ Bounded /\ Writing /\ Sent /\ Received BY DEF LineInv
<1> DEFINE S == Len(peer.spoken)
           t == Framed(S + 1, k)
           lengths == Append(peer.spoken, k)
<1>2. /\ peer.state = "running" /\ output' = output \o t /\ S < MaxLines
      /\ peer' = [peer EXCEPT !.spoken = lengths]
      /\ UNCHANGED <<kind, owner, fds, buf, wire, taken, log>>
  BY DEF MirrorSpeaks, PeerRuns
<1>3. k \in Nat /\ S \in Nat /\ peer.spoken \in Seq(LineLengths)
  BY <1>1, Fields, LenProperties, TransportAssumption
<1>4. /\ lengths \in Seq(LineLengths) /\ Len(lengths) = S + 1 /\ lengths[S + 1] = k
      /\ \A i \in 1 .. S : lengths[i] = peer.spoken[i]
  BY <1>3, AppendProperties
<1>5. /\ t \in Seq(Byte) /\ Len(t) = k + 1
      /\ \A i \in 1 .. k + 1 : t[i].line = S + 1 /\ t[i].at = i /\ (t[i].lf <=> i = k + 1)
  <2>1. t = [i \in 1 .. k + 1 |-> [line |-> S + 1, at |-> i, lf |-> i = k + 1]] BY DEF Framed
  <2> HIDE DEF t, S
  <2>2. \A i \in 1 .. k + 1 : t[i] \in Byte
    <3> TAKE i \in 1 .. k + 1
    <3>1. (i = k + 1) \in BOOLEAN /\ i \in Nat /\ S + 1 \in Nat BY <1>3
    <3>2. t[i] = [line |-> S + 1, at |-> i, lf |-> i = k + 1] BY <2>1
    <3> QED BY <3>1, <3>2 DEF Byte
  <2>3. Len(t) = k + 1 /\ t \in Seq(Byte) BY <1>3, <2>1, <2>2
  <2>4. \A i \in 1 .. k + 1 : t[i].line = S + 1 /\ t[i].at = i /\ (t[i].lf <=> i = k + 1) BY <2>1
  <2> QED BY <2>3, <2>4
<1> HIDE DEF S, t, lengths
<1>6. /\ peer'.state = peer.state /\ peer'.code = peer.code /\ peer'.put = peer.put
      /\ peer'.read = peer.read /\ peer'.spoken = lengths /\ peer'.hit = peer.hit
      /\ peer' \in PeerType
  <2>1. peer \in PeerType BY <1>1 DEF Typed
  <2> QED BY <1>2, <1>4, <2>1 DEF PeerType
<1>7. /\ output' \in Seq(Byte) /\ Len(output) \in Nat /\ Len(output') = Len(output) + (k + 1)
      /\ \A i \in 1 .. Len(output) : output'[i] = output[i]
      /\ \A i \in 1 .. k + 1 : output'[Len(output) + i] = t[i]
  <2>1. output \in Seq(Byte) /\ t \in Seq(Byte) BY <1>1, <1>5 DEF Typed
  <2>2. /\ output \o t \in Seq(Byte) /\ Len(output) \in Nat /\ Len(output \o t) = Len(output) + Len(t)
        /\ \A i \in 1 .. Len(output) : (output \o t)[i] = output[i]
        /\ \A i \in 1 .. Len(t) : (output \o t)[Len(output) + i] = t[i]
    BY <2>1, Appended
  <2>3. \A i \in 1 .. k + 1 : (output \o t)[Len(output) + i] = t[i] BY <1>5, <2>2
  <2> QED BY <1>2, <1>5, <2>2, <2>3
<1>8. Typed' BY <1>1, <1>2, <1>6, <1>7 DEF Typed
<1>9. Bounded'
  <2>1. peer.put \in Nat /\ peer.put <= Len(output) BY <1>1, Fields DEF Bounded
  <2>2. peer'.put <= Len(output') BY <1>3, <1>6, <1>7, <2>1
  <2>3. Len(peer'.spoken) <= MaxLines BY <1>2, <1>3, <1>4, <1>6, TransportAssumption
  <2> QED BY <1>1, <1>2, <1>6, <2>2, <2>3 DEF Bounded, BufferBounded
<1>10. Held' BY <1>1, <1>2 DEF Held, At, Stdio
<1>11. Child' BY <1>1, <1>2, <1>6 DEF Child, At, Stdio, Ended
<1>12. Writing' BY <1>1, <1>2 DEF Writing, At, Begun
<1>13. Sent'
  <2>1. (Ended => Ended') /\ (At("writing")' <=> At("writing")) BY <1>2, <1>6 DEF Ended, At
  <2> QED BY <1>1, <1>2, <1>6, <2>1, SentSame
<1>14. Consecutive(output, Len(output), peer.spoken)'
  <2>1. Consecutive(output, Len(output), lengths)
    BY <1>1, <1>3, <1>7, ConsecutiveGrows DEF Received, lengths
  <2> DEFINE m == S + 1
  <2>2. /\ m \in 1 .. Len(lengths) /\ lengths[m] = k /\ Len(lengths) \in Nat /\ m - 1 = S
    BY <1>3, <1>4
  <2>3. EndsWith(output, Len(output), m - 1) BY <1>1, <2>2 DEF Received, S
  <2> HIDE DEF m
  <2>4. \A i \in 1 .. Len(t) : /\ t[i].line = m /\ t[i].at = 0 + i
                               /\ t[i].lf <=> 0 + i = lengths[m] + 1
    BY <1>3, <1>5, <2>2 DEF m
  <2>5. output \in Seq(Byte) /\ 0 + Len(t) <= lengths[m] + 1 /\ lengths[m] \in Nat /\ 0 \in Nat
    BY <1>1, <1>3, <1>5, <2>2 DEF Typed
  <2>6. Consecutive(output \o t, Len(output \o t), lengths)
    BY <1>5, <2>1, <2>2, <2>3, <2>4, <2>5, ConsecutiveAppended
  <2> QED BY <1>2, <1>6, <2>6
<1>15. EndsWith(output, Len(output), Len(peer.spoken))'
  <2>1. k + 1 \in 1 .. k + 1 /\ Len(output') # 0 BY <1>3, <1>7
  <2>2. output'[Len(output')] = t[k + 1] BY <1>7, <2>1
  <2>3. t[k + 1].lf /\ t[k + 1].line = S + 1 BY <1>5, <2>1
  <2>4. Len(peer'.spoken) = S + 1 BY <1>4, <1>6
  <2> QED BY <2>1, <2>2, <2>3, <2>4 DEF EndsWith
<1>16. ~owner'.torn => \A i \in 1 .. Len(log'.returned) : HandedOut(i)'
  <2> SUFFICES ASSUME ~owner.torn, NEW i \in 1 .. Len(log.returned) PROVE HandedOut(i)'
    BY <1>2
  <2>1. HandedOut(i) BY <1>1 DEF Received
  <2>2. \A j : Number(j)' = Number(j) BY <1>2 DEF Number
  <2>3. Number(i) \in 1 .. S BY <2>1 DEF HandedOut, S
  <2>4. Number(i) \in 1 .. Len(lengths) /\ lengths[Number(i)] = peer.spoken[Number(i)]
    BY <1>3, <1>4, <2>3
  <2>5. \A n \in 1 .. Number(i) - 1 : lengths[n] = peer.spoken[n]
    <3> TAKE n \in 1 .. Number(i) - 1
    <3>1. n \in 1 .. S BY <1>3, <2>3
    <3> QED BY <1>4, <3>1
  <2>6. log' = log /\ kind' = kind /\ peer'.spoken = lengths BY <1>2, <1>6
  <2> QED BY <2>1, <2>2, <2>4, <2>5, <2>6 DEF HandedOut
<1>17. ASSUME Active'
       PROVE  /\ Len(buf') <= taken'
              /\ \A i \in 1 .. Len(buf') : buf'[i] = output'[Start' + i]
              /\ Start' > 0 => output'[Start'].lf
              /\ \A i \in 1 .. Len(log'.returned) : Number(i)' <= Done'
              /\ \A n \in 1 .. Done' : \/ \E i \in 1 .. Len(log'.returned) : Number(i)' = n
                                       \/ peer'.spoken[n] = 0 /\ kind' # "tls"
  <2>1. Active BY <1>2, <1>17 DEF Active, At, Stdio
  <2>2. /\ Len(buf) <= taken
        /\ \A i \in 1 .. Len(buf) : buf[i] = output[Start + i]
        /\ Start > 0 => output[Start].lf
        /\ \A i \in 1 .. Len(log.returned) : Number(i) <= Done
        /\ \A n \in 1 .. Done : \/ \E i \in 1 .. Len(log.returned) : Number(i) = n
                                \/ peer.spoken[n] = 0 /\ kind # "tls"
    BY <1>1, <2>1 DEF Received
  <2>3. Start \in Nat /\ Start + Len(buf) <= Len(output) /\ Len(buf) \in Nat
    <3>1. taken \in Nat /\ peer.put \in Nat /\ Len(buf) \in Nat BY <1>1, Fields, LenProperties DEF Typed
    <3>2. taken <= peer.put /\ peer.put <= Len(output) BY <1>1 DEF Bounded
    <3> QED BY <1>7, <2>2, <3>1, <3>2 DEF Start
  <2>4. Start' = Start BY <1>2 DEF Start
  <2>5. \A i \in 1 .. Len(buf) : output'[Start + i] = output[Start + i]
    <3> TAKE i \in 1 .. Len(buf)
    <3>1. Start + i \in 1 .. Len(output) BY <1>7, <2>3
    <3> QED BY <1>7, <3>1
  <2>6. Start > 0 => output'[Start] = output[Start] /\ Start \in 1 .. Len(output)
    <3>1. Start > 0 => Start \in 1 .. Len(output) BY <1>7, <2>3
    <3> QED BY <1>7, <3>1
  <2>7. Done' = Done BY <2>3, <2>4, <2>6 DEF Done
  <2>8. Done \in 0 .. S
    <3>1. Start > 0 => output[Start].line \in 1 .. S BY <1>1, <2>6 DEF Received, Consecutive, S
    <3> QED BY <1>3, <2>3, <3>1 DEF Done
  <2>9. \A n \in 1 .. Done : lengths[n] = peer.spoken[n]
    <3> TAKE n \in 1 .. Done
    <3>1. n \in 1 .. S BY <1>3, <2>8
    <3> QED BY <1>4, <3>1
  <2>10. \A j : Number(j)' = Number(j) BY <1>2 DEF Number
  <2>11. log' = log /\ kind' = kind /\ peer'.spoken = lengths /\ buf' = buf /\ taken' = taken
    BY <1>2, <1>6
  <2> QED BY <2>2, <2>4, <2>5, <2>6, <2>7, <2>9, <2>10, <2>11
<1>18. Received' BY <1>14, <1>15, <1>16, <1>17 DEF Received
<1> QED BY <1>8, <1>9, <1>10, <1>11, <1>12, <1>13, <1>18 DEF LineInv

---------------------------------------------------------------------------
(* The theorems *)

\* The initial states satisfy the invariant.
LEMMA LineInitially == LineInit => LineInv
<1> SUFFICES ASSUME LineInit PROVE LineInv OBVIOUS
<1>1. \A S : <<>> \in Seq(S) BY EmptySeq
<1>2. Len(<<>>) = 0 BY EmptySeq
<1>3. /\ kind \in Kinds /\ fds = {"host"} /\ buf = <<>> /\ wire = <<>> /\ output = <<>> /\ taken = 0
      /\ owner = [pc |-> "new", closed |-> FALSE, exit |-> NoCode, left |-> 0, calls |-> 0, tried |-> 0,
                  torn |-> FALSE]
      /\ peer = [state |-> "none", code |-> NoCode, put |-> 0, read |-> 0, spoken |-> <<>>, hit |-> "none"]
      /\ log = [returned |-> <<>>, begun |-> <<>>, closes |-> <<>>]
  BY DEF LineInit
<1>4. /\ owner.pc = "new" /\ owner.closed = FALSE /\ owner.exit = NoCode /\ owner.torn = FALSE
      /\ peer.state = "none" /\ peer.code = NoCode /\ peer.put = 0 /\ peer.read = 0
      /\ peer.spoken = <<>> /\ peer.hit = "none"
      /\ log.returned = <<>> /\ log.begun = <<>> /\ log.closes = <<>>
  BY <1>3
<1>5. Typed
  <2>1. owner \in OwnerType BY <1>3, TransportAssumption DEF OwnerType
  <2>2. peer \in PeerType BY <1>1, <1>3 DEF PeerType, PeerStates
  <2>3. log \in LogType BY <1>1, <1>3 DEF LogType
  <2> QED BY <1>1, <1>3, <2>1, <2>2, <2>3 DEF Typed
<1>6. Bounded BY <1>2, <1>3, <1>4, TransportAssumption DEF Bounded, BufferBounded
<1>7. Held BY <1>3, <1>4 DEF Held, At
<1>8. Child BY <1>2, <1>4 DEF Child, At, Ended, NoCode
<1>9. Writing BY <1>4 DEF Writing, At
<1>10. Sent
  <2>1. Consecutive(wire, 0, log.begun) BY DEF Consecutive
  <2>2. EndsWith(wire, Len(wire), Begun) BY <1>2, <1>3, <1>4 DEF EndsWith, Begun
  <2> QED BY <1>2, <1>3, <1>4, <2>1, <2>2 DEF Sent, At
<1>11. Received
  <2>1. Consecutive(output, 0, peer.spoken) BY DEF Consecutive
  <2>2. EndsWith(output, Len(output), Len(peer.spoken)) BY <1>2, <1>3, <1>4 DEF EndsWith
  <2>3. Len(output) = 0 /\ Len(buf) = 0 /\ Len(log.returned) = 0 BY <1>2, <1>3, <1>4
  <2>4. Start = 0 /\ Done = 0
    <3>1. Start = 0 - 0 BY <1>3, <2>3 DEF Start
    <3> QED BY <3>1 DEF Done
  <2> QED BY <1>3, <1>4, <2>1, <2>2, <2>3, <2>4 DEF Received
<1> QED BY <1>5, <1>6, <1>7, <1>8, <1>9, <1>10, <1>11 DEF LineInv

\* A step that changes nothing.
LEMMA LineStutters == ASSUME LineInv, UNCHANGED lineVars PROVE LineInv'
<1>1. Typed /\ Held /\ Child BY DEF LineInv
<1>2. UNCHANGED <<kind, owner, fds, buf, wire, output, peer, taken, log>> BY DEF lineVars
<1>3. Types BY <1>1, <1>2 DEF Types, Typed
<1>4. Control BY <1>2 DEF Control, At, Ended, Active, Stdio
<1>5. Held' BY <1>1, <1>2 DEF Held, At, Stdio
<1>6. Child' BY <1>1, <1>2 DEF Child, At, Stdio, Ended
<1> QED BY <1>3, <1>4, <1>5, <1>6, ControlStep

\* The steps inside a call.
LEMMA InCallStep == ASSUME LineInv, InCall PROVE LineInv'
<1>1. \A n \in 1 .. MaxLine + 1 : n \in Nat \ {0} BY TransportAssumption
<1>2. \A n \in 1 .. Chunk : n \in Nat BY TransportAssumption
<1>3. CASE \E n \in 1 .. MaxLine + 1 : Write(n) BY <1>1, <1>3, WriteStep
<1>4. CASE \E n \in 1 .. Chunk : Fill(n) BY <1>2, <1>4, FillStep
<1> QED BY <1>3, <1>4, WriteFailsStep, DropLongStep, DeliverStep, EofStep, WaitStep, DestroyWaitStep
        DEF InCall

\* The steps the mirror takes.
LEMMA MirrorGoesOnStep == ASSUME LineInv, MirrorGoesOn PROVE LineInv'
<1>1. \A n \in 1 .. Pipe : n \in Nat BY TransportAssumption
<1>2. CASE \E n \in 1 .. Pipe : MirrorWrites(n) BY <1>1, <1>2, MirrorWritesStep
<1> QED BY <1>2, MirrorReadsStep, MirrorFinishesStep, MirrorExitedStep DEF MirrorGoesOn

\* Every step keeps the invariant.
LEMMA LineInductive == ASSUME LineInv, [LineNext]_lineVars PROVE LineInv'
<1>1. CASE UNCHANGED lineVars BY <1>1, LineStutters
<1>2. CASE \E stage \in {"pipe", "posix_spawn"} : SpawnFails(stage) BY <1>2, SpawnFailsStep
<1>3. CASE \E ok \in BOOLEAN : Handshake(ok) BY <1>3, HandshakeStep
<1>4. CASE \E k \in LineLengths : SendLine(k) BY <1>4, SendLineStep
<1>5. CASE \E k \in LineLengths : MirrorSpeaks(k) BY <1>5, MirrorSpeaksStep
<1>6. CASE MirrorEnds("1")
  <2>1. "1" \in Codes BY DEF Codes
  <2> QED BY <1>6, <2>1, MirrorEndsStep
<1>7. CASE \/ Spawn \/ TryAddress \/ Connect \/ ConnectFails \/ SendRefused \/ RecvLine
           \/ CloseAgain \/ CloseChild \/ CloseSocket \/ Destroy \/ InCall \/ MirrorGoesOn
  BY <1>7, SpawnStep, TryAddressStep, ConnectStep, ConnectFailsStep, SendRefusedStep, RecvLineStep,
     CloseAgainStep, CloseChildStep, CloseSocketStep, DestroyStep, InCallStep, MirrorGoesOnStep
<1> QED BY <1>1, <1>2, <1>3, <1>4, <1>5, <1>6, <1>7 DEF LineNext

\* The invariant implies what TransportInv says.
LEMMA LineInvKeepsTransport == LineInv => TransportInv
<1> SUFFICES ASSUME LineInv PROVE TransportInv OBVIOUS
<1>1. Typed /\ Bounded /\ Held /\ Child BY DEF LineInv
<1>2. LineTypeOK
  <2>1. peer.put \in 0 .. Len(output) /\ peer.read \in 0 .. Len(wire) /\ taken \in 0 .. peer.put
    <3>1. /\ peer.put \in Nat /\ peer.read \in Nat /\ taken \in Nat
          /\ Len(output) \in Nat /\ Len(wire) \in Nat
      BY <1>1, Fields, LenProperties DEF Typed
    <3> QED BY <1>1, <3>1 DEF Bounded
  <2>2. peer \in [state : {"none", "running", "ending", "exited", "reaped"}, code : Codes \cup {NoCode},
                  put : 0 .. Len(output), read : 0 .. Len(wire), spoken : Seq(LineLengths),
                  hit : {"none", "running", "ending", "exited", "reaped"}]
    BY <1>1, <2>1, Fields DEF PeerStates
  <2> QED BY <1>1, <2>1, <2>2 DEF LineTypeOK, Typed, Bounded, OwnerType, LogType, Handed
<1>3. BufferBounded BY <1>1 DEF Bounded
<1>4. NothingLeaks BY <1>1 DEF Held, NothingLeaks, At
<1>5. ChildAccounted BY <1>1 DEF Child, ChildAccounted
<1> QED BY <1>2, <1>3, <1>4, <1>5 DEF TransportInv

\* For every kind of transport, limit, chunk, pipe and mirror: the line buffer stays
\* bounded, no failed start, close or destructor leaks a descriptor or a child, and
\* the child's exit code is kept from the one wait that collects it.
THEOREM TransportSound == LineSpec => []TransportInv
<1>1. LineSpec => []LineInv BY LineInitially, LineInductive, PTL DEF LineSpec
<1> QED BY <1>1, LineInvKeepsTransport, PTL

\* For every way the bytes are cut into reads and writes: until an overlong line is
\* dropped, recv_line has handed out the mirror's lines whole and in order, and the
\* mirror has read the lines that send_line began, cut off at most at the end.
THEOREM LinesCrossWhole == LineSpec => []LinesWhole
<1>1. LineSpec => []LineInv BY LineInitially, LineInductive, PTL DEF LineSpec
<1>2. LineInv => LinesWhole BY DEF LineInv, LinesWhole, Received, Sent
<1> QED BY <1>1, <1>2, PTL
=============================================================================
