--------------------------- MODULE LineTransport ---------------------------
(***************************************************************************)
(* The transports (src/transport.cpp, src/detail/line.hpp, process.cpp,    *)
(* net.cpp, tls.cpp): lines to and from a mirror that is a child process   *)
(* behind two pipes, or a peer behind a TCP or TLS connection.             *)
(*                                                                         *)
(* One thread owns a transport and blocks in its calls.  A byte is the     *)
(* number of the line it belongs to, its place in it, and whether it is    *)
(* the line feed.  The operating system holds at most Pipe bytes in each   *)
(* direction, and reads and writes may be partial.  The mirror (external)  *)
(* may write any line, also a blank or an overlong one, and may end at any *)
(* time; a child that ends closes its pipes before it can be waited for.   *)
(***************************************************************************)
EXTENDS Naturals, Sequences

CONSTANTS
  Kinds,      \* kinds of transport: "stdio", "tcp", "tls"
  MaxLine,    \* kMaxProtocolLineBytes
  Chunk,      \* kLineChunkSize
  Pipe,       \* bytes the operating system holds in each direction
  Addresses,  \* addresses a host name resolves to
  LineLengths, \* payload lengths of the lines that either side writes
  MaxLines,   \* bound on lines of the mirror
  MaxCalls    \* bound on calls of the owner

ASSUME TransportAssumption ==
  /\ Kinds \subseteq {"stdio", "tcp", "tls"} /\ LineLengths \subseteq Nat
  /\ MaxLine \in Nat \ {0} /\ Chunk \in Nat \ {0} /\ Pipe \in Nat \ {0}
  /\ Addresses \in Nat /\ MaxLines \in Nat /\ MaxCalls \in Nat

VARIABLES
  kind,    \* which transport
  owner,   \* closed_, exit_code_, the locals of the call being made, and whether
           \* an overlong line was ever dropped
  fds,     \* descriptors this process holds: its own, and the host's stdin
  buf,     \* buf_: bytes read and not yet handed out
  wire,    \* bytes written to the mirror
  output,  \* bytes the mirror has to write
  peer,    \* the mirror: its state and exit code, the lengths of the lines it wrote,
           \* how many bytes it wrote and read, and its state when it was sent SIGKILL
  taken,   \* how many of the mirror's bytes were read
  log      \* lines handed out, each with the line feed that ended it, lengths of the
           \* lines whose writing began, results of close

lineVars == <<kind, owner, fds, buf, wire, output, peer, taken, log>>

Codes == {"0", "1", "137"}   \* exit codes: success, failure, 128 + SIGKILL
NoCode == "none"
Byte == [line : Nat, at : Nat, lf : BOOLEAN]
Payload(n, k) == [i \in 1 .. k |-> [line |-> n, at |-> i, lf |-> FALSE]]
Framed(n, k) == [i \in 1 .. k + 1 |-> [line |-> n, at |-> i, lf |-> i = k + 1]]

PipeEnds == {"in_r", "in_w", "out_r", "out_w"}
LineTypeOK ==
  /\ kind \in Kinds
  /\ owner \in [pc : {"new", "handshake", "idle", "writing", "reading", "waiting", "destroying", "gone"},
                closed : BOOLEAN, exit : Codes \cup {NoCode}, left : Nat, calls : 0 .. MaxCalls,
                tried : 0 .. Addresses, torn : BOOLEAN]
  /\ fds \subseteq PipeEnds \cup {"sock", "host"}
  /\ buf \in Seq(Byte) /\ wire \in Seq(Byte) /\ output \in Seq(Byte)
  /\ peer \in [state : {"none", "running", "ending", "exited", "reaped"}, code : Codes \cup {NoCode},
                 put : 0 .. Len(output), read : 0 .. Len(wire), spoken : Seq(LineLengths),
                 hit : {"none", "running", "ending", "exited", "reaped"}]
  /\ Len(peer.spoken) <= MaxLines /\ taken \in 0 .. peer.put
  /\ log \in [returned : Seq([text : Seq(Byte), feed : Byte]), begun : Seq(LineLengths), closes : Seq(Codes)]

LineInit ==
  /\ kind \in Kinds
  /\ owner = [pc |-> "new", closed |-> FALSE, exit |-> NoCode, left |-> 0, calls |-> 0, tried |-> 0,
              torn |-> FALSE]
  /\ fds = {"host"} /\ buf = <<>> /\ wire = <<>> /\ output = <<>> /\ taken = 0
  /\ peer = [state |-> "none", code |-> NoCode, put |-> 0, read |-> 0, spoken |-> <<>>, hit |-> "none"]
  /\ log = [returned |-> <<>>, begun |-> <<>>, closes |-> <<>>]

At(point) == owner.pc = point
Stdio == kind = "stdio"
Smaller(m, n) == IF m < n THEN m ELSE n
Available == peer.put - taken          \* bytes to read
RoomOut == Pipe - (Len(wire) - peer.read)
PeerRuns == peer.state = "running"
Ended == peer.state \in {"ending", "exited", "reaped"}

\* A call begins, and one ends.
Begin(point, o) == [o EXCEPT !.pc = point, !.calls = @ + 1]
Return(o) == [o EXCEPT !.pc = "idle", !.left = 0]
MayCall == At("idle") /\ owner.calls < MaxCalls

---------------------------------------------------------------------------
(* spawn_mirror and Subprocess::spawn *)

\* posix_spawn succeeded: the parent closes the child's ends.
KeepsAllEnds == PipeEnds   \* mutant: the parent keeps the child's ends open
ParentEnds == PipeEnds \ {"in_r", "out_w"}
Spawn ==
  /\ At("new") /\ Stdio
  /\ fds' = fds \cup ParentEnds
  /\ peer' = [peer EXCEPT !.state = "running"]
  /\ owner' = [owner EXCEPT !.pc = "idle"]
  /\ UNCHANGED <<kind, buf, wire, output, taken, log>>

\* A failing pipe2 leaves an array of zeros, and descriptor 0 is closed with it; a
\* failing posix_spawn closes the four ends that were made.
SpawnFails(stage) ==
  /\ At("new") /\ Stdio
  /\ fds' = IF stage = "pipe" THEN fds \ {"host"} ELSE fds
  /\ owner' = [owner EXCEPT !.pc = "gone"]
  /\ UNCHANGED <<kind, buf, wire, output, peer, taken, log>>

---------------------------------------------------------------------------
(* connect_tcp, connect_tls and Socket::connect *)

\* One address: no socket, refused or timed out, each with its descriptor closed.
TryAddress ==
  /\ At("new") /\ ~Stdio /\ owner.tried < Addresses
  /\ owner' = [owner EXCEPT !.tried = @ + 1]
  /\ UNCHANGED <<kind, fds, buf, wire, output, peer, taken, log>>
Connect ==
  /\ At("new") /\ ~Stdio /\ owner.tried < Addresses
  /\ fds' = fds \cup {"sock"}
  /\ peer' = [peer EXCEPT !.state = "running"]
  /\ owner' = [owner EXCEPT !.pc = IF kind = "tls" THEN "handshake" ELSE "idle"]
  /\ UNCHANGED <<kind, buf, wire, output, taken, log>>
\* No address is left, or the name or the TLS options were refused beforehand.
ConnectFails ==
  /\ At("new") /\ ~Stdio /\ owner.tried \in {0, Addresses}
  /\ owner' = [owner EXCEPT !.pc = "gone"]
  /\ UNCHANGED <<kind, fds, buf, wire, output, peer, taken, log>>
\* The handshake, the deadline and the pin; a failure drops the stream and its socket.
Handshake(ok) ==
  /\ At("handshake")
  /\ fds' = IF ok THEN fds ELSE fds \ {"sock"}
  /\ owner' = [owner EXCEPT !.pc = IF ok THEN "idle" ELSE "gone"]
  /\ UNCHANGED <<kind, buf, wire, output, peer, taken, log>>

---------------------------------------------------------------------------
(* send_line *)

\* reject_embedded_newline; a payload with a line feed in it has no length.
LineRejected(k) == k = 0 \/ k > MaxLine
\* A line that is refused, or a transport that is closed: nothing is written.
SendRefused ==
  /\ MayCall
  /\ owner' = Begin("idle", owner)
  /\ UNCHANGED <<kind, fds, buf, wire, output, peer, taken, log>>
SendLine(k) ==
  /\ MayCall /\ ~LineRejected(k)
  /\ IF Stdio THEN "in_w" \in fds ELSE ~owner.closed
  /\ owner' = [Begin("writing", owner) EXCEPT !.left = k + 1]
  /\ log' = [log EXCEPT !.begun = Append(@, k)]
  /\ UNCHANGED <<kind, fds, buf, wire, output, peer, taken>>

\* One write() of n bytes, from the offset reached so far; a peer that is gone may
\* still let bytes into a socket.
FromStart(n) == SubSeq(Framed(Len(log.begun), log.begun[Len(log.begun)]), 1, n)   \* mutant: off is not advanced
Rest(n) ==
  LET line == Framed(Len(log.begun), log.begun[Len(log.begun)])
      off == Len(line) - owner.left
  IN SubSeq(line, off + 1, off + n)
Write(n) ==
  /\ At("writing") /\ n <= owner.left /\ n <= RoomOut /\ (PeerRuns \/ ~Stdio)
  /\ wire' = wire \o Rest(n)
  /\ owner' = IF n = owner.left THEN Return(owner) ELSE [owner EXCEPT !.left = @ - n]
  /\ UNCHANGED <<kind, fds, buf, output, peer, taken, log>>

\* try_wait: collects the child if it can be waited for and was not collected yet.
Collected == Stdio /\ owner.exit = NoCode /\ peer.state = "exited"
Reaped == [peer EXCEPT !.state = "reaped"]
ForgetsCode(o) == o   \* mutant: the child is collected and its code not kept
TryWait(o) == IF Collected THEN [o EXCEPT !.exit = peer.code] ELSE o
Collect == peer' = IF Collected THEN Reaped ELSE peer

\* EPIPE, or a reset connection.  Pipes and plain sockets are written without the
\* signal; TLS writes through OpenSSL, where the host must ignore SIGPIPE for this.
WriteFails ==
  /\ At("writing") /\ Ended
  /\ owner' = Return(TryWait(owner)) /\ Collect
  /\ UNCHANGED <<kind, fds, buf, wire, output, taken, log>>

---------------------------------------------------------------------------
(* recv_line: read_line_from_fd, and SslStream::read_line for TLS *)

RecvLine ==
  /\ MayCall
  /\ owner' = Begin(IF ~Stdio /\ owner.closed THEN "idle" ELSE "reading", owner)
  /\ UNCHANGED <<kind, fds, buf, wire, output, peer, taken, log>>

HasLine == \E i \in 1 .. Len(buf) : buf[i].lf
LastLf ==   \* mutant: the last line feed is taken for the first
  CHOOSE i \in 1 .. Len(buf) : buf[i].lf /\ \A j \in i + 1 .. Len(buf) : ~buf[j].lf
LfAt == CHOOSE i \in 1 .. Len(buf) : buf[i].lf /\ \A j \in 1 .. i - 1 : ~buf[j].lf
OverlongLine == HasLine /\ LfAt - 1 > MaxLine   \* mutant: bytes without a line feed pile up
Overlong == IF HasLine THEN LfAt - 1 > MaxLine ELSE Len(buf) > MaxLine

\* The buffer is dropped with the overlong line, whatever else is in it.
DropLong ==
  /\ At("reading") /\ Overlong
  /\ buf' = <<>> /\ owner' = [Return(owner) EXCEPT !.torn = TRUE]
  /\ UNCHANGED <<kind, fds, wire, output, peer, taken, log>>

\* A line leaves the buffer.  An empty one is an end of file to the other two.
Deliver ==
  LET line == SubSeq(buf, 1, LfAt - 1)
      value == line # <<>> \/ kind = "tls"
  IN /\ At("reading") /\ HasLine /\ ~Overlong
     /\ buf' = SubSeq(buf, LfAt + 1, Len(buf))
     /\ IF value THEN /\ log' = [log EXCEPT !.returned = Append(@, [text |-> line, feed |-> buf[LfAt]])]
                      /\ owner' = Return(owner) /\ UNCHANGED peer
        ELSE owner' = Return(TryWait(owner)) /\ Collect /\ UNCHANGED log
     /\ UNCHANGED <<kind, fds, wire, output, taken>>

\* One read() of n bytes.
Fill(n) ==
  /\ At("reading") /\ ~HasLine /\ ~Overlong /\ n <= Chunk /\ n <= Available
  /\ buf' = buf \o SubSeq(output, taken + 1, taken + n) /\ taken' = taken + n
  /\ UNCHANGED <<kind, owner, fds, wire, output, peer, log>>

\* End of file needs every writer to be gone.  Within a line it is an error at once;
\* otherwise the child is asked for its exit code first.
AtEof == Available = 0 /\ Ended /\ "out_w" \notin fds
Eof ==
  /\ At("reading") /\ ~HasLine /\ ~Overlong /\ AtEof
  /\ IF buf = <<>> THEN owner' = Return(TryWait(owner)) /\ Collect
     ELSE owner' = Return(owner) /\ UNCHANGED peer
  /\ UNCHANGED <<kind, fds, buf, wire, output, taken, log>>

---------------------------------------------------------------------------
(* close and the destructors *)

\* The result of a second call: the exit code, or 0.
Again == IF owner.exit = NoCode THEN "0" ELSE owner.exit
CloseAgain ==
  /\ MayCall /\ owner.closed
  /\ owner' = Begin("idle", owner)
  /\ log' = [log EXCEPT !.closes = Append(@, Again)]
  /\ UNCHANGED <<kind, fds, buf, wire, output, peer, taken>>

\* A child sees the end of its input and is then waited for; a socket is just closed.
CloseChild ==
  /\ MayCall /\ Stdio /\ ~owner.closed
  /\ owner' = [Begin("waiting", owner) EXCEPT !.closed = TRUE]
  /\ fds' = fds \ {"in_w"}
  /\ UNCHANGED <<kind, buf, wire, output, peer, taken, log>>
CloseSocket ==
  /\ MayCall /\ ~Stdio /\ ~owner.closed
  /\ owner' = [Begin("idle", owner) EXCEPT !.closed = TRUE]
  /\ fds' = fds \ {"sock"} /\ buf' = <<>>
  /\ log' = [log EXCEPT !.closes = Append(@, "0")]
  /\ UNCHANGED <<kind, wire, output, peer, taken>>

\* wait(): the exit code at hand, or the child once it can be waited for.
Wait ==
  /\ At("waiting") /\ (owner.exit # NoCode \/ Collected)
  /\ owner' = Return(TryWait(owner)) /\ Collect
  /\ log' = [log EXCEPT !.closes = Append(@, TryWait(owner).exit)]
  /\ UNCHANGED <<kind, fds, buf, wire, output, taken>>

\* ~Subprocess kills a child whose exit code it does not have, and waits for it.
Destroy ==
  /\ At("idle")
  /\ IF Stdio /\ owner.exit = NoCode
     THEN /\ peer' = [peer EXCEPT !.hit = peer.state,
                                    !.state = IF PeerRuns THEN "ending" ELSE peer.state,
                                    !.code = IF PeerRuns THEN "137" ELSE peer.code]
          /\ owner' = [owner EXCEPT !.pc = "destroying"] /\ UNCHANGED <<fds, buf>>
     ELSE /\ owner' = [owner EXCEPT !.pc = "gone"] /\ fds' = fds \cap {"host"} /\ buf' = <<>>
          /\ UNCHANGED peer
  /\ UNCHANGED <<kind, wire, output, taken, log>>
DestroyWait ==
  /\ At("destroying") /\ Collected
  /\ owner' = [TryWait(owner) EXCEPT !.pc = "gone"] /\ Collect
  /\ fds' = fds \cap {"host"} /\ buf' = <<>>
  /\ UNCHANGED <<kind, wire, output, taken, log>>

---------------------------------------------------------------------------
(* The mirror (external) *)

MirrorSpeaks(k) ==
  /\ PeerRuns /\ peer.put = Len(output) /\ Len(peer.spoken) < MaxLines
  /\ output' = output \o Framed(Len(peer.spoken) + 1, k)
  /\ peer' = [peer EXCEPT !.spoken = Append(@, k)]
  /\ UNCHANGED <<kind, owner, fds, buf, wire, taken, log>>
MirrorWrites(n) ==
  /\ PeerRuns /\ n <= Len(output) - peer.put /\ n <= Pipe - Available
  /\ peer' = [peer EXCEPT !.put = @ + n]
  /\ UNCHANGED <<kind, owner, fds, buf, wire, output, taken, log>>
MirrorReads ==
  /\ PeerRuns /\ peer.put = Len(output) /\ peer.read < Len(wire)
  /\ peer' = [peer EXCEPT !.read = Len(wire)]
  /\ UNCHANGED <<kind, owner, fds, buf, wire, output, taken, log>>
\* It ends well once it read everything and its input is closed, and badly at any time.
MirrorEnds(code) ==
  /\ PeerRuns /\ peer' = [peer EXCEPT !.state = "ending", !.code = code]
  /\ UNCHANGED <<kind, owner, fds, buf, wire, output, taken, log>>
MirrorFinishes ==
  /\ peer.put = Len(output) /\ peer.read = Len(wire) /\ fds \cap {"in_w", "sock"} = {}
  /\ MirrorEnds("0")
MirrorExited ==
  /\ peer.state = "ending" /\ peer' = [peer EXCEPT !.state = "exited"]
  /\ UNCHANGED <<kind, owner, fds, buf, wire, output, taken, log>>

---------------------------------------------------------------------------

\* What the owner's thread does inside a call.
InCall ==
  \/ \E n \in 1 .. MaxLine + 1 : Write(n)
  \/ \E n \in 1 .. Chunk : Fill(n)
  \/ WriteFails \/ DropLong \/ Deliver \/ Eof \/ Wait \/ DestroyWait
MirrorGoesOn ==
  (\E n \in 1 .. Pipe : MirrorWrites(n)) \/ MirrorReads \/ MirrorFinishes \/ MirrorExited

LineNext ==
  \/ Spawn \/ (\E stage \in {"pipe", "posix_spawn"} : SpawnFails(stage))
  \/ TryAddress \/ Connect \/ ConnectFails \/ (\E ok \in BOOLEAN : Handshake(ok))
  \/ SendRefused \/ (\E k \in LineLengths : SendLine(k)) \/ RecvLine
  \/ CloseAgain \/ CloseChild \/ CloseSocket \/ Destroy
  \/ InCall \/ MirrorGoesOn
  \/ (\E k \in LineLengths : MirrorSpeaks(k)) \/ MirrorEnds("1")

LineSpec == LineInit /\ [][LineNext]_lineVars

\* The owner's thread runs; a mirror that can write, read or finish does, and a
\* process that has ended can be waited for after a while.
FairLineSpec == LineSpec /\ WF_lineVars(InCall) /\ WF_lineVars(MirrorGoesOn)

---------------------------------------------------------------------------

\* The line buffer stays bounded whatever the mirror sends, and a transport that
\* is gone holds no descriptor: no failed start, close or destructor leaks one.
BufferBounded == Len(buf) <= MaxLine + Chunk
NothingLeaks == At("gone") => fds \subseteq {"host"} /\ buf = <<>>

\* The child is accounted for: its exit code is kept from the one wait that
\* collects it, every close reports that code, no signal is sent to a process
\* that was collected already, and a destroyed transport leaves no child behind.
ChildAccounted ==
  /\ Stdio => /\ (owner.exit # NoCode) <=> (peer.state = "reaped")
              /\ owner.exit \in {NoCode, peer.code}
              /\ \A i \in 1 .. Len(log.closes) : log.closes[i] = peer.code
              /\ At("gone") => peer.state \in {"none", "reaped"}
  /\ peer.hit # "reaped"

\* Whatever the mirror and the owner do, the transport keeps within its buffer and
\* leaves neither a descriptor nor a child behind.
TransportInv == LineTypeOK /\ BufferBounded /\ NothingLeaks /\ ChildAccounted

\* The first n bytes of s are lines of these lengths, one after the other, each byte
\* in its place and the last line perhaps cut off.
Follows(a, b) == IF a.lf THEN b.line = a.line + 1 /\ b.at = 1
                 ELSE b.line = a.line /\ b.at = a.at + 1
Consecutive(s, n, lengths) ==
  /\ \A i \in 1 .. n : /\ s[i].line \in 1 .. Len(lengths) /\ s[i].at > 0
                       /\ s[i].lf <=> s[i].at = lengths[s[i].line] + 1
  /\ n > 0 => s[1].line = 1 /\ s[1].at = 1
  /\ \A i \in 1 .. n - 1 : Follows(s[i], s[i + 1])

\* Lines cross whole and in order.  Until an overlong line is dropped, recv_line has
\* handed out the mirror's lines whole, one by one, blank ones aside (TLS hands them
\* out too), however the bytes were cut into reads; and the mirror has read the lines
\* that send_line began, one after the other, cut off at most at the end.
Number(i) == log.returned[i].feed.line
HandedOut(i) ==
  /\ Number(i) \in 1 .. Len(peer.spoken)
  /\ log.returned[i].text = Payload(Number(i), peer.spoken[Number(i)])
  /\ \A j \in 1 .. i - 1 : Number(j) < Number(i)
  /\ \A n \in 1 .. Number(i) - 1 :
       (\E j \in 1 .. i - 1 : Number(j) = n) \/ (peer.spoken[n] = 0 /\ kind # "tls")
LinesWhole ==
  /\ ~owner.torn => \A i \in 1 .. Len(log.returned) : HandedOut(i)
  /\ Consecutive(wire, peer.read, log.begun)

\* No call outlives the mirror: once it has ended, a call under way returns, the
\* destructor's wait included.  And close, which waits for a mirror that has not
\* ended, returns unless the child has more to say than fits in its pipe.
Busy == owner.pc \in {"writing", "reading", "waiting", "destroying"}
Stuffed == At("waiting") /\ ~Ended /\ Len(output) - taken > Pipe
CallsEnd == (Busy /\ (Ended \/ At("waiting"))) ~> (~Busy \/ Stuffed)

\* "Every terminal path closes the transport (and thus reaps the stdio child)"
\* (docs/design.md): closing after recv_line refused an overlong line ends with
\* the child reaped.
CloseReaps == (At("waiting") /\ owner.torn) ~> (peer.state = "reaped")
=============================================================================
