------------------------------- MODULE TCPCopy -------------------------------
(***************************************************************************)
(* The bytes of one connection pair: the two goroutines of a TCPForwarder  *)
(* (forward/tcp.go), copySrcToDst from the client to the remote and        *)
(* copyDstToSrc back, and the buffer f.buf they share.                     *)
(*                                                                         *)
(* A Write copies the buffer to the socket piece by piece, as the socket   *)
(* takes it: one cell is one step, so that the other goroutine's Read may  *)
(* fall in between.  A Read fills the buffer in one step; two Reads that   *)
(* overlap leave cells of both, which is what a Read between two cells of  *)
(* a Write leaves too.                                                     *)
(*                                                                         *)
(* What the operating system does with a connection is external: data come *)
(* out of a socket before its error; a connection that timed out           *)
(* (ETIMEDOUT) reports it to one call, after which reads end and writes    *)
(* fail.  The deadline of a Read changes nothing: the loop reads again.    *)
(* net.TCPConn.Write never returns a short count without an error, so that *)
(* lines 100 and 147 have no action.                                       *)
(***************************************************************************)
EXTENDS Integers, SequencesExt

CONSTANTS
    BufSize, \* cells of f.buf
    MaxSent, \* MaxSent[d]: bound on the bytes the peer at From(d) sends
    Faults   \* how a connection may fail: a subset of {"timedout", "down"}

Up   == "copySrcToDst"
Down == "copyDstToSrc"
Dirs == {Up, Down}
Other(d) == IF d = Up THEN Down ELSE Up

\* The socket that direction d reads, and the one it writes.
From(d) == IF d = Up THEN "src" ELSE "dst"
To(d)   == From(Other(d))

VARIABLES
    sent,    \* sent[d]: bytes the peer at From(d) has sent
    eof,     \* eof[d]: the peer at From(d) has sent its end
    got,     \* got[d]: what was written to To(d)
    taken,   \* taken[d]: bytes read from From(d)
    status,  \* status[s]: socket s is "up", "timedout" or "down"
    closed,  \* TCPConn.Close ran: the cleaner's callback
    dstShut, \* dst.CloseWrite ran
    buf,     \* f.buf
    pc,      \* pc[d]: where the goroutine of d is
    n,       \* n[d]: bytes of its last Read
    w,       \* w[d]: how many of them it has written
    overlap, \* history: a Read overwrote cells the other goroutine had to write
    echoed   \* history: handlePartialWrite sent the remote's bytes to the remote

peers == <<sent, eof>>
vars == <<peers, got, taken, status, closed, dstShut, buf, pc, n, w, overlap, echoed>>

Byte(d, i) == [dir |-> d, i |-> i]

Init ==
    /\ sent = [d \in Dirs |-> 0]
    /\ eof = [d \in Dirs |-> FALSE]
    /\ got = [d \in Dirs |-> <<>>]
    /\ taken = [d \in Dirs |-> 0]
    /\ status = [s \in {"src", "dst"} |-> "up"]
    /\ closed = FALSE
    /\ dstShut = FALSE
    /\ buf = [i \in 1 .. BufSize |-> Byte(Up, 0)]
    /\ pc = [d \in Dirs |-> "read"]
    /\ n = [d \in Dirs |-> 0]
    /\ w = [d \in Dirs |-> 0]
    /\ overlap = FALSE
    /\ echoed = FALSE

-----------------------------------------------------------------------------
\* The peers, the network and the cleaner.

PeerSends(d) ==
    /\ sent[d] < MaxSent[d] /\ ~eof[d] /\ status[From(d)] = "up"
    /\ sent' = [sent EXCEPT ![d] = @ + 1]
    /\ UNCHANGED <<eof, got, taken, status, closed, dstShut, buf, pc, n, w, overlap, echoed>>

PeerEnds(d) ==
    /\ ~eof[d] /\ status[From(d)] = "up"
    /\ eof' = [eof EXCEPT ![d] = TRUE]
    /\ UNCHANGED <<sent, got, taken, status, closed, dstShut, buf, pc, n, w, overlap, echoed>>

SocketFails(s) ==
    /\ status[s] = "up"
    /\ \E fault \in Faults : status' = [status EXCEPT ![s] = fault]
    /\ UNCHANGED <<peers, got, taken, closed, dstShut, buf, pc, n, w, overlap, echoed>>

\* TCPConn.Close: both sockets.
Close ==
    /\ ~closed
    /\ closed' = TRUE
    /\ UNCHANGED <<peers, got, taken, status, dstShut, buf, pc, n, w, overlap, echoed>>

Environment ==
    \/ \E d \in Dirs : PeerSends(d) \/ PeerEnds(d)
    \/ \E s \in {"src", "dst"} : SocketFails(s)
    \/ Close

-----------------------------------------------------------------------------
\* The goroutine of direction d.

\* The deferred call: copyDstToSrc shuts dst for writing.  copySrcToDst shuts
\* src for reading, which nobody else reads.
Exits(d) ==
    /\ pc' = [pc EXCEPT ![d] = "exited"]
    /\ dstShut' = (dstShut \/ d = Down)

Drained(d) == taken[d] = sent[d]

\* The goroutine of d has cell i of the buffer still to write.
Unwritten(d, i) == pc[d] \in {"write", "retry"} /\ w[d] < i /\ i <= n[d]

ReadData(d) ==
    LET count == IF sent[d] - taken[d] < BufSize THEN sent[d] - taken[d] ELSE BufSize
        o == Other(d)
    IN
    /\ pc[d] = "read" /\ ~closed /\ ~Drained(d)
    /\ buf' = [i \in 1 .. BufSize |-> IF i <= count THEN Byte(d, taken[d] + i) ELSE buf[i]]
    /\ taken' = [taken EXCEPT ![d] = @ + count]
    /\ n' = [n EXCEPT ![d] = count]
    /\ w' = [w EXCEPT ![d] = 0]
    /\ pc' = [pc EXCEPT ![d] = "write"]
    /\ overlap' = (overlap \/ \E i \in 1 .. count : Unwritten(o, i))
    /\ UNCHANGED <<peers, got, status, closed, dstShut, echoed>>

\* Mutant of ReadEnds: the end is seen before the data in front of it.
ReadEndsEarly(d) ==
    /\ pc[d] = "read"
    /\ eof[d] \/ closed
    /\ Exits(d)
    /\ UNCHANGED <<peers, got, taken, status, closed, buf, n, w, overlap, echoed>>

\* io.EOF, or an error that is not temporary.
ReadEnds(d) ==
    /\ pc[d] = "read"
    /\ closed \/ (Drained(d) /\ (eof[d] \/ status[From(d)] = "down"))
    /\ Exits(d)
    /\ UNCHANGED <<peers, got, taken, status, closed, buf, n, w, overlap, echoed>>

\* ETIMEDOUT is a Timeout: read again.
ReadTimesOut(d) ==
    /\ pc[d] = "read" /\ ~closed /\ Drained(d)
    /\ status[From(d)] = "timedout"
    /\ status' = [status EXCEPT ![From(d)] = "down"]
    /\ UNCHANGED <<peers, got, taken, closed, dstShut, buf, pc, n, w, overlap, echoed>>

Writable(s) == ~closed /\ status[s] = "up" /\ ~(s = "dst" /\ dstShut)
Broken(s)   == ~Writable(s) /\ (status[s] = "timedout" => closed)

\* Mutant of WriteCell: the rest of a Write is taken from the front of the buffer.
WriteFromFront(d) ==
    /\ pc[d] = "write" /\ Writable(To(d))
    /\ got' = [got EXCEPT ![d] = Append(@, buf[1])]
    /\ w' = [w EXCEPT ![d] = @ + 1]
    /\ pc' = [pc EXCEPT ![d] = IF w[d] + 1 = n[d] THEN "read" ELSE "write"]
    /\ UNCHANGED <<peers, taken, status, closed, dstShut, buf, n, overlap, echoed>>

WriteCell(d) ==
    /\ pc[d] = "write" /\ Writable(To(d))
    /\ got' = [got EXCEPT ![d] = Append(@, buf[w[d] + 1])]
    /\ w' = [w EXCEPT ![d] = @ + 1]
    /\ pc' = [pc EXCEPT ![d] = IF w[d] + 1 = n[d] THEN "read" ELSE "write"]
    /\ UNCHANGED <<peers, taken, status, closed, dstShut, buf, n, overlap, echoed>>

WriteFails(d) ==
    /\ pc[d] = "write" /\ Broken(To(d))
    /\ Exits(d)
    /\ UNCHANGED <<peers, got, taken, status, closed, buf, n, w, overlap, echoed>>

\* ETIMEDOUT is Temporary: handlePartialWrite.
WriteTimesOut(d) ==
    /\ pc[d] = "write" /\ ~closed
    /\ status[To(d)] = "timedout"
    /\ status' = [status EXCEPT ![To(d)] = "down"]
    /\ pc' = [pc EXCEPT ![d] = "retry"]
    /\ UNCHANGED <<peers, got, taken, closed, dstShut, buf, n, w, overlap, echoed>>

\* handlePartialWrite writes to f.dst, whichever direction calls it.  (The
\* lock that keeps two Writes of one socket apart is left out: nothing is said
\* of the order of the bytes after an echo.)
RetryCell(d) ==
    LET last == w[d] + 1 = n[d] IN
    /\ pc[d] = "retry" /\ Writable("dst")
    /\ got' = [got EXCEPT ![Up] = Append(@, buf[w[d] + 1])]
    /\ w' = [w EXCEPT ![d] = @ + 1]
    /\ IF last THEN Exits(d) ELSE UNCHANGED <<pc, dstShut>>
    /\ echoed' = (echoed \/ d = Down)
    /\ UNCHANGED <<peers, taken, status, closed, buf, n, overlap>>

RetryFails(d) ==
    /\ pc[d] = "retry" /\ Broken("dst")
    /\ Exits(d)
    /\ UNCHANGED <<peers, got, taken, status, closed, buf, n, w, overlap, echoed>>

\* A temporary error again: sleep, and write again.
RetryTimesOut(d) ==
    /\ pc[d] = "retry" /\ ~closed
    /\ status["dst"] = "timedout"
    /\ status' = [status EXCEPT !["dst"] = "down"]
    /\ UNCHANGED <<peers, got, taken, closed, dstShut, buf, pc, n, w, overlap, echoed>>

Copier(d) ==
    \/ ReadData(d) \/ ReadEnds(d) \/ ReadTimesOut(d)
    \/ WriteCell(d) \/ WriteFails(d) \/ WriteTimesOut(d)
    \/ RetryCell(d) \/ RetryFails(d) \/ RetryTimesOut(d)

Next == Environment \/ \E d \in Dirs : Copier(d)

Spec == Init /\ [][Next]_vars

-----------------------------------------------------------------------------
\* Every variable keeps its type.
TypeOK ==
    /\ \A d \in Dirs : 0 <= taken[d] /\ taken[d] <= sent[d] /\ sent[d] <= MaxSent[d]
    /\ eof \in [Dirs -> BOOLEAN]
    /\ buf \in [1 .. BufSize -> [dir : Dirs, i : Nat]]
    /\ \A d \in Dirs : Range(got[d]) \subseteq [dir : Dirs, i : Nat]
    /\ status \in [{"src", "dst"} -> {"up", "timedout", "down"}]
    /\ pc \in [Dirs -> {"read", "write", "retry", "exited"}]
    /\ n \in [Dirs -> 0 .. BufSize] /\ w \in [Dirs -> 0 .. BufSize]
    /\ {closed, dstShut, overlap, echoed} \subseteq BOOLEAN

\* What To(d) got is what From(d) sent, from the beginning and in order.
InOrder(d) == \A i \in DOMAIN got[d] : got[d][i] = Byte(d, i)

\* copySrcToDst "copies from source to destination" (tcp.go:58): each peer gets
\* what the other one sent, and nothing else.
Faithful == \A d \in Dirs : InOrder(d)

\* The two ways in which a byte can go astray are that a Read overwrites what
\* the other goroutine has still to write, and that handlePartialWrite sends
\* the remote's bytes back to it: without them no Read, Write, error or
\* close, in any order, loses, repeats or misplaces one.
IntactUnlessShared == ~overlap /\ ~echoed => Faithful

\* As many bytes arrive as were sent, unless the pair is closed, a connection
\* fails or, on the way to the remote, the remote has ended its own direction
\* first, which shuts dst for writing.
DeliveredUnlessCut ==
    \A d \in Dirs : \A i \in 1 .. MaxSent[d] :
        sent[d] >= i ~> \/ Len(got[d]) >= i
                        \/ closed \/ \E s \in {"src", "dst"} : status[s] # "up"
                        \/ (d = Up /\ dstShut)

=============================================================================
