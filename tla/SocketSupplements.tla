-------------------------- MODULE SocketSupplements --------------------------
(***************************************************************************)
(* socket_supplements.c: a client that creates a socket, connects with a   *)
(* timeout and sends a message, and a server that listens, accepts and     *)
(* receives until the end, each by calls of the sock_*() functions, one    *)
(* step per system call.  The kernel between them may take or give any     *)
(* part of what it is asked to, be slow, interrupt a call, run out of      *)
(* descriptors, refuse or reset.  Either program may close at any time.    *)
(***************************************************************************)
EXTENDS Integers, Sequences

CONSTANTS
  MsgLen,         \* bytes of the message, which are 1, 2, ...
  RecvLen,        \* bytes that the server asks for at a time
  Capacity,       \* bytes that the kernel holds
  MaxInterrupts   \* bound: EINTRs

ASSUME SizesAssumption == {MsgLen, RecvLen, Capacity} \subseteq Nat \ {0}

Thread == {"client", "server"}
NoError == "0"

VARIABLES
  nonblocking,   \* is_nonblocking of sock_create() and sock_accept()
  th,            \* th[t]: the program of t and the function it is in, see Init
  received,      \* the bytes in the buffers of the server
  tcp,           \* the connection: "none", "syn", "established", "refused" or "failed"
  so_error,      \* reset of the client's end: "none", "pending" or "seen"
  channel,       \* bytes on their way
  listening,
  accepted,      \* the server has taken the connection from the queue
  closed,        \* closed[t]: the end of t is closed
  open, held,    \* descriptors that are open, and that somebody knows of
  interrupts     \* bounded counter

ends == <<listening, accepted, closed>>
fds == <<open, held>>
vars == <<nonblocking, th, received, tcp, so_error, channel, ends, fds, interrupts>>

Go(t, call) == th' = [th EXCEPT ![t].pc = call]
Return(t, r) == th' = [th EXCEPT ![t].pc = "returned", ![t].ret = r]
In(t, call) == th[t].pc = call
Interrupted == interrupts < MaxInterrupts /\ interrupts' = interrupts + 1

\* The system call that a function of a program begins with.
First(t, fn) ==
  CASE fn = "check" -> "select"
    [] fn = "transfer" -> IF t = "client" THEN "send" ELSE "recv"
    [] OTHER -> fn

\* The program calls fn; sock_send() and sock_recv() begin anew.  It asks whether the
\* socket is ready for its transfer, or (not asked) for the other direction.
Begin(t, fn, timed, asked) ==
  th' = [th EXCEPT ![t].fn = fn, ![t].pc = First(t, fn), ![t].timed = timed, ![t].asked = asked, ![t].handled = 0,
                   ![t].err = NoError, ![t].status = @ /\ fn = "transfer",
                   ![t].len = IF t = "client" THEN MsgLen - th[t].total ELSE RecvLen]

-----------------------------------------------------------------------------
sock_create(t) ==
  /\ In(t, "create")
  /\ \/ open' = open + 1 /\ held' = held + 1
        /\ \E timed \in {FALSE, t = "client"} : Begin(t, IF t = "client" THEN "connect" ELSE "bind", timed, TRUE)
     \/ UNCHANGED fds /\ Go(t, "end")
  /\ UNCHANGED <<nonblocking, received, tcp, so_error, channel, ends, interrupts>>

sock_bind ==
  /\ In("server", "bind") /\ \E e \in {NoError, "OTHER"} : Return("server", e)
  /\ UNCHANGED <<nonblocking, received, tcp, so_error, channel, ends, fds, interrupts>>

sock_listen ==
  /\ In("server", "listen")
  /\ \/ listening' = TRUE /\ Return("server", NoError)
     \/ listening' = listening /\ Return("server", "OTHER")
  /\ UNCHANGED <<nonblocking, received, tcp, so_error, channel, accepted, closed, fds, interrupts>>

\* The kernel's part of close(): the client is reset if it still sends, or if
\* something that it has sent is not read.
CloseServer(waited) ==
  /\ closed' = [closed EXCEPT !["server"] = TRUE] /\ channel' = <<>>
  /\ so_error' = IF ~closed["client"] /\ (waited \/ channel # <<>>) THEN "pending" ELSE so_error

sock_destroy(t) ==
  /\ In(t, "destroy") /\ open' = open - 1 /\ held' = held - 1
  /\ IF t = "client"
     THEN /\ closed' = [closed EXCEPT !["client"] = TRUE] /\ UNCHANGED <<so_error, channel>>
          /\ tcp' = (IF tcp = "syn" THEN "failed" ELSE tcp) /\ Go(t, "end")
     ELSE CloseServer(FALSE) /\ Go(t, "leave") /\ UNCHANGED tcp
  /\ UNCHANGED <<nonblocking, received, listening, accepted, interrupts>>

\* A connection that waits to be accepted is reset with the listening socket.
DestroyListener ==
  /\ In("server", "leave") /\ Go("server", "end")
  /\ listening' = FALSE /\ open' = open - 1 /\ held' = held - 1
  /\ IF tcp = "established" /\ ~accepted THEN CloseServer(TRUE) ELSE UNCHANGED <<closed, so_error, channel>>
  /\ UNCHANGED <<nonblocking, received, tcp, accepted, interrupts>>

-----------------------------------------------------------------------------
\* The handshake; an answer that comes late is found by the next sock_connect().
Network ==
  /\ tcp = "syn" /\ tcp' = IF listening THEN "established" ELSE "refused"
  /\ UNCHANGED <<nonblocking, th, received, so_error, channel, ends, fds, interrupts>>

\* What connect() says once there is an answer.
Answer ==
  \/ tcp = "established" /\ so_error = "none" /\ Return("client", NoError) /\ UNCHANGED <<tcp, so_error>>
  \/ tcp = "established" /\ so_error = "pending" /\ Return("client", "ECONNRESET") /\ so_error' = "seen" /\ UNCHANGED tcp
  \/ tcp = "refused" /\ tcp' = "failed" /\ Return("client", "ECONNREFUSED") /\ UNCHANGED so_error

\* connect(), the first or one after an earlier one was given up; a blocking one
\* waits for the answer or is interrupted.  EAGAIN, with which connect() has not
\* begun anything, is taken for EINPROGRESS.
Connect ==
  /\ In("client", "connect")
  /\ \/ Answer
     \/ /\ tcp = "none" /\ tcp' = "syn" /\ UNCHANGED so_error
        /\ Go("client", IF nonblocking THEN "select" ELSE "connecting")
     \/ /\ tcp = "syn" /\ UNCHANGED <<tcp, so_error>>
        /\ IF nonblocking THEN Return("client", "EALREADY") ELSE Go("client", "connecting")
     \/ /\ tcp = "none" /\ UNCHANGED <<tcp, so_error>>
        /\ th' = [th EXCEPT !["client"].pc = "select", !["client"].err = "EAGAIN"]
  /\ UNCHANGED <<nonblocking, received, channel, ends, fds, interrupts>>

Connecting ==
  /\ In("client", "connecting")
  /\ \/ Answer /\ UNCHANGED interrupts
     \/ Interrupted /\ Return("client", "EINTR") /\ UNCHANGED <<tcp, so_error>>
  /\ UNCHANGED <<nonblocking, received, channel, ends, fds>>

-----------------------------------------------------------------------------
\* sock_check_status(), called by sock_connect() or the programs: the client waits
\* to write, the server to read or accept.  A socket without a connection is ready
\* for whatever fails on it.
Broken == tcp \in {"none", "refused", "failed"} \/ so_error # "none"
Ready(t) ==
  CASE t = "client" -> Broken \/ (tcp = "established" /\ (closed["server"] \/ Len(channel) < Capacity))
    [] t = "server" /\ accepted -> channel # <<>> \/ closed["client"]
    [] OTHER -> tcp = "established"

\* The other direction: the client to read, the server to write.
OtherReady(t) == IF t = "client" THEN Broken \/ closed["server"] ELSE accepted

\* select() leaves the bit of the set that it was passed only if the socket is ready.
\* Mutant: the bits of a caller are taken as they were set before select().
IsSetStale(t) == th[t].fn = "check" \/ Ready(t)
IsSet(t) == th[t].asked /\ Ready(t)

Select(t) ==
  /\ In(t, "select")
  /\ \/ /\ th[t].timed \/ (IF th[t].asked THEN Ready(t) ELSE OtherReady(t))
        /\ th' = [th EXCEPT ![t].pc = "getsockopt", ![t].status = IsSet(t)] /\ UNCHANGED interrupts
     \/ Interrupted /\ Return(t, "EINTR")
  /\ UNCHANGED <<nonblocking, received, tcp, so_error, channel, ends, fds>>

\* What the program finds in the bit of its transfer: that of a set which select() was
\* not passed is still set from before.
FD_ISSET(t) == th[t].status \/ ~th[t].asked

\* getsockopt(SO_ERROR) takes the error away; sock_connect() goes on from there.
Pending(t) == IF t = "server" THEN NoError
              ELSE IF tcp = "refused" THEN "ECONNREFUSED" ELSE IF so_error = "pending" THEN "ECONNRESET" ELSE NoError

\* Mutant: the error of the socket is not looked at.
VerdictOfStatus(t) == IF th[t].fn = "connect" /\ ~th[t].status THEN "ETIMEDOUT" ELSE NoError
Verdict(t) == IF Pending(t) # NoError THEN Pending(t)
              ELSE IF th[t].fn = "connect" /\ ~th[t].status THEN "ETIMEDOUT" ELSE NoError

GetError(t) ==
  /\ In(t, "getsockopt") /\ Return(t, Verdict(t))
  /\ tcp' = (IF t = "client" /\ tcp = "refused" THEN "failed" ELSE tcp)
  /\ so_error' = IF t = "client" /\ so_error = "pending" THEN "seen" ELSE so_error
  /\ UNCHANGED <<nonblocking, received, channel, ends, fds, interrupts>>

-----------------------------------------------------------------------------
\* sock_accept().
Accept ==
  /\ In("server", "accept")
  /\ \/ /\ tcp = "established" /\ accepted' = TRUE /\ open' = open + 1 /\ UNCHANGED interrupts
        /\ Go("server", IF nonblocking THEN "fcntl" ELSE "getsockname")
     \/ tcp = "established" /\ Return("server", "EMFILE") /\ UNCHANGED <<accepted, open, interrupts>>
     \/ tcp # "established" /\ nonblocking /\ Return("server", "EAGAIN") /\ UNCHANGED <<accepted, open, interrupts>>
     \/ Interrupted /\ Return("server", "EINTR") /\ UNCHANGED <<accepted, open>>
  /\ UNCHANGED <<nonblocking, received, tcp, so_error, channel, listening, closed, held>>

\* Mutant: the descriptor stays open.
GivenUpOpen == UNCHANGED <<open, closed, so_error, channel>>
GivenUp == open' = open - 1 /\ CloseServer(FALSE)

\* sock_set_nonblocking() and getsockname() may fail, or the peer is the server itself.
Examine ==
  /\ th["server"].pc \in {"fcntl", "getsockname"}
  /\ \/ UNCHANGED <<open, held, closed, so_error, channel>> /\ In("server", "fcntl") /\ Go("server", "getsockname")
     \/ In("server", "getsockname") /\ held' = held + 1 /\ Return("server", NoError)
        /\ UNCHANGED <<open, closed, so_error, channel>>
     \/ GivenUp /\ UNCHANGED held
        /\ \E e \in (IF In("server", "fcntl") THEN {"OTHER"} ELSE {"OTHER", "SELF_CONNECTED"}) : Return("server", e)
  /\ UNCHANGED <<nonblocking, received, tcp, listening, accepted, interrupts>>

-----------------------------------------------------------------------------
\* sock_send() and sock_recv(): whatever the kernel takes or gives, go on behind it.
\* Mutant: one time too many.
OnceMore(t) == th[t].handled <= th[t].len
More(t) == th[t].handled < th[t].len
Rest(t) == th[t].len - th[t].handled
Took(t, n) == th' = [th EXCEPT ![t].handled = @ + n]
Fails(t, e) == th' = [th EXCEPT ![t].err = e, ![t].pc = "return"]

\* Mutant: every send() begins at the start of the buffer.
FromStart == th["client"].total
From == th["client"].total + th["client"].handled

\* What comes after the server has closed is thrown away, and answered by a reset.
Send ==
  /\ In("client", "send") /\ More("client")
  /\ \/ \E n \in 1..Rest("client") :
          /\ tcp = "established" /\ Took("client", n) /\ UNCHANGED interrupts
          /\ IF closed["server"]
             THEN so_error = "none" /\ so_error' = "pending" /\ UNCHANGED channel
             ELSE /\ Len(channel) + n <= Capacity /\ UNCHANGED so_error
                  /\ channel' = channel \o [i \in 1..n |-> From + i]
     \/ /\ so_error # "none" /\ Fails("client", IF so_error = "pending" THEN "ECONNRESET" ELSE "EPIPE")
        /\ so_error' = "seen" /\ UNCHANGED <<channel, interrupts>>
     \/ tcp = "none" /\ Fails("client", "EPIPE") /\ UNCHANGED <<channel, so_error, interrupts>>
     \/ /\ nonblocking /\ tcp = "established" /\ ~closed["server"] /\ Len(channel) = Capacity
        /\ Fails("client", "EAGAIN") /\ UNCHANGED <<channel, so_error, interrupts>>
     \/ Interrupted /\ UNCHANGED <<th, channel, so_error>>
  /\ UNCHANGED <<nonblocking, received, tcp, ends, fds>>

\* Mutant: whatever is not data is a shutdown.
RecvErrorAlwaysEPIPE == "EPIPE"
RecvError == IF closed["client"] THEN "EPIPE" ELSE "EAGAIN"

Recv ==
  /\ In("server", "recv") /\ More("server")
  /\ \/ \E n \in 1..Rest("server") :
          /\ n <= Len(channel) /\ Took("server", n) /\ UNCHANGED interrupts
          /\ received' = received \o SubSeq(channel, 1, n)
          /\ channel' = SubSeq(channel, n + 1, Len(channel))
     \/ /\ channel = <<>> /\ (closed["client"] \/ nonblocking) /\ Fails("server", RecvError)
        /\ UNCHANGED <<channel, received, interrupts>>
     \/ Interrupted /\ UNCHANGED <<th, channel, received>>
  /\ UNCHANGED <<nonblocking, tcp, so_error, ends, fds>>

LoopEnds(t) ==
  /\ th[t].pc \in {"send", "recv"} /\ ~More(t) /\ Go(t, "return")
  /\ UNCHANGED <<nonblocking, received, tcp, so_error, channel, ends, fds, interrupts>>

\* The program counts what it is told and goes on from there.
TransferReturns(t) ==
  /\ In(t, "return")
  /\ th' = [th EXCEPT ![t].pc = "returned", ![t].ret = th[t].err, ![t].total = @ + th[t].handled,
                      ![t].handled = 0, ![t].status = FALSE]
  /\ UNCHANGED <<nonblocking, received, tcp, so_error, channel, ends, fds, interrupts>>

-----------------------------------------------------------------------------
\* The programs: what they do with the answer, as the comments of the header advise.
\* They wait for the other direction only for a time.
HasConnection(t) == t = "client" \/ (accepted /\ ~closed["server"])
Choices(t, fn, r) ==
  CASE r = "EINTR" /\ fn # "connect" -> {fn}
    [] fn = "bind" -> IF r = NoError THEN {"listen"} ELSE {"leave"}
    [] fn = "listen" -> IF r = NoError THEN {"accept"} ELSE {"leave"}
    [] fn = "connect" /\ r \in {"ETIMEDOUT", "EINTR"} -> {"connect", "destroy"}
    [] r = "EAGAIN" -> {"check"}
    [] fn = "check" /\ ~HasConnection(t) -> IF FD_ISSET(t) THEN {"accept"} ELSE {"check", "leave"}
    [] fn = "accept" /\ r \notin {NoError, "EAGAIN", "EINTR"} -> {"leave"}
    [] fn = "transfer" /\ t = "client" /\ r # "EAGAIN" -> {"destroy"}
    [] OTHER -> IF r = NoError THEN {"transfer", "destroy"} ELSE {"destroy"}

Program(t) ==
  /\ In(t, "returned")
  /\ \E fn \in Choices(t, th[t].fn, th[t].ret), timed, asked \in BOOLEAN :
       /\ fn \in {"connect", "check"} \/ ~timed
       /\ asked \/ (fn = "check" /\ timed)
       /\ Begin(t, fn, timed, asked)
  /\ UNCHANGED <<nonblocking, received, tcp, so_error, channel, ends, fds, interrupts>>

-----------------------------------------------------------------------------
Init ==
  /\ nonblocking \in BOOLEAN
  /\ th = [t \in Thread |-> [fn |-> "create", pc |-> "create", timed |-> FALSE, asked |-> TRUE, status |-> FALSE, ret |-> NoError,
                             handled |-> 0, len |-> 0, err |-> NoError, total |-> 0]]
  /\ received = <<>> /\ tcp = "none" /\ so_error = "none" /\ channel = <<>> /\ listening = FALSE /\ accepted = FALSE
  /\ closed = [t \in Thread |-> FALSE] /\ open = 0 /\ held = 0 /\ interrupts = 0

Client == Connect \/ Connecting \/ Send
Server == sock_bind \/ sock_listen \/ DestroyListener \/ Accept \/ Examine \/ Recv
Step(t) ==
  \/ sock_create(t) \/ sock_destroy(t) \/ Select(t) \/ GetError(t) \/ LoopEnds(t) \/ TransferReturns(t) \/ Program(t)
  \/ t = "client" /\ Client
  \/ t = "server" /\ Server

Next == Network \/ \E t \in Thread : Step(t)
\* Both programs keep running, and the network answers in the end.
Spec == Init /\ [][Next]_vars /\ WF_vars(Network) /\ \A t \in Thread : WF_vars(Step(t))

-----------------------------------------------------------------------------
\* However the transfer is cut into pieces, interrupted and tried again: the server
\* has got the bytes in order, each once, as many as it was told of; and until it
\* closes, those it has and those on the way are those the client was told of.
StreamIntact ==
  /\ \A i \in DOMAIN received : received[i] = i
  /\ Len(received) = th["server"].total + th["server"].handled
  /\ ~closed["server"] =>
       received \o channel = [i \in 1..(th["client"].total + th["client"].handled) |-> i]

\* The shutdown that sock_recv() tells of by EPIPE is orderly: the client has closed,
\* and everything that it was told to be sent has come before.
EndTellsTruth ==
  In("server", "return") /\ th["server"].err = "EPIPE" =>
    closed["client"] /\ Len(received) = th["client"].total + th["client"].handled

\* When sock_connect() returns 0 there is a connection, also if it was called again
\* after a timeout or an interrupt, in all cases but one: connect() has said EAGAIN,
\* and then there is none.
ConnectTellsTruth ==
  In("client", "returned") /\ th["client"].fn = "connect" /\ th["client"].ret = NoError =>
    (tcp = "established" <=> th["client"].err # "EAGAIN")

\* After a status that was asked for and found, sock_send() and sock_recv() do not
\* come back with nothing to be tried later.  Only the status tells: a bit that was
\* not asked for is set whatever the socket is (FD_ISSET).
ReadyMeansProgress ==
  \A t \in Thread : In(t, "return") /\ th[t].err = "EAGAIN" /\ th[t].handled = 0 => ~th[t].status

\* Every descriptor that is open is known to a program, or to sock_accept() which
\* still examines it: whatever fails there, it is closed.
NoFdLost == open = held + (IF th["server"].pc \in {"fcntl", "getsockname"} THEN 1 ELSE 0)

\* The client comes to its end, and the server too once it has accepted: no retry
\* goes on for ever and nobody waits for somebody who has gone.
ProgramsEnd == <>In("client", "end") /\ (accepted ~> In("server", "end"))
=============================================================================
