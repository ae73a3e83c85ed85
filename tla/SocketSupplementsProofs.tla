----------------------- MODULE SocketSupplementsProofs -----------------------
(***************************************************************************)
(* Proofs about SocketSupplements for any message, any sizes of the        *)
(* buffers and any number of interrupts.                                   *)
(***************************************************************************)
EXTENDS SocketSupplements, SequenceLemmas, TLAPS

-----------------------------------------------------------------------------
(* The inductive invariant.                                                *)

client == th["client"]
server == th["server"]
Fields == {"fn", "pc", "timed", "asked", "status", "ret", "handled", "len", "err", "total"}

Frames ==
  /\ DOMAIN th = Thread
  /\ \A t \in Thread : /\ DOMAIN th[t] = Fields /\ th[t].status \in BOOLEAN
                       /\ th[t].handled \in Nat /\ th[t].total \in Nat /\ th[t].len \in Int

Data ==
  /\ received \in Seq(Nat) /\ channel \in Seq(Nat) /\ open \in Int /\ held \in Int
  /\ tcp \in {"none", "syn", "established", "refused", "failed"} /\ so_error \in {"none", "pending", "seen"}
  /\ closed \in [Thread -> BOOLEAN]

\* The system calls of each function of the two programs.
Points ==
  /\ \/ client.fn = "create" /\ client.pc \in {"create", "end"}
     \/ client.fn = "connect" /\ client.pc \in {"connect", "connecting", "select", "getsockopt", "returned"}
     \/ client.fn = "check" /\ client.pc \in {"select", "getsockopt", "returned"}
     \/ client.fn = "transfer" /\ client.pc \in {"send", "return", "returned"}
     \/ client.fn = "destroy" /\ client.pc \in {"destroy", "end"}
  /\ \/ server.fn = "create" /\ server.pc \in {"create", "end"}
     \/ server.fn \in {"bind", "listen"} /\ server.pc \in {server.fn, "returned"}
     \/ server.fn = "accept" /\ server.pc \in {"accept", "fcntl", "getsockname", "returned"}
     \/ server.fn = "check" /\ server.pc \in {"select", "getsockopt", "returned"}
     \/ server.fn = "transfer" /\ server.pc \in {"recv", "return", "returned"}
     \/ server.fn \in {"destroy", "leave"} /\ server.pc \in {server.fn, "leave", "end"}

\* What a function has counted or found belongs to that call; a status is given
\* to the transfer that follows.
Locals ==
  \A t \in Thread :
    /\ th[t].pc \notin {"send", "recv", "return"} => th[t].handled = 0
    /\ th[t].pc \in {"connect", "connecting", "send", "recv"} => th[t].err = NoError
    /\ th[t].fn \notin {"check", "connect", "transfer"} => ~th[t].status

\* How far the client is with the connection, and what sock_connect() says of it.
Handshake ==
  /\ client.fn \in {"check", "transfer"} => tcp \in {"established", "none"}
  /\ client.fn = "connect" /\ client.pc # "connect" => (tcp = "none" <=> client.err = "EAGAIN")
  /\ so_error # "none" => closed["server"] /\ tcp = "established"
  /\ channel # <<>> => tcp = "established"
  /\ tcp = "failed" => \/ client.pc \in {"destroy", "end"}
                       \/ client.pc = "returned" /\ client.fn = "connect" /\ client.ret = "ECONNREFUSED"
  /\ client.fn = "connect" /\ client.pc = "returned" => client.ret # "EAGAIN"
  /\ client.pc \in {"connect", "connecting"} => ~client.status
  /\ client.status => tcp # "syn"

\* A program that has closed its end makes no more calls on it.
Closing ==
  /\ closed["client"] => client.pc = "end"
  /\ closed["server"] => /\ channel = <<>> /\ ~server.status
                         /\ \/ server.pc \in {"leave", "end"}
                            \/ server.pc = "returned" /\ server.fn = "accept" /\ server.ret \in {"OTHER", "SELF_CONNECTED"}
  /\ server.fn \in {"transfer", "destroy"} \/ server.pc \in {"fcntl", "getsockname"} => accepted
  /\ server.fn = "accept" /\ server.pc = "returned" /\ server.ret = NoError => accepted

\* What was found by select() is still so when the transfer has not begun.
StatusHolds ==
  /\ client.status /\ client.handled = 0 => tcp # "established" \/ closed["server"] \/ Len(channel) < Capacity
  /\ server.status /\ server.handled = 0 /\ accepted => channel # <<>> \/ closed["client"]

\* StreamIntact, byte by byte.
Stream ==
  /\ Len(received) = server.total + server.handled /\ \A i \in 1..Len(received) : received[i] = i
  /\ ~closed["server"] => Counts(received, channel, client.total + client.handled)

IInv ==
  /\ Frames /\ Data /\ Points /\ Locals /\ Handshake /\ Closing /\ StatusHolds
  /\ Stream /\ EndTellsTruth /\ ConnectTellsTruth /\ ReadyMeansProgress /\ NoFdLost

-----------------------------------------------------------------------------
(* What a step makes of the frame of t; the other program's stays.          *)

Becomes(t, fn, pc, status, ret, handled, err, total) ==
  /\ Frames'
  /\ th'[t].fn = fn /\ th'[t].pc = pc /\ th'[t].status = status /\ th'[t].ret = ret
  /\ th'[t].handled = handled /\ th'[t].err = err /\ th'[t].total = total
  /\ \A u \in Thread \ {t} : th'[u] = th[u]

LEMMA GoFrame ==
  ASSUME Frames, NEW t \in Thread, NEW c, Go(t, c)
  PROVE  Becomes(t, th[t].fn, c, th[t].status, th[t].ret, th[t].handled, th[t].err, th[t].total)
BY DEF Frames, Fields, Go, Becomes

LEMMA ReturnFrame ==
  ASSUME Frames, NEW t \in Thread, NEW r, Return(t, r)
  PROVE  Becomes(t, th[t].fn, "returned", th[t].status, r, th[t].handled, th[t].err, th[t].total)
BY DEF Frames, Fields, Return, Becomes

LEMMA TookFrame ==
  ASSUME Frames, NEW t \in Thread, NEW n \in Nat, Took(t, n)
  PROVE  Becomes(t, th[t].fn, th[t].pc, th[t].status, th[t].ret, th[t].handled + n, th[t].err, th[t].total)
BY DEF Frames, Fields, Took, Becomes

LEMMA FailsFrame ==
  ASSUME Frames, NEW t \in Thread, NEW e, Fails(t, e)
  PROVE  Becomes(t, th[t].fn, "return", th[t].status, th[t].ret, th[t].handled, e, th[t].total)
BY DEF Frames, Fields, Fails, Becomes

LEMMA StatusFrame ==
  ASSUME Frames, NEW t \in Thread, NEW b \in BOOLEAN, th' = [th EXCEPT ![t].pc = "getsockopt", ![t].status = b]
  PROVE  Becomes(t, th[t].fn, "getsockopt", b, th[t].ret, th[t].handled, th[t].err, th[t].total)
BY DEF Frames, Fields, Becomes

LEMMA AgainFrame ==
  ASSUME Frames, NEW t \in Thread, th' = [th EXCEPT ![t].pc = "select", ![t].err = "EAGAIN"]
  PROVE  Becomes(t, th[t].fn, "select", th[t].status, th[t].ret, th[t].handled, "EAGAIN", th[t].total)
BY DEF Frames, Fields, Becomes

LEMMA FramesStep ==
  ASSUME Frames, NEW t \in Thread, DOMAIN th' = Thread, \A u \in Thread \ {t} : th'[u] = th[u],
         DOMAIN th'[t] = Fields, th'[t].status \in BOOLEAN,
         th'[t].handled \in Nat, th'[t].total \in Nat, th'[t].len \in Int
  PROVE  Frames'
BY DEF Frames

LEMMA TransferFrame ==
  ASSUME Frames, NEW t \in Thread, TransferReturns(t)
  PROVE  Becomes(t, th[t].fn, "returned", FALSE, th[t].err, 0, th[t].err, th[t].total + th[t].handled)
<1>1. /\ th'[t].pc = "returned" /\ th'[t].fn = th[t].fn /\ th'[t].status = FALSE /\ th'[t].ret = th[t].err
      /\ th'[t].handled = 0 /\ th'[t].err = th[t].err /\ th'[t].total = th[t].total + th[t].handled
  BY DEF Frames, Fields, TransferReturns
<1>2. th'[t].len = th[t].len
  BY DEF Frames, Fields, TransferReturns
<1>3. DOMAIN th'[t] = Fields /\ DOMAIN th' = Thread /\ \A u \in Thread \ {t} : th'[u] = th[u]
  BY DEF Frames, TransferReturns
<1>4. th[t].len \in Int /\ th[t].total \in Nat /\ th[t].handled \in Nat
  BY DEF Frames
<1>5. th'[t].status \in BOOLEAN 
  BY <1>1
<1>51. th'[t].handled \in Nat /\ th'[t].len \in Int
  BY <1>1, <1>2, <1>4
<1>52. th'[t].total \in Nat
  BY <1>1, <1>4
<1>6. Frames'
  BY <1>3, <1>5, <1>51, <1>52, FramesStep
<1>. QED  BY <1>1, <1>3, <1>6 DEF Becomes

LEMMA BeginFrame ==
  ASSUME Frames, NEW t \in Thread, NEW fn, NEW timed, NEW asked, Begin(t, fn, timed, asked)
  PROVE  Becomes(t, fn, First(t, fn), th[t].status /\ fn = "transfer", th[t].ret, 0, NoError, th[t].total)
<1>. DEFINE len == IF t = "client" THEN MsgLen - th[t].total ELSE RecvLen
<1>1. len \in Int
  BY SizesAssumption DEF Frames
<1>2. th' = [th EXCEPT ![t].fn = fn, ![t].pc = First(t, fn), ![t].timed = timed, ![t].asked = asked,
                       ![t].handled = 0, ![t].err = NoError, ![t].status = @ /\ fn = "transfer", ![t].len = len]
  BY DEF Begin
<1>. HIDE DEF len
<1>3. th'[t].fn = fn /\ th'[t].pc = First(t, fn)
  BY <1>2 DEF Frames, Fields
<1>4. th'[t].status = (th[t].status /\ fn = "transfer") /\ th'[t].ret = th[t].ret
  BY <1>2 DEF Frames, Fields
<1>5. th'[t].handled = 0 /\ th'[t].err = NoError
  BY <1>2 DEF Frames, Fields
<1>6. th'[t].total = th[t].total /\ th'[t].len = len
  BY <1>2 DEF Frames, Fields
<1>7. DOMAIN th'[t] = Fields /\ DOMAIN th' = Thread /\ \A u \in Thread \ {t} : th'[u] = th[u]
  BY <1>2 DEF Frames
<1>8. th[t].status \in BOOLEAN /\ th[t].total \in Nat
  BY DEF Frames
<1>9. th'[t].status \in BOOLEAN /\ th'[t].handled \in Nat /\ th'[t].total \in Nat /\ th'[t].len \in Int
  BY <1>1, <1>4, <1>5, <1>6, <1>8
<1>10. Frames'
  BY <1>7, <1>9, FramesStep
<1>. QED  BY <1>3, <1>4, <1>5, <1>6, <1>7, <1>10 DEF Becomes

-----------------------------------------------------------------------------
(* The steps.                                                              *)

LEMMA Counters == Data => open \in Int /\ held \in Int
BY DEF Data

LEMMA CreateStep ==
  ASSUME IInv, NEW t \in Thread, sock_create(t)
  PROVE  IInv'
<1>. USE DEF IInv, client, server, Thread, ends, fds, In
<1>1. /\ th[t].pc = "create"
      /\ UNCHANGED <<received, tcp, so_error, channel, ends>>
  BY DEF sock_create
<1>2. CASE /\ open' = open + 1 /\ held' = held + 1
           /\ \E timed \in {FALSE, t = "client"} : Begin(t, IF t = "client" THEN "connect" ELSE "bind", timed, TRUE)
  <2>1. Becomes(t, IF t = "client" THEN "connect" ELSE "bind", IF t = "client" THEN "connect" ELSE "bind",
                FALSE, th[t].ret, 0, NoError, th[t].total)
    BY <1>2, BeginFrame DEF First
  <2>2. Data'
    BY <1>1, <1>2 DEF Data
  <2>3. Points' /\ Locals'
    BY <1>1, <1>2, <2>1 DEF Becomes, Points, Locals
  <2>4. Handshake' /\ Closing'
    BY <1>1, <1>2, <2>1 DEF Becomes, Points, Locals, Handshake, Closing
  <2>5. StatusHolds' /\ ReadyMeansProgress'
    BY <1>1, <1>2, <2>1 DEF Becomes, Points, Locals, Handshake, Closing, StatusHolds, ReadyMeansProgress
  <2>6. Stream' /\ EndTellsTruth'
    BY <1>1, <1>2, <2>1 DEF Becomes, Points, Locals, Closing, Stream, EndTellsTruth
  <2>7. ConnectTellsTruth'
    BY <1>1, <1>2, <2>1 DEF Becomes, Points, ConnectTellsTruth
  <2>8. NoFdLost'
    BY <1>1, <1>2, <2>1, Counters DEF Becomes, NoFdLost
  <2>. QED  BY <2>1, <2>2, <2>3, <2>4, <2>5, <2>6, <2>7, <2>8 DEF Becomes
<1>3. CASE UNCHANGED fds /\ Go(t, "end")
  <2>1. Becomes(t, th[t].fn, "end", th[t].status, th[t].ret, th[t].handled, th[t].err, th[t].total)
    BY <1>3, GoFrame
  <2>2. Data'
    BY <1>1, <1>3 DEF Data
  <2>3. Points' /\ Locals'
    BY <1>1, <1>3, <2>1 DEF Becomes, Points, Locals
  <2>4. Handshake' /\ Closing'
    BY <1>1, <1>3, <2>1 DEF Becomes, Points, Locals, Handshake, Closing
  <2>5. StatusHolds' /\ ReadyMeansProgress'
    BY <1>1, <1>3, <2>1 DEF Becomes, Points, Locals, Handshake, Closing, StatusHolds, ReadyMeansProgress
  <2>6. Stream' /\ EndTellsTruth'
    BY <1>1, <1>3, <2>1 DEF Becomes, Points, Locals, Closing, Stream, EndTellsTruth
  <2>7. ConnectTellsTruth'
    BY <1>1, <1>3, <2>1 DEF Becomes, Points, ConnectTellsTruth
  <2>8. NoFdLost'
    BY <1>1, <1>3, <2>1, Counters DEF Becomes, NoFdLost
  <2>. QED  BY <2>1, <2>2, <2>3, <2>4, <2>5, <2>6, <2>7, <2>8 DEF Becomes
<1>. QED  BY <1>2, <1>3 DEF sock_create

LEMMA ListenSteps ==
  ASSUME IInv, sock_bind \/ sock_listen
  PROVE  IInv'
<1>. USE DEF IInv, client, server, Thread, fds, In
<1>0. /\ server.pc \in {"bind", "listen"}
      /\ UNCHANGED <<received, tcp, so_error, channel, accepted, closed, fds>>
      /\ \E r : Return("server", r)
  BY DEF sock_bind, sock_listen, ends
<1>1. \E r : Becomes("server", server.fn, "returned", server.status, r, server.handled, server.err, server.total)
  BY <1>0, ReturnFrame
<1>2. Data'
  BY <1>0 DEF Data
<1>3. Points' /\ Locals'
  BY <1>0, <1>1 DEF Becomes, Points, Locals
<1>4. Handshake' /\ Closing'
  BY <1>0, <1>1 DEF Becomes, Points, Locals, Handshake, Closing
<1>5. StatusHolds' /\ ReadyMeansProgress'
  BY <1>0, <1>1 DEF Becomes, Points, Locals, Handshake, Closing, StatusHolds, ReadyMeansProgress
<1>6. Stream' /\ EndTellsTruth'
  BY <1>0, <1>1 DEF Becomes, Points, Locals, Closing, Stream, EndTellsTruth
<1>7. ConnectTellsTruth'
  BY <1>0, <1>1 DEF Becomes, Points, ConnectTellsTruth
<1>8. NoFdLost'
  BY <1>0, <1>1, Counters DEF Becomes, NoFdLost
<1>. QED  BY <1>1, <1>2, <1>3, <1>4, <1>5, <1>6, <1>7, <1>8 DEF Becomes

\* Closing an end: a client that has closed sends nothing more, and nothing is on
\* the way to a server that has.
LEMMA DestroySteps ==
  ASSUME IInv, (\E t \in Thread : sock_destroy(t)) \/ DestroyListener
  PROVE  IInv'
<1>. USE DEF IInv, client, server, Thread, In
<1>1. CASE sock_destroy("client")
  <2>0. /\ client.pc = "destroy" /\ Go("client", "end") /\ closed' = [closed EXCEPT !["client"] = TRUE]
        /\ open' = open - 1 /\ held' = held - 1 /\ tcp' = IF tcp = "syn" THEN "failed" ELSE tcp
        /\ UNCHANGED <<received, so_error, channel, accepted>>
    BY <1>1 DEF sock_destroy
  <2>1. Becomes("client", client.fn, "end", client.status, client.ret, client.handled, client.err, client.total)
    BY <2>0, GoFrame
  <2>2. Data'
    BY <2>0 DEF Data
  <2>3. Points' /\ Locals'
    BY <2>0, <2>1 DEF Becomes, Points, Locals
  <2>4. Handshake' /\ Closing'
    BY <2>0, <2>1 DEF Becomes, Points, Locals, Handshake, Closing, Data
  <2>5. StatusHolds' /\ ReadyMeansProgress'
    BY <2>0, <2>1 DEF Becomes, Points, Locals, Handshake, Closing, StatusHolds, ReadyMeansProgress, Data
  <2>6. Stream' /\ EndTellsTruth'
    BY <2>0, <2>1 DEF Becomes, Points, Locals, Closing, Stream, EndTellsTruth, Data
  <2>7. ConnectTellsTruth'
    BY <2>0, <2>1 DEF Becomes, Points, ConnectTellsTruth
  <2>8. NoFdLost'
    BY <2>0, <2>1, Counters DEF Becomes, NoFdLost
  <2>. QED  BY <2>1, <2>2, <2>3, <2>4, <2>5, <2>6, <2>7, <2>8 DEF Becomes
<1>2. CASE sock_destroy("server")
  <2>0. /\ server.pc = "destroy" /\ Go("server", "leave") /\ closed' = [closed EXCEPT !["server"] = TRUE] /\ channel' = <<>>
        /\ open' = open - 1 /\ held' = held - 1
        /\ so_error' = so_error \/ (channel # <<>> /\ so_error' = "pending")
        /\ UNCHANGED <<received, tcp, accepted>>
    BY <1>2 DEF sock_destroy, CloseServer
  <2>1. Becomes("server", server.fn, "leave", server.status, server.ret, server.handled, server.err, server.total)
    BY <2>0, GoFrame
  <2>2. Data'
    BY <2>0 DEF Data
  <2>3. Points' /\ Locals'
    BY <2>0, <2>1 DEF Becomes, Points, Locals
  <2>4. Handshake' /\ Closing'
    BY <2>0, <2>1 DEF Becomes, Points, Locals, Handshake, Closing, Data
  <2>5. StatusHolds' /\ ReadyMeansProgress'
    BY <2>0, <2>1 DEF Becomes, Points, Locals, Handshake, Closing, StatusHolds, ReadyMeansProgress, Data
  <2>6. Stream' /\ EndTellsTruth'
    BY <2>0, <2>1 DEF Becomes, Points, Locals, Closing, Stream, EndTellsTruth, Data
  <2>7. ConnectTellsTruth'
    BY <2>0, <2>1 DEF Becomes, Points, ConnectTellsTruth
  <2>8. NoFdLost'
    BY <2>0, <2>1, Counters DEF Becomes, NoFdLost
  <2>. QED  BY <2>1, <2>2, <2>3, <2>4, <2>5, <2>6, <2>7, <2>8 DEF Becomes
<1>3. CASE DestroyListener
  <2>0. /\ server.pc = "leave" /\ Go("server", "end")
        /\ open' = open - 1 /\ held' = held - 1
        /\ \/ UNCHANGED <<closed, so_error, channel>>
           \/ /\ tcp = "established" /\ closed' = [closed EXCEPT !["server"] = TRUE] /\ channel' = <<>>
              /\ so_error' = so_error \/ so_error' = "pending"
        /\ UNCHANGED <<received, tcp, accepted>>
    BY <1>3 DEF DestroyListener, CloseServer
  <2>9. closed' \in [Thread -> BOOLEAN] /\ channel' \in Seq(Nat)
    <3>1. CASE UNCHANGED <<closed, channel>>
      BY <3>1 DEF Data
    <3>2. CASE closed' = [closed EXCEPT !["server"] = TRUE] /\ channel' = <<>>
      BY <3>2 DEF Data
    <3>. QED  BY <3>1, <3>2, <2>0
  <2>1. Becomes("server", server.fn, "end", server.status, server.ret, server.handled, server.err, server.total)
    BY <2>0, GoFrame
  <2>2. Data'
    BY <2>0, <2>9 DEF Data
  <2>3. Points' /\ Locals'
    BY <2>0, <2>1 DEF Becomes, Points, Locals
  <2>4. Handshake' /\ Closing'
    BY <2>0, <2>1 DEF Becomes, Points, Locals, Handshake, Closing, Data
  <2>5. StatusHolds' /\ ReadyMeansProgress'
    BY <2>0, <2>1 DEF Becomes, Points, Locals, Handshake, Closing, StatusHolds, ReadyMeansProgress, Data
  <2>6. Stream' /\ EndTellsTruth'
    BY <2>0, <2>1 DEF Becomes, Points, Locals, Closing, Stream, EndTellsTruth, Data
  <2>7. ConnectTellsTruth'
    BY <2>0, <2>1 DEF Becomes, Points, ConnectTellsTruth
  <2>8. NoFdLost'
    BY <2>0, <2>1, Counters DEF Becomes, NoFdLost
  <2>. QED  BY <2>1, <2>2, <2>3, <2>4, <2>5, <2>6, <2>7, <2>8 DEF Becomes
<1>. QED  BY <1>1, <1>2, <1>3

-----------------------------------------------------------------------------
\* What has been sent does not depend on the handshake.
LEMMA NetworkStep ==
  ASSUME IInv, Network
  PROVE  IInv'
<1>. USE DEF IInv, client, server, Thread, In
<1>0. /\ tcp = "syn" /\ tcp' \in {"established", "refused"}
      /\ UNCHANGED <<th, received, so_error, channel, accepted, closed, open, held>>
  BY DEF Network, ends, fds
<1>1. Frames'
  BY <1>0 DEF Frames
<1>2. Data'
  BY <1>0 DEF Data
<1>3. Points' /\ Locals'
  BY <1>0, <1>1 DEF Becomes, Points, Locals
<1>4. Handshake' /\ Closing'
  BY <1>0, <1>1 DEF Becomes, Points, Locals, Handshake, Closing
<1>5. StatusHolds' /\ ReadyMeansProgress'
  BY <1>0, <1>1 DEF Becomes, Points, Locals, Handshake, Closing, StatusHolds, ReadyMeansProgress
<1>6. Stream' /\ EndTellsTruth'
  BY <1>0, <1>1 DEF Becomes, Points, Locals, Closing, Stream, EndTellsTruth
<1>7. ConnectTellsTruth'
  BY <1>0, <1>1 DEF Becomes, Points, ConnectTellsTruth, Handshake
<1>8. NoFdLost'
  BY <1>0, <1>1, Counters DEF Becomes, NoFdLost
<1>. QED  BY <1>1, <1>2, <1>3, <1>4, <1>5, <1>6, <1>7, <1>8 DEF Becomes

\* connect() tells the truth, and a client that it has refused gives up.
LEMMA ConnectSteps ==
  ASSUME IInv, Connect \/ Connecting
  PROVE  IInv'
<1>. USE DEF IInv, client, server, Thread, In, NoError
<1>0. /\ client.pc \in {"connect", "connecting"} /\ client.fn = "connect"
      /\ UNCHANGED <<received, channel, accepted, closed, open, held>>
  BY DEF Connect, Connecting, ends, fds, Points
<1>1. CASE Answer
  <2>0. PICK r : /\ Return("client", r) /\ r \notin {"EAGAIN"} /\ (r = NoError => tcp = "established") /\ client.err = NoError
        /\ \/ tcp = "established" /\ tcp' = tcp /\ so_error' = so_error
           \/ tcp = "established" /\ tcp' = tcp /\ so_error = "pending" /\ so_error' = "seen"
           \/ tcp = "refused" /\ tcp' = "failed" /\ so_error' = so_error /\ r = "ECONNREFUSED"
    BY <1>0, <1>1 DEF Answer, Locals
  <2>1. Becomes("client", client.fn, "returned", client.status, r, client.handled, client.err, client.total)
    BY <2>0, ReturnFrame
  <2>2. Data'
    BY <1>0, <2>0 DEF Data
  <2>3. Points' /\ Locals'
    BY <1>0, <2>0, <2>1 DEF Becomes, Points, Locals
  <2>4. Handshake' /\ Closing'
    BY <1>0, <2>0, <2>1 DEF Becomes, Points, Locals, Handshake, Closing
  <2>5. StatusHolds' /\ ReadyMeansProgress'
    BY <1>0, <2>0, <2>1 DEF Becomes, Points, Locals, Handshake, Closing, StatusHolds, ReadyMeansProgress
  <2>6. Stream' /\ EndTellsTruth'
    BY <1>0, <2>0, <2>1 DEF Becomes, Points, Locals, Closing, Stream, EndTellsTruth
  <2>7. ConnectTellsTruth'
    BY <1>0, <2>0, <2>1 DEF Becomes, Points, ConnectTellsTruth
  <2>8. NoFdLost'
    BY <1>0, <2>0, <2>1, Counters DEF Becomes, NoFdLost
  <2>. QED  BY <2>1, <2>2, <2>3, <2>4, <2>5, <2>6, <2>7, <2>8 DEF Becomes
<1>2. CASE UNCHANGED so_error /\ tcp' = "syn" /\ tcp \in {"none", "syn"} /\ \E c \in {"select", "connecting"} : Go("client", c)
  <2>0. PICK c \in {"select", "connecting"} : Go("client", c)
    BY <1>2
  <2>1. Becomes("client", client.fn, c, client.status, client.ret, client.handled, client.err, client.total)
    BY <2>0, GoFrame
  <2>2. Data'
    BY <1>0, <1>2 DEF Data
  <2>3. Points' /\ Locals'
    BY <1>0, <1>2, <2>1 DEF Becomes, Points, Locals
  <2>4. Handshake' /\ Closing'
    BY <1>0, <1>2, <2>1 DEF Becomes, Points, Locals, Handshake, Closing
  <2>5. StatusHolds' /\ ReadyMeansProgress'
    BY <1>0, <1>2, <2>1 DEF Becomes, Points, Locals, Handshake, Closing, StatusHolds, ReadyMeansProgress
  <2>6. Stream' /\ EndTellsTruth'
    BY <1>0, <1>2, <2>1 DEF Becomes, Points, Locals, Closing, Stream, EndTellsTruth
  <2>7. ConnectTellsTruth'
    BY <1>0, <1>2, <2>1 DEF Becomes, Points, ConnectTellsTruth
  <2>8. NoFdLost'
    BY <1>0, <1>2, <2>1, Counters DEF Becomes, NoFdLost
  <2>. QED  BY <2>1, <2>2, <2>3, <2>4, <2>5, <2>6, <2>7, <2>8 DEF Becomes
<1>3. CASE UNCHANGED <<tcp, so_error>> /\ tcp # "none" /\ \E r \in {"EALREADY", "EINTR"} : Return("client", r)
  <2>0. PICK r \in {"EALREADY", "EINTR"} : Return("client", r) /\ UNCHANGED <<tcp, so_error>> /\ tcp # "none" /\ client.err = NoError
    BY <1>0, <1>3 DEF Locals
  <2>1. Becomes("client", client.fn, "returned", client.status, r, client.handled, client.err, client.total)
    BY <2>0, ReturnFrame
  <2>2. Data'
    BY <1>0, <1>3 DEF Data
  <2>3. Points' /\ Locals'
    BY <1>0, <2>0, <2>1 DEF Becomes, Points, Locals
  <2>4. Handshake' /\ Closing'
    BY <1>0, <2>0, <2>1 DEF Becomes, Points, Locals, Handshake, Closing
  <2>5. StatusHolds' /\ ReadyMeansProgress'
    BY <1>0, <2>0, <2>1 DEF Becomes, Points, Locals, Handshake, Closing, StatusHolds, ReadyMeansProgress
  <2>6. Stream' /\ EndTellsTruth'
    BY <1>0, <2>0, <2>1 DEF Becomes, Points, Locals, Closing, Stream, EndTellsTruth
  <2>7. ConnectTellsTruth'
    BY <1>0, <2>0, <2>1 DEF Becomes, Points, ConnectTellsTruth
  <2>8. NoFdLost'
    BY <1>0, <2>0, <2>1, Counters DEF Becomes, NoFdLost
  <2>. QED  BY <2>1, <2>2, <2>3, <2>4, <2>5, <2>6, <2>7, <2>8 DEF Becomes
<1>5. CASE /\ UNCHANGED <<tcp, so_error>> /\ tcp = "none" /\ client.pc = "connect"
           /\ th' = [th EXCEPT !["client"].pc = "select", !["client"].err = "EAGAIN"]
  <2>1. Becomes("client", client.fn, "select", client.status, client.ret, client.handled, "EAGAIN", client.total)
    BY <1>5, AgainFrame
  <2>0. UNCHANGED <<tcp, so_error>> /\ tcp = "none"
    BY <1>5
  <2>2. Data'
    BY <1>0, <2>0 DEF Data
  <2>3. Points' /\ Locals'
    BY <1>0, <2>0, <2>1 DEF Becomes, Points, Locals
  <2>4. Handshake' /\ Closing'
    BY <1>0, <2>0, <2>1 DEF Becomes, Points, Locals, Handshake, Closing
  <2>5. StatusHolds' /\ ReadyMeansProgress'
    BY <1>0, <2>0, <2>1 DEF Becomes, Points, Locals, Handshake, Closing, StatusHolds, ReadyMeansProgress
  <2>6. Stream' /\ EndTellsTruth'
    BY <1>0, <2>0, <2>1 DEF Becomes, Points, Locals, Closing, Stream, EndTellsTruth
  <2>7. ConnectTellsTruth'
    BY <1>0, <2>0, <2>1 DEF Becomes, Points, ConnectTellsTruth
  <2>8. NoFdLost'
    BY <1>0, <2>0, <2>1, Counters DEF Becomes, NoFdLost
  <2>. QED  BY <2>1, <2>2, <2>3, <2>4, <2>5, <2>6, <2>7, <2>8 DEF Becomes
<1>4. Answer \/ <1>2!1 \/ <1>3!1 \/ <1>5!1
  BY DEF Connect, Connecting, Interrupted, Handshake, Points, Locals
<1>. QED  BY <1>1, <1>2, <1>3, <1>4, <1>5

\* A status is given only to what is ready, and stays true until the transfer begins.
LEMMA SelectStep ==
  ASSUME IInv, NEW t \in Thread, Select(t)
  PROVE  IInv'
<1>. USE DEF IInv, client, server, Thread, In, NoError
<1>0. /\ th[t].pc = "select"
      /\ UNCHANGED <<received, tcp, so_error, channel, accepted, closed, open, held>>
  BY DEF Select, ends, fds
<1>1. CASE th' = [th EXCEPT ![t].pc = "getsockopt", ![t].status = IsSet(t)]
  <2>0. /\ IsSet(t) \in BOOLEAN
        /\ IsSet(t) /\ t = "client" => \/ tcp \in {"none", "refused", "failed"} \/ so_error # "none"
                                       \/ tcp = "established" /\ (closed["server"] \/ Len(channel) < Capacity)
        /\ IsSet(t) /\ t = "server" /\ accepted => channel # <<>> \/ closed["client"]
    BY DEF IsSet, Ready, Broken
  <2>1. Becomes(t, th[t].fn, "getsockopt", IsSet(t), th[t].ret, th[t].handled, th[t].err, th[t].total)
    BY <1>1, <2>0, StatusFrame
  <2>2. Data'
    BY <1>0, <2>0 DEF Data
  <2>3. Points' /\ Locals'
    BY <1>0, <2>0, <2>1 DEF Becomes, Points, Locals
  <2>4. Handshake' /\ Closing'
    BY <1>0, <2>0, <2>1 DEF Becomes, Points, Locals, Handshake, Closing
  <2>5. StatusHolds' /\ ReadyMeansProgress'
    BY <1>0, <2>0, <2>1 DEF Becomes, Points, Locals, Handshake, Closing, StatusHolds, ReadyMeansProgress
  <2>6. Stream' /\ EndTellsTruth'
    BY <1>0, <2>0, <2>1 DEF Becomes, Points, Locals, Closing, Stream, EndTellsTruth
  <2>7. ConnectTellsTruth'
    BY <1>0, <2>0, <2>1 DEF Becomes, Points, ConnectTellsTruth
  <2>8. NoFdLost'
    BY <1>0, <2>0, <2>1, Counters DEF Becomes, NoFdLost
  <2>. QED  BY <2>1, <2>2, <2>3, <2>4, <2>5, <2>6, <2>7, <2>8 DEF Becomes
<1>2. CASE Return(t, "EINTR")
  <2>1. Becomes(t, th[t].fn, "returned", th[t].status, "EINTR", th[t].handled, th[t].err, th[t].total)
    BY <1>2, ReturnFrame
  <2>2. Data'
    BY <1>0, <1>2 DEF Data
  <2>3. Points' /\ Locals'
    BY <1>0, <1>2, <2>1 DEF Becomes, Points, Locals
  <2>4. Handshake' /\ Closing'
    BY <1>0, <1>2, <2>1 DEF Becomes, Points, Locals, Handshake, Closing
  <2>5. StatusHolds' /\ ReadyMeansProgress'
    BY <1>0, <1>2, <2>1 DEF Becomes, Points, Locals, Handshake, Closing, StatusHolds, ReadyMeansProgress
  <2>6. Stream' /\ EndTellsTruth'
    BY <1>0, <1>2, <2>1 DEF Becomes, Points, Locals, Closing, Stream, EndTellsTruth
  <2>7. ConnectTellsTruth'
    BY <1>0, <1>2, <2>1 DEF Becomes, Points, ConnectTellsTruth
  <2>8. NoFdLost'
    BY <1>0, <1>2, <2>1, Counters DEF Becomes, NoFdLost
  <2>. QED  BY <2>1, <2>2, <2>3, <2>4, <2>5, <2>6, <2>7, <2>8 DEF Becomes
<1>. QED  BY <1>1, <1>2 DEF Select

\* sock_check_status() takes the error of the socket away, but tells of it.
LEMMA GetErrorStep ==
  ASSUME IInv, NEW t \in Thread, GetError(t)
  PROVE  IInv'
<1>. USE DEF IInv, client, server, Thread, In, NoError
<1>0. /\ th[t].pc = "getsockopt" /\ Return(t, Verdict(t)) /\ Verdict(t) # "EAGAIN"
      /\ UNCHANGED <<received, channel, accepted, closed, open, held>>
      /\ \/ UNCHANGED <<tcp, so_error>>
         \/ t = "client" /\ tcp = "refused" /\ tcp' = "failed" /\ UNCHANGED so_error /\ Verdict(t) = "ECONNREFUSED"
         \/ t = "client" /\ so_error = "pending" /\ so_error' = "seen" /\ UNCHANGED tcp
      /\ t = "client" /\ Verdict(t) = NoError /\ client.fn = "connect" => client.status /\ tcp # "refused"
  BY DEF GetError, ends, fds, Verdict, Pending, Handshake
<1>1. Becomes(t, th[t].fn, "returned", th[t].status, Verdict(t), th[t].handled, th[t].err, th[t].total)
  BY <1>0, ReturnFrame
<1>2. Data'
  BY <1>0 DEF Data
<1>3. Points' /\ Locals'
  BY <1>0, <1>1 DEF Becomes, Points, Locals
<1>4. Handshake' /\ Closing'
  BY <1>0, <1>1 DEF Becomes, Points, Locals, Handshake, Closing
<1>5. StatusHolds' /\ ReadyMeansProgress'
  BY <1>0, <1>1 DEF Becomes, Points, Locals, Handshake, Closing, StatusHolds, ReadyMeansProgress
<1>6. Stream' /\ EndTellsTruth'
  BY <1>0, <1>1 DEF Becomes, Points, Locals, Closing, Stream, EndTellsTruth
<1>7. ConnectTellsTruth'
  BY <1>0, <1>1 DEF Becomes, Points, ConnectTellsTruth, Handshake, Data
<1>8. NoFdLost'
  BY <1>0, <1>1, Counters DEF Becomes, NoFdLost
<1>. QED  BY <1>1, <1>2, <1>3, <1>4, <1>5, <1>6, <1>7, <1>8 DEF Becomes

-----------------------------------------------------------------------------
\* A connection that is taken is established; one that is given up is closed.
LEMMA AcceptStep ==
  ASSUME IInv, Accept
  PROVE  IInv'
<1>. USE DEF IInv, client, server, Thread, In, NoError
<1>0. /\ server.pc = "accept" /\ server.fn = "accept" /\ ~closed["server"]
      /\ UNCHANGED <<received, tcp, so_error, channel, closed, held>>
  BY DEF Accept, Points, Closing
<1>1. CASE accepted' = TRUE /\ open' = open + 1 /\ \E c \in {"fcntl", "getsockname"} : Go("server", c)
  <2>0. PICK c \in {"fcntl", "getsockname"} : Go("server", c)
    BY <1>1
  <2>1. Becomes("server", server.fn, c, server.status, server.ret, server.handled, server.err, server.total)
    BY <2>0, GoFrame
  <2>2. Data'
    BY <1>0, <1>1 DEF Data
  <2>3. Points' /\ Locals'
    BY <1>0, <1>1, <2>1 DEF Becomes, Points, Locals
  <2>4. Handshake' /\ Closing'
    BY <1>0, <1>1, <2>1 DEF Becomes, Points, Locals, Handshake, Closing
  <2>5. StatusHolds' /\ ReadyMeansProgress'
    BY <1>0, <1>1, <2>1 DEF Becomes, Points, Locals, Handshake, Closing, StatusHolds, ReadyMeansProgress
  <2>6. Stream' /\ EndTellsTruth'
    BY <1>0, <1>1, <2>1 DEF Becomes, Points, Locals, Closing, Stream, EndTellsTruth
  <2>7. ConnectTellsTruth'
    BY <1>0, <1>1, <2>1 DEF Becomes, Points, ConnectTellsTruth
  <2>8. NoFdLost'
    BY <1>0, <1>1, <2>1, Counters DEF Becomes, NoFdLost
  <2>. QED  BY <2>1, <2>2, <2>3, <2>4, <2>5, <2>6, <2>7, <2>8 DEF Becomes
<1>2. CASE UNCHANGED <<accepted, open>> /\ \E r \in {"EMFILE", "EAGAIN", "EINTR"} : Return("server", r)
  <2>0. PICK r \in {"EMFILE", "EAGAIN", "EINTR"} : Return("server", r)
    BY <1>2
  <2>1. Becomes("server", server.fn, "returned", server.status, r, server.handled, server.err, server.total)
    BY <2>0, ReturnFrame
  <2>2. Data'
    BY <1>0, <1>2, <2>0 DEF Data
  <2>3. Points' /\ Locals'
    BY <1>0, <1>2, <2>0, <2>1 DEF Becomes, Points, Locals
  <2>4. Handshake' /\ Closing'
    BY <1>0, <1>2, <2>0, <2>1 DEF Becomes, Points, Locals, Handshake, Closing
  <2>5. StatusHolds' /\ ReadyMeansProgress'
    BY <1>0, <1>2, <2>0, <2>1 DEF Becomes, Points, Locals, Handshake, Closing, StatusHolds, ReadyMeansProgress
  <2>6. Stream' /\ EndTellsTruth'
    BY <1>0, <1>2, <2>0, <2>1 DEF Becomes, Points, Locals, Closing, Stream, EndTellsTruth
  <2>7. ConnectTellsTruth'
    BY <1>0, <1>2, <2>0, <2>1 DEF Becomes, Points, ConnectTellsTruth
  <2>8. NoFdLost'
    BY <1>0, <1>2, <2>0, <2>1, Counters DEF Becomes, NoFdLost
  <2>. QED  BY <2>1, <2>2, <2>3, <2>4, <2>5, <2>6, <2>7, <2>8 DEF Becomes
<1>. QED  BY <1>1, <1>2 DEF Accept

LEMMA ExamineStep ==
  ASSUME IInv, Examine
  PROVE  IInv'
<1>. USE DEF IInv, client, server, Thread, In, NoError
<1>0. /\ server.pc \in {"fcntl", "getsockname"} /\ server.fn = "accept" /\ ~closed["server"] /\ accepted
      /\ UNCHANGED <<received, tcp, accepted>>
  BY DEF Examine, Points, Closing
<1>1. CASE UNCHANGED <<open, held, closed, so_error, channel>> /\ Go("server", "getsockname")
  <2>1. Becomes("server", server.fn, "getsockname", server.status, server.ret, server.handled, server.err, server.total)
    BY <1>1, GoFrame
  <2>2. Data'
    BY <1>0, <1>1 DEF Data
  <2>3. Points' /\ Locals'
    BY <1>0, <1>1, <2>1 DEF Becomes, Points, Locals
  <2>4. Handshake' /\ Closing'
    BY <1>0, <1>1, <2>1 DEF Becomes, Points, Locals, Handshake, Closing
  <2>5. StatusHolds' /\ ReadyMeansProgress'
    BY <1>0, <1>1, <2>1 DEF Becomes, Points, Locals, Handshake, Closing, StatusHolds, ReadyMeansProgress
  <2>6. Stream' /\ EndTellsTruth'
    BY <1>0, <1>1, <2>1 DEF Becomes, Points, Locals, Closing, Stream, EndTellsTruth
  <2>7. ConnectTellsTruth'
    BY <1>0, <1>1, <2>1 DEF Becomes, Points, ConnectTellsTruth
  <2>8. NoFdLost'
    BY <1>0, <1>1, <2>1, Counters DEF Becomes, NoFdLost
  <2>. QED  BY <2>1, <2>2, <2>3, <2>4, <2>5, <2>6, <2>7, <2>8 DEF Becomes
<1>2. CASE held' = held + 1 /\ Return("server", NoError) /\ UNCHANGED <<open, closed, so_error, channel>>
  <2>1. Becomes("server", server.fn, "returned", server.status, NoError, server.handled, server.err, server.total)
    BY <1>2, ReturnFrame
  <2>2. Data'
    BY <1>0, <1>2 DEF Data
  <2>3. Points' /\ Locals'
    BY <1>0, <1>2, <2>1 DEF Becomes, Points, Locals
  <2>4. Handshake' /\ Closing'
    BY <1>0, <1>2, <2>1 DEF Becomes, Points, Locals, Handshake, Closing
  <2>5. StatusHolds' /\ ReadyMeansProgress'
    BY <1>0, <1>2, <2>1 DEF Becomes, Points, Locals, Handshake, Closing, StatusHolds, ReadyMeansProgress
  <2>6. Stream' /\ EndTellsTruth'
    BY <1>0, <1>2, <2>1 DEF Becomes, Points, Locals, Closing, Stream, EndTellsTruth
  <2>7. ConnectTellsTruth'
    BY <1>0, <1>2, <2>1 DEF Becomes, Points, ConnectTellsTruth
  <2>8. NoFdLost'
    BY <1>0, <1>2, <2>1, Counters DEF Becomes, NoFdLost
  <2>. QED  BY <2>1, <2>2, <2>3, <2>4, <2>5, <2>6, <2>7, <2>8 DEF Becomes
<1>3. CASE GivenUp /\ UNCHANGED held /\ \E e \in {"OTHER", "SELF_CONNECTED"} : Return("server", e)
  <2>0. PICK e \in {"OTHER", "SELF_CONNECTED"} : Return("server", e)
    BY <1>3
  <2>9. /\ open' = open - 1 /\ held' = held /\ closed' = [closed EXCEPT !["server"] = TRUE] /\ channel' = <<>>
        /\ so_error' = so_error \/ (channel # <<>> /\ so_error' = "pending")
    <3>1. GivenUp /\ UNCHANGED held
      BY <1>3
    <3>. QED  BY <3>1 DEF GivenUp, CloseServer
  <2>1. Becomes("server", server.fn, "returned", server.status, e, server.handled, server.err, server.total)
    BY <2>0, ReturnFrame
  <2>2. Data'
    BY <1>0, <2>9 DEF Data
  <2>3. Points' /\ Locals'
    BY <1>0, <2>9, <2>1 DEF Becomes, Points, Locals
  <2>4. Handshake' /\ Closing'
    BY <1>0, <2>9, <2>1 DEF Becomes, Points, Locals, Handshake, Closing, Data
  <2>5. StatusHolds' /\ ReadyMeansProgress'
    BY <1>0, <2>9, <2>1 DEF Becomes, Points, Locals, Handshake, Closing, StatusHolds, ReadyMeansProgress, Data
  <2>6. Stream' /\ EndTellsTruth'
    BY <1>0, <2>9, <2>1 DEF Becomes, Points, Locals, Closing, Stream, EndTellsTruth, Data
  <2>7. ConnectTellsTruth'
    BY <1>0, <2>9, <2>1 DEF Becomes, Points, ConnectTellsTruth
  <2>8. NoFdLost'
    BY <1>0, <2>9, <2>1, Counters DEF Becomes, NoFdLost
  <2>. QED  BY <2>1, <2>2, <2>3, <2>4, <2>5, <2>6, <2>7, <2>8 DEF Becomes
<1>. QED  BY <1>1, <1>2, <1>3 DEF Examine

-----------------------------------------------------------------------------
\* What the kernel takes is appended to what the client was told of.
LEMMA SendStep ==
  ASSUME IInv, Send
  PROVE  IInv'
<1>. USE DEF IInv, client, server, Thread, In, NoError
<1>0. /\ client.pc = "send" /\ client.fn = "transfer" /\ tcp \in {"established", "none"} /\ ~closed["client"]
      /\ UNCHANGED <<received, tcp, accepted, closed, open, held>>
  BY DEF Send, ends, fds, Points, Handshake, Closing
<1>1. CASE \E n \in 1..Rest("client") :
             /\ tcp = "established" /\ Took("client", n)
             /\ IF closed["server"]
                THEN so_error = "none" /\ so_error' = "pending" /\ UNCHANGED channel
                ELSE /\ Len(channel) + n <= Capacity /\ UNCHANGED so_error
                     /\ channel' = channel \o [i \in 1..n |-> From + i]
  <2>0. PICK n \in 1..Rest("client") :
          /\ tcp = "established" /\ Took("client", n)
          /\ IF closed["server"]
             THEN so_error = "none" /\ so_error' = "pending" /\ UNCHANGED channel
             ELSE UNCHANGED so_error /\ channel' = channel \o [i \in 1..n |-> From + i]
    BY <1>1
  <2>9. n \in Nat \ {0} /\ client.handled + n \in Nat \ {0} /\ From \in Nat
    BY DEF Frames, Rest, From
  <2>1. Becomes("client", client.fn, client.pc, client.status, client.ret, client.handled + n, client.err, client.total)
    BY <2>0, <2>9, TookFrame
  <2>10. ~closed["server"] => /\ channel' \in Seq(Nat)
                              /\ Counts(received, channel', client.total + (client.handled + n))
    <3>1. ASSUME ~closed["server"]
          PROVE  /\ channel \o [i \in 1..n |-> From + i] \in Seq(Nat)
                 /\ Counts(received, channel \o [i \in 1..n |-> From + i], From + n)
      <4>1. received \in Seq(Nat) /\ channel \in Seq(Nat) /\ Counts(received, channel, From)
        BY <3>1 DEF Data, Stream, From
      <4>. QED  BY <2>9, <4>1, CountsGrow
    <3>2. From + n = client.total + (client.handled + n)
      BY <2>9 DEF From, Frames
    <3>. QED  BY <2>0, <3>1, <3>2
  <2>2. Data'
    BY <1>0, <2>0, <2>9, <2>10 DEF Data
  <2>3. Points' /\ Locals'
    BY <1>0, <2>0, <2>9, <2>1 DEF Becomes, Points, Locals
  <2>4. Handshake' /\ Closing'
    BY <1>0, <2>0, <2>9, <2>1 DEF Becomes, Points, Locals, Handshake, Closing, Data
  <2>5. StatusHolds' /\ ReadyMeansProgress'
    BY <1>0, <2>0, <2>9, <2>1 DEF Becomes, Points, Locals, Handshake, Closing, StatusHolds, ReadyMeansProgress
  <2>6. Stream' /\ EndTellsTruth'
    BY <1>0, <2>0, <2>9, <2>1, <2>10 DEF Becomes, Points, Locals, Closing, Stream, EndTellsTruth, Frames
  <2>7. ConnectTellsTruth'
    BY <1>0, <2>0, <2>9, <2>1 DEF Becomes, Points, ConnectTellsTruth
  <2>8. NoFdLost'
    BY <1>0, <2>0, <2>9, <2>1, Counters DEF Becomes, NoFdLost
  <2>. QED  BY <2>1, <2>2, <2>3, <2>4, <2>5, <2>6, <2>7, <2>8 DEF Becomes
<1>2. CASE /\ (so_error # "none" /\ so_error' = "seen") \/ UNCHANGED so_error
           /\ UNCHANGED channel /\ \E e \in {"ECONNRESET", "EPIPE"} : Fails("client", e)
  <2>0. PICK e \in {"ECONNRESET", "EPIPE"} : Fails("client", e)
    BY <1>2
  <2>1. Becomes("client", client.fn, "return", client.status, client.ret, client.handled, e, client.total)
    BY <2>0, FailsFrame
  <2>2. Data'
    BY <1>0, <1>2 DEF Data
  <2>3. Points' /\ Locals'
    BY <1>0, <1>2, <2>1 DEF Becomes, Points, Locals
  <2>4. Handshake' /\ Closing'
    BY <1>0, <1>2, <2>1 DEF Becomes, Points, Locals, Handshake, Closing
  <2>5. StatusHolds' /\ ReadyMeansProgress'
    BY <1>0, <1>2, <2>1 DEF Becomes, Points, Locals, Handshake, Closing, StatusHolds, ReadyMeansProgress
  <2>6. Stream' /\ EndTellsTruth'
    BY <1>0, <1>2, <2>1 DEF Becomes, Points, Locals, Closing, Stream, EndTellsTruth
  <2>7. ConnectTellsTruth'
    BY <1>0, <1>2, <2>1 DEF Becomes, Points, ConnectTellsTruth
  <2>8. NoFdLost'
    BY <1>0, <1>2, <2>1, Counters DEF Becomes, NoFdLost
  <2>. QED  BY <2>1, <2>2, <2>3, <2>4, <2>5, <2>6, <2>7, <2>8 DEF Becomes
<1>3. CASE tcp = "established" /\ ~closed["server"] /\ Len(channel) = Capacity /\ Fails("client", "EAGAIN") /\ UNCHANGED <<channel, so_error>>
  <2>1. Becomes("client", client.fn, "return", client.status, client.ret, client.handled, "EAGAIN", client.total)
    BY <1>3, FailsFrame
  <2>2. Data'
    BY <1>0, <1>3 DEF Data
  <2>3. Points' /\ Locals'
    BY <1>0, <1>3, <2>1 DEF Becomes, Points, Locals
  <2>4. Handshake' /\ Closing'
    BY <1>0, <1>3, <2>1 DEF Becomes, Points, Locals, Handshake, Closing
  <2>5. StatusHolds' /\ ReadyMeansProgress'
    BY <1>0, <1>3, <2>1 DEF Becomes, Points, Locals, Handshake, Closing, StatusHolds, ReadyMeansProgress
  <2>6. Stream' /\ EndTellsTruth'
    BY <1>0, <1>3, <2>1 DEF Becomes, Points, Locals, Closing, Stream, EndTellsTruth
  <2>7. ConnectTellsTruth'
    BY <1>0, <1>3, <2>1 DEF Becomes, Points, ConnectTellsTruth
  <2>8. NoFdLost'
    BY <1>0, <1>3, <2>1, Counters DEF Becomes, NoFdLost
  <2>. QED  BY <2>1, <2>2, <2>3, <2>4, <2>5, <2>6, <2>7, <2>8 DEF Becomes
<1>4. CASE UNCHANGED <<th, channel, so_error>>
  <2>1. Frames'
    BY <1>4 DEF Frames
  <2>2. Data'
    BY <1>0, <1>4 DEF Data
  <2>3. Points' /\ Locals'
    BY <1>0, <1>4, <2>1 DEF Becomes, Points, Locals
  <2>4. Handshake' /\ Closing'
    BY <1>0, <1>4, <2>1 DEF Becomes, Points, Locals, Handshake, Closing
  <2>5. StatusHolds' /\ ReadyMeansProgress'
    BY <1>0, <1>4, <2>1 DEF Becomes, Points, Locals, Handshake, Closing, StatusHolds, ReadyMeansProgress
  <2>6. Stream' /\ EndTellsTruth'
    BY <1>0, <1>4, <2>1 DEF Becomes, Points, Locals, Closing, Stream, EndTellsTruth
  <2>7. ConnectTellsTruth'
    BY <1>0, <1>4, <2>1 DEF Becomes, Points, ConnectTellsTruth
  <2>8. NoFdLost'
    BY <1>0, <1>4, <2>1, Counters DEF Becomes, NoFdLost
  <2>. QED  BY <2>1, <2>2, <2>3, <2>4, <2>5, <2>6, <2>7, <2>8 DEF Becomes
<1>5. Send => <1>1!1 \/ <1>2!1 \/ <1>3!1 \/ <1>4!1
  BY DEF Send
<1>. QED  BY <1>1, <1>2, <1>3, <1>4, <1>5

\* What the server is given is the beginning of what is on the way.
LEMMA RecvStep ==
  ASSUME IInv, Recv
  PROVE  IInv'
<1>. USE DEF IInv, client, server, Thread, In, NoError
<1>0. /\ server.pc = "recv" /\ server.fn = "transfer" /\ accepted /\ ~closed["server"]
      /\ UNCHANGED <<tcp, so_error, accepted, closed, open, held>>
  BY DEF Recv, ends, fds, Points, Closing
<1>1. CASE \E n \in 1..Rest("server") :
             /\ n <= Len(channel) /\ Took("server", n)
             /\ received' = received \o SubSeq(channel, 1, n)
             /\ channel' = SubSeq(channel, n + 1, Len(channel))
  <2>0. PICK n \in 1..Rest("server") :
             /\ n <= Len(channel) /\ Took("server", n)
             /\ received' = received \o SubSeq(channel, 1, n)
             /\ channel' = SubSeq(channel, n + 1, Len(channel))
    BY <1>1
  <2>9. /\ n \in Nat \ {0} /\ server.handled + n \in Nat \ {0} /\ n \in 0..Len(channel)
        /\ Len(received) \in Nat /\ Len(channel) \in Nat /\ channel # <<>>
    <3>1. n \in Nat \ {0} /\ server.handled \in Nat
      BY DEF Frames, Rest
    <3>2. Len(received) \in Nat /\ Len(channel) \in Nat
      BY LenProperties DEF Data
    <3>3. channel # <<>>
      BY <2>0, <3>1
    <3>. QED  BY <2>0, <3>1, <3>2, <3>3
  <2>1. Becomes("server", server.fn, server.pc, server.status, server.ret, server.handled + n, server.err, server.total)
    BY <2>0, <2>9, TookFrame
  <2>10. /\ received' \in Seq(Nat) /\ channel' \in Seq(Nat) /\ Len(received') = Len(received) + n
         /\ Len(channel') = Len(channel) - n
         /\ \A i \in 1..Len(received') : received'[i] = i
         /\ Counts(received', channel', client.total + client.handled)
    <3>1. /\ received \in Seq(Nat) /\ channel \in Seq(Nat)
          /\ Counts(received, channel, client.total + client.handled)
      BY <1>0 DEF Data, Stream
    <3>2. /\ received \o SubSeq(channel, 1, n) \in Seq(Nat) /\ SubSeq(channel, n + 1, Len(channel)) \in Seq(Nat)
          /\ Len(received \o SubSeq(channel, 1, n)) = Len(received) + n
          /\ Len(SubSeq(channel, n + 1, Len(channel))) = Len(channel) - n
          /\ Counts(received \o SubSeq(channel, 1, n), SubSeq(channel, n + 1, Len(channel)), client.total + client.handled)
      BY <2>9, <3>1, CountsMove
    <3>3. \A i \in 1..Len(received \o SubSeq(channel, 1, n)) : (received \o SubSeq(channel, 1, n))[i] = i
      BY <3>2 DEF Counts
    <3>. QED  BY <2>0, <3>2, <3>3
  <2>11. th'["server"].total + th'["server"].handled = Len(received')
    <3>1. server.total \in Nat /\ server.handled \in Nat /\ Len(received) = server.total + server.handled
      BY DEF Frames, Stream
    <3>2. th'["server"].total = server.total /\ th'["server"].handled = server.handled + n
      BY <2>1 DEF Becomes
    <3>3. Len(received') = Len(received) + n /\ n \in Nat
      BY <2>9, <2>10
    <3>. QED  BY <3>1, <3>2, <3>3
  <2>12. Len(channel) < Capacity => Len(channel') < Capacity
    BY <2>9, <2>10, SizesAssumption
  <2>2. Data'
    BY <1>0, <2>9, <2>10 DEF Data
  <2>3. Points' /\ Locals'
    BY <1>0, <2>9, <2>1 DEF Becomes, Points, Locals
  <2>4. Handshake' /\ Closing'
    BY <1>0, <2>9, <2>1, <2>10 DEF Becomes, Points, Locals, Handshake, Closing
  <2>5. StatusHolds' /\ ReadyMeansProgress'
    BY <1>0, <2>9, <2>1, <2>12 DEF Becomes, Points, Locals, Handshake, Closing, StatusHolds, ReadyMeansProgress
  <2>6. Stream' /\ EndTellsTruth'
    BY <1>0, <2>9, <2>1, <2>10, <2>11 DEF Becomes, Points, Locals, Closing, Stream, EndTellsTruth
  <2>7. ConnectTellsTruth'
    BY <1>0, <2>9, <2>1 DEF Becomes, Points, ConnectTellsTruth
  <2>8. NoFdLost'
    BY <1>0, <2>9, <2>1, Counters DEF Becomes, NoFdLost
  <2>. QED  BY <2>1, <2>2, <2>3, <2>4, <2>5, <2>6, <2>7, <2>8 DEF Becomes
<1>2. CASE channel = <<>> /\ Fails("server", RecvError) /\ UNCHANGED <<channel, received>>
  <2>0. /\ RecvError \in {"EPIPE", "EAGAIN"} /\ (RecvError = "EPIPE" <=> closed["client"])
    BY DEF RecvError
  <2>1. Becomes("server", server.fn, "return", server.status, server.ret, server.handled, RecvError, server.total)
    BY <1>2, FailsFrame
  <2>9. Len(received) = client.total + client.handled
    BY <1>0, <1>2, LenProperties DEF Stream, Counts, Data
  <2>2. Data'
    BY <1>0, <1>2, <2>0 DEF Data
  <2>3. Points' /\ Locals'
    BY <1>0, <1>2, <2>0, <2>1 DEF Becomes, Points, Locals
  <2>4. Handshake' /\ Closing'
    BY <1>0, <1>2, <2>0, <2>1 DEF Becomes, Points, Locals, Handshake, Closing
  <2>5. StatusHolds' /\ ReadyMeansProgress'
    BY <1>0, <1>2, <2>0, <2>1 DEF Becomes, Points, Locals, Handshake, Closing, StatusHolds, ReadyMeansProgress
  <2>6. Stream' /\ EndTellsTruth'
    BY <1>0, <1>2, <2>0, <2>1, <2>9 DEF Becomes, Points, Locals, Closing, Stream, EndTellsTruth
  <2>7. ConnectTellsTruth'
    BY <1>0, <1>2, <2>0, <2>1 DEF Becomes, Points, ConnectTellsTruth
  <2>8. NoFdLost'
    BY <1>0, <1>2, <2>0, <2>1, Counters DEF Becomes, NoFdLost
  <2>. QED  BY <2>1, <2>2, <2>3, <2>4, <2>5, <2>6, <2>7, <2>8 DEF Becomes
<1>3. CASE UNCHANGED <<th, channel, received>>
  <2>1. Frames'
    BY <1>3 DEF Frames
  <2>2. Data'
    BY <1>0, <1>3 DEF Data
  <2>3. Points' /\ Locals'
    BY <1>0, <1>3, <2>1 DEF Becomes, Points, Locals
  <2>4. Handshake' /\ Closing'
    BY <1>0, <1>3, <2>1 DEF Becomes, Points, Locals, Handshake, Closing
  <2>5. StatusHolds' /\ ReadyMeansProgress'
    BY <1>0, <1>3, <2>1 DEF Becomes, Points, Locals, Handshake, Closing, StatusHolds, ReadyMeansProgress
  <2>6. Stream' /\ EndTellsTruth'
    BY <1>0, <1>3, <2>1 DEF Becomes, Points, Locals, Closing, Stream, EndTellsTruth
  <2>7. ConnectTellsTruth'
    BY <1>0, <1>3, <2>1 DEF Becomes, Points, ConnectTellsTruth
  <2>8. NoFdLost'
    BY <1>0, <1>3, <2>1, Counters DEF Becomes, NoFdLost
  <2>. QED  BY <2>1, <2>2, <2>3, <2>4, <2>5, <2>6, <2>7, <2>8 DEF Becomes
<1>. QED  BY <1>1, <1>2, <1>3 DEF Recv

-----------------------------------------------------------------------------
\* The end of a transfer: what was handled is what the program is told of.
LEMMA TransferSteps ==
  ASSUME IInv, NEW t \in Thread, LoopEnds(t) \/ TransferReturns(t)
  PROVE  IInv'
<1>. USE DEF IInv, client, server, Thread, In, NoError
<1>0. UNCHANGED <<received, tcp, so_error, channel, accepted, closed, open, held>>
  BY DEF LoopEnds, TransferReturns, ends, fds
<1>1. CASE LoopEnds(t)
  <2>0. th[t].pc \in {"send", "recv"} /\ Go(t, "return")
    BY <1>1 DEF LoopEnds
  <2>1. Becomes(t, th[t].fn, "return", th[t].status, th[t].ret, th[t].handled, th[t].err, th[t].total)
    BY <2>0, GoFrame
  <2>2. Data'
    BY <1>0, <2>0 DEF Data
  <2>3. Points' /\ Locals'
    BY <1>0, <2>0, <2>1 DEF Becomes, Points, Locals
  <2>4. Handshake' /\ Closing'
    BY <1>0, <2>0, <2>1 DEF Becomes, Points, Locals, Handshake, Closing
  <2>5. StatusHolds' /\ ReadyMeansProgress'
    BY <1>0, <2>0, <2>1 DEF Becomes, Points, Locals, Handshake, Closing, StatusHolds, ReadyMeansProgress
  <2>6. Stream' /\ EndTellsTruth'
    BY <1>0, <2>0, <2>1 DEF Becomes, Points, Locals, Closing, Stream, EndTellsTruth
  <2>7. ConnectTellsTruth'
    BY <1>0, <2>0, <2>1 DEF Becomes, Points, ConnectTellsTruth
  <2>8. NoFdLost'
    BY <1>0, <2>0, <2>1, Counters DEF Becomes, NoFdLost
  <2>. QED  BY <2>1, <2>2, <2>3, <2>4, <2>5, <2>6, <2>7, <2>8 DEF Becomes
<1>2. CASE TransferReturns(t)
  <2>0. th[t].pc = "return" /\ th[t].fn = "transfer"
    BY <1>2 DEF TransferReturns, Points
  <2>1. Becomes(t, th[t].fn, "returned", FALSE, th[t].err, 0, th[t].err, th[t].total + th[t].handled)
    BY <1>2, TransferFrame
  <2>9. \A u \in Thread : th'[u].total + th'[u].handled = th[u].total + th[u].handled
    BY <2>1 DEF Becomes, Frames
  <2>2. Data'
    BY <1>0, <2>0 DEF Data
  <2>3. Points' /\ Locals'
    BY <1>0, <2>0, <2>1 DEF Becomes, Points, Locals
  <2>4. Handshake' /\ Closing'
    BY <1>0, <2>0, <2>1 DEF Becomes, Points, Locals, Handshake, Closing
  <2>5. StatusHolds' /\ ReadyMeansProgress'
    BY <1>0, <2>0, <2>1 DEF Becomes, Points, Locals, Handshake, Closing, StatusHolds, ReadyMeansProgress
  <2>6. Stream' /\ EndTellsTruth'
    BY <1>0, <2>0, <2>1, <2>9 DEF Becomes, Points, Locals, Closing, Stream, EndTellsTruth
  <2>7. ConnectTellsTruth'
    BY <1>0, <2>0, <2>1 DEF Becomes, Points, ConnectTellsTruth
  <2>8. NoFdLost'
    BY <1>0, <2>0, <2>1, Counters DEF Becomes, NoFdLost
  <2>. QED  BY <2>1, <2>2, <2>3, <2>4, <2>5, <2>6, <2>7, <2>8 DEF Becomes
<1>. QED  BY <1>1, <1>2

\* What the programs choose to do next.
LEMMA ClientChoices ==
  ASSUME IInv, client.pc = "returned", NEW fn \in Choices("client", client.fn, client.ret)
  PROVE  /\ fn \in {"connect", "check", "transfer", "destroy"}
         /\ fn \in {"check", "transfer"} => tcp \in {"established", "none"}
         /\ tcp = "failed" => fn = "destroy"
<1>. USE DEF NoError
<1>1. client.fn \in {"connect", "check", "transfer"}
  BY DEF IInv, Points
<1>2. CASE client.fn = "connect"
  <2>0. client.pc # "connect" /\ (tcp = "none" <=> client.err = "EAGAIN")
    BY <1>2 DEF IInv, Handshake
  <2>1. client.ret # "EAGAIN" /\ (client.ret = NoError => tcp \in {"established", "none"})
        /\ (tcp = "failed" => client.ret = "ECONNREFUSED")
    BY <1>2, <2>0 DEF IInv, Handshake, ConnectTellsTruth, client, In
  <2>2. CASE client.ret \in {"ETIMEDOUT", "EINTR"}
    BY <1>2, <2>1, <2>2 DEF Choices
  <2>3. CASE client.ret = NoError
    BY <1>2, <2>1, <2>3 DEF Choices
  <2>4. CASE client.ret \notin {"ETIMEDOUT", "EINTR", NoError}
    BY <1>2, <2>1, <2>4 DEF Choices
  <2>. QED  BY <2>2, <2>3, <2>4
<1>3. CASE client.fn \in {"check", "transfer"}
  <2>1. tcp \in {"established", "none"}
    BY <1>3 DEF IInv, Handshake
  <2>2. fn \in {"check", "transfer", "destroy"}
    <3>1. CASE client.fn = "check"
      <4>1. CASE client.ret = "EINTR"
        BY <3>1, <4>1 DEF Choices, HasConnection
      <4>3. CASE client.ret = "EAGAIN"
        BY <3>1, <4>3 DEF Choices, HasConnection
      <4>2. CASE client.ret \notin {"EAGAIN", "EINTR"}
        BY <3>1, <4>2 DEF Choices, HasConnection
      <4>. QED  BY <4>1, <4>2, <4>3
    <3>2. CASE client.fn = "transfer"
      <4>1. CASE client.ret = "EINTR"
        BY <3>2, <4>1 DEF Choices
      <4>3. CASE client.ret = "EAGAIN"
        BY <3>2, <4>3 DEF Choices
      <4>2. CASE client.ret \notin {"EAGAIN", "EINTR"}
        BY <3>2, <4>2 DEF Choices
      <4>. QED  BY <4>1, <4>2, <4>3
    <3>. QED  BY <1>3, <3>1, <3>2
  <2>. QED  BY <2>1, <2>2
<1>. QED  BY <1>1, <1>2, <1>3

LEMMA ServerChoices ==
  ASSUME IInv, server.pc = "returned", NEW fn \in Choices("server", server.fn, server.ret)
  PROVE  /\ fn \in {"bind", "listen", "accept", "check", "transfer", "destroy", "leave"}
         /\ fn \in {"transfer", "destroy"} => accepted
         /\ closed["server"] => fn = "leave"
<1>. USE DEF NoError
<1>1. server.fn \in {"bind", "listen", "accept", "check", "transfer"}
  BY DEF IInv, Points
<1>2. /\ closed["server"] => server.fn = "accept" /\ server.ret \in {"OTHER", "SELF_CONNECTED"}
      /\ server.fn = "transfer" \/ (server.fn = "accept" /\ server.ret = NoError) => accepted
  BY DEF IInv, Closing
<1>3. CASE server.fn \in {"bind", "listen"}
  BY <1>2, <1>3 DEF Choices, HasConnection
<1>4. CASE server.fn = "accept"
  <2>1. CASE server.ret \in {"EINTR", "EAGAIN"}
    BY <1>2, <1>4, <2>1 DEF Choices
  <2>2. CASE server.ret = NoError
    BY <1>2, <1>4, <2>2 DEF Choices
  <2>3. CASE server.ret \notin {"EINTR", "EAGAIN", NoError}
    BY <1>2, <1>4, <2>3 DEF Choices
  <2>. QED  BY <2>1, <2>2, <2>3
<1>5. CASE server.fn = "check"
  BY <1>2, <1>5 DEF Choices, HasConnection
<1>6. CASE server.fn = "transfer"
  BY <1>2, <1>6 DEF Choices, HasConnection
<1>. QED  BY <1>1, <1>3, <1>4, <1>5, <1>6

\* A program that calls the next function keeps to the order of the calls.
LEMMA ProgramStep ==
  ASSUME IInv, NEW t \in Thread, Program(t)
  PROVE  IInv'
<1>. USE DEF IInv, client, server, Thread, In, NoError
<1>0. /\ th[t].pc = "returned"
      /\ UNCHANGED <<received, tcp, so_error, channel, accepted, closed, open, held>>
  BY DEF Program, ends, fds
<1>9. PICK fn \in Choices(t, th[t].fn, th[t].ret), timed \in BOOLEAN, asked \in BOOLEAN : Begin(t, fn, timed, asked)
  BY DEF Program
<1>10. Becomes(t, fn, First(t, fn), th[t].status /\ fn = "transfer", th[t].ret, 0, NoError, th[t].total)
  BY <1>9, BeginFrame
<1>11. CASE t = "client"
  <2>9. /\ client.pc = "returned" /\ fn \in {"connect", "check", "transfer", "destroy"}
        /\ (fn \in {"check", "transfer"} => tcp \in {"established", "none"}) /\ (tcp = "failed" => fn = "destroy")
    BY <1>0, <1>9, <1>11, ClientChoices
  <2>10. First(t, fn) = IF fn = "check" THEN "select" ELSE IF fn = "transfer" THEN "send" ELSE fn
    BY <1>11, <2>9 DEF First
  <2>1. Becomes("client", fn, First(t, fn), client.status /\ fn = "transfer", client.ret, 0, NoError, client.total)
    BY <1>10, <1>11
  <2>11. th'["client"].fn = fn /\ th'["client"].pc = First(t, fn) /\ th'["server"] = th["server"]
    BY <2>1 DEF Becomes
  <2>12. fn = "check" => Points'
    BY <2>9, <2>10, <2>11 DEF Points
  <2>13. fn = "transfer" => Points'
    BY <2>9, <2>10, <2>11 DEF Points
  <2>14. fn \notin {"check", "transfer"} => Points'
    BY <2>9, <2>10, <2>11 DEF Points
  <2>15. Points'
    BY <2>12, <2>13, <2>14
  <2>3. Points' /\ Locals'
    BY <2>1, <2>9, <2>10, <2>15 DEF Becomes, Locals
  <2>16. /\ th'["client"].pc \notin {"return", "end", "fcntl", "getsockname"} /\ client.handled = 0
         /\ th'["client"].handled = 0 /\ th'["server"] = th["server"] /\ (th'["client"].status => client.status)
    BY <2>1, <2>9, <2>10 DEF Becomes, Locals
  <2>17. /\ fn = "connect" => th'["client"].pc = "connect" /\ ~th'["client"].status
         /\ th'["client"].pc \notin {"returned", "connecting"} /\ (th'["client"].pc = "destroy" <=> fn = "destroy")
    BY <2>1, <2>9, <2>10 DEF Becomes
  <2>18. client.status => tcp # "syn"
    BY DEF Handshake
  <2>19. /\ th'["client"].status => tcp' # "syn"
         /\ th'["client"].pc \in {"connect", "connecting"} => ~th'["client"].status
    BY <1>0, <2>9, <2>10, <2>11, <2>16, <2>17, <2>18
  <2>20. Handshake'
    BY <1>0, <2>9, <2>11, <2>17, <2>19 DEF Handshake
  <2>4. Handshake' /\ Closing'
    BY <1>0, <2>9, <2>10, <2>11, <2>16, <2>20 DEF Closing
  <2>5. StatusHolds' /\ ReadyMeansProgress'
    BY <1>0, <2>16 DEF StatusHolds, ReadyMeansProgress
  <2>2. Data'
    BY <1>0, <2>9, <2>10 DEF Data
  <2>6. Stream' /\ EndTellsTruth'
    BY <1>0, <2>9, <2>10, <2>1 DEF Becomes, Points, Locals, Closing, Stream, EndTellsTruth
  <2>7. ConnectTellsTruth'
    BY <1>0, <2>9, <2>10, <2>1 DEF Becomes, Points, ConnectTellsTruth
  <2>8. NoFdLost'
    BY <1>0, <2>9, <2>10, <2>1, Counters DEF Becomes, NoFdLost
  <2>. QED  BY <2>1, <2>2, <2>3, <2>4, <2>5, <2>6, <2>7, <2>8 DEF Becomes
<1>12. CASE t = "server"
  <2>9. /\ server.pc = "returned" /\ fn \in {"bind", "listen", "accept", "check", "transfer", "destroy", "leave"}
        /\ (fn \in {"transfer", "destroy"} => accepted) /\ (closed["server"] => fn = "leave")
    BY <1>0, <1>9, <1>12, ServerChoices
  <2>10. First(t, fn) = IF fn = "check" THEN "select" ELSE IF fn = "transfer" THEN "recv" ELSE fn
    BY <1>12, <2>9 DEF First
  <2>1. Becomes("server", fn, First(t, fn), server.status /\ fn = "transfer", server.ret, 0, NoError, server.total)
    BY <1>10, <1>12
  <2>11. th'["server"].fn = fn /\ th'["server"].pc = First(t, fn) /\ th'["client"] = th["client"]
    BY <2>1 DEF Becomes
  <2>12. fn = "check" => Points'
    BY <2>9, <2>10, <2>11 DEF Points
  <2>13. fn = "transfer" => Points'
    BY <2>9, <2>10, <2>11 DEF Points
  <2>14. fn \notin {"check", "transfer"} => Points'
    BY <2>9, <2>10, <2>11 DEF Points
  <2>15. Points'
    BY <2>12, <2>13, <2>14
  <2>3. Points' /\ Locals'
    BY <2>1, <2>9, <2>10, <2>15 DEF Becomes, Locals
  <2>16. /\ th'["server"].pc \notin {"return", "end", "fcntl", "getsockname"} /\ server.handled = 0
         /\ th'["server"].handled = 0 /\ th'["client"] = th["client"] /\ (th'["server"].status => server.status)
    BY <2>1, <2>9, <2>10 DEF Becomes, Locals
  <2>4. Handshake' /\ Closing'
    BY <1>0, <2>9, <2>10, <2>11, <2>16 DEF Handshake, Closing
  <2>5. StatusHolds' /\ ReadyMeansProgress'
    BY <1>0, <2>16 DEF StatusHolds, ReadyMeansProgress
  <2>2. Data'
    BY <1>0, <2>9, <2>10 DEF Data
  <2>6. Stream' /\ EndTellsTruth'
    BY <1>0, <2>9, <2>10, <2>1 DEF Becomes, Points, Locals, Closing, Stream, EndTellsTruth
  <2>7. ConnectTellsTruth'
    BY <1>0, <2>9, <2>10, <2>1 DEF Becomes, Points, ConnectTellsTruth
  <2>8. NoFdLost'
    BY <1>0, <2>9, <2>10, <2>1, Counters DEF Becomes, NoFdLost
  <2>. QED  BY <2>1, <2>2, <2>3, <2>4, <2>5, <2>6, <2>7, <2>8 DEF Becomes
<1>. QED  BY <1>11, <1>12

-----------------------------------------------------------------------------
LEMMA Initially == Init => IInv
<1>. SUFFICES ASSUME Init  PROVE IInv
  OBVIOUS
<1>1. /\ \A t \in Thread : th[t] = [fn |-> "create", pc |-> "create", timed |-> FALSE, asked |-> TRUE, status |-> FALSE,
                                   ret |-> NoError, handled |-> 0, len |-> 0, err |-> NoError, total |-> 0]
      /\ DOMAIN th = Thread
  BY DEF Init
<1>2. Frames
  <2>1. \A t \in Thread : DOMAIN th[t] = Fields
    BY <1>1 DEF Fields
  <2>2. \A t \in Thread : th[t].status \in BOOLEAN
    <3>1. TAKE t \in Thread
    <3>2. th[t].status = FALSE
      BY <1>1
    <3>. QED  BY <3>2
  <2>3. \A t \in Thread : th[t].handled = 0 /\ th[t].total = 0 /\ th[t].len = 0
    BY <1>1
  <2>4. DOMAIN th = Thread
    BY <1>1
  <2>. QED  BY <2>1, <2>2, <2>3, <2>4 DEF Frames
<1>3. client.fn = "create" /\ client.pc = "create" /\ server.fn = "create" /\ server.pc = "create"
  BY <1>1 DEF client, server, Thread
<1>4. \A t \in Thread : th[t].handled = 0 /\ ~th[t].status /\ th[t].total = 0 /\ th[t].pc = "create"
  BY <1>1
<1>5. received = <<>> /\ channel = <<>> /\ tcp = "none" /\ so_error = "none" /\ open = 0 /\ held = 0
      /\ closed = [t \in Thread |-> FALSE]
  BY DEF Init
<1>6. Data
  BY <1>5 DEF Data
<1>7. Points /\ Locals /\ Handshake /\ Closing /\ StatusHolds
  BY <1>3, <1>4, <1>5 DEF Points, Locals, Handshake, Closing, StatusHolds, client, server, Thread
<1>8. Stream
  BY <1>4, <1>5 DEF Stream, Counts, client, server, Thread
<1>9. EndTellsTruth /\ ConnectTellsTruth /\ ReadyMeansProgress /\ NoFdLost
  BY <1>3, <1>4, <1>5 DEF EndTellsTruth, ConnectTellsTruth, ReadyMeansProgress, NoFdLost, In, client, server
<1>. QED  BY <1>2, <1>6, <1>7, <1>8, <1>9 DEF IInv

LEMMA StutterStep ==
  ASSUME IInv, UNCHANGED vars
  PROVE  IInv'
<1>1. UNCHANGED <<th, received, tcp, so_error, channel, accepted, closed, open, held>>
  BY DEF vars, ends, fds
<1>2. Frames' /\ Data' /\ Points' /\ Locals' /\ Handshake'
  BY <1>1 DEF IInv, Frames, Data, Points, Locals, Handshake, client, server
<1>3. Closing' /\ StatusHolds' /\ Stream'
  BY <1>1 DEF IInv, Closing, StatusHolds, Stream, client, server
<1>4. EndTellsTruth' /\ ConnectTellsTruth' /\ ReadyMeansProgress' /\ NoFdLost'
  BY <1>1 DEF IInv, EndTellsTruth, ConnectTellsTruth, ReadyMeansProgress, NoFdLost, In
<1>. QED  BY <1>2, <1>3, <1>4 DEF IInv

\* The invariant that every step of the programs and of the network keeps.
THEOREM Invariance == Spec => []IInv
<1>1. Init => IInv
  BY Initially
<1>2. IInv /\ [Next]_vars => IInv'
  <2>. SUFFICES ASSUME IInv, [Next]_vars  PROVE IInv'
    OBVIOUS
  <2>1. CASE UNCHANGED vars
    BY <2>1, StutterStep
  <2>2. CASE Network
    BY <2>2, NetworkStep
  <2>3. ASSUME NEW t \in Thread, Step(t)  PROVE IInv'
    <3>1. CASE sock_create(t) \/ sock_destroy(t)
      BY <3>1, CreateStep, DestroySteps
    <3>2. CASE Select(t) \/ GetError(t)
      BY <3>2, SelectStep, GetErrorStep
    <3>3. CASE LoopEnds(t) \/ TransferReturns(t) \/ Program(t)
      BY <3>3, TransferSteps, ProgramStep
    <3>4. CASE Client
      BY <3>4, ConnectSteps, SendStep DEF Client
    <3>5. CASE Server
      BY <3>5, ListenSteps, DestroySteps, AcceptStep, ExamineStep, RecvStep DEF Server
    <3>. QED  BY <2>3, <3>1, <3>2, <3>3, <3>4, <3>5 DEF Step
  <2>. QED  BY <2>1, <2>2, <2>3 DEF Next
<1>. QED  BY <1>1, <1>2, PTL DEF Spec

\* sock_send() and sock_recv(): the server gets the bytes that the client was told
\* of, in order, each once, however the transfer is cut up and tried again.
THEOREM StreamCorrect == Spec => []StreamIntact
<1>1. IInv => StreamIntact
  <2>. SUFFICES ASSUME IInv  PROVE StreamIntact
    OBVIOUS
  <2>1. received \in Seq(Nat) /\ channel \in Seq(Nat)
    BY DEF IInv, Data
  <2>2. /\ Len(received) = server.total + server.handled /\ \A i \in DOMAIN received : received[i] = i
    BY <2>1, LenProperties DEF IInv, Stream
  <2>3. ~closed["server"] => received \o channel = [i \in 1..(client.total + client.handled) |-> i]
    BY <2>1, CountsConcat DEF IInv, Stream
  <2>. QED  BY <2>2, <2>3 DEF StreamIntact, client, server
<1>. QED  BY <1>1, Invariance, PTL

\* sock_recv() tells of a shutdown only when everything that was sent has come.
THEOREM EndCorrect == Spec => []EndTellsTruth
<1>1. IInv => EndTellsTruth
  BY DEF IInv
<1>. QED  BY <1>1, Invariance, PTL

\* When sock_connect() returns 0 there is a connection, whatever timed out or was
\* interrupted before, in all cases but that of an EAGAIN of connect(), in which
\* there is none.
THEOREM ConnectCorrect == Spec => []ConnectTellsTruth
<1>1. IInv => ConnectTellsTruth
  BY DEF IInv
<1>. QED  BY <1>1, Invariance, PTL

\* After sock_check_status() was asked for a status and has told it, the transfer that follows
\* does not come back with nothing.
THEOREM ReadyCorrect == Spec => []ReadyMeansProgress
<1>1. IInv => ReadyMeansProgress
  BY DEF IInv
<1>. QED  BY <1>1, Invariance, PTL

\* sock_accept() closes the descriptor whatever fails after accept().
THEOREM FdCorrect == Spec => []NoFdLost
<1>1. IInv => NoFdLost
  BY DEF IInv
<1>. QED  BY <1>1, Invariance, PTL
=============================================================================
