-------------------------------- MODULE W5100 --------------------------------
(***************************************************************************)
(* The emulated W5100 network chip.  The emulator's thread writes socket   *)
(* registers, an I/O thread waits in select() for the host sockets they    *)
(* open; each socket has a mutex and the emulator wakes the I/O thread     *)
(* through a pipe to itself.  No lock is held during select(), so sockets  *)
(* are closed and opened again, and descriptors reused, while it waits.    *)
(* One action is what one thread does under one socket's lock.             *)
(* (w5100.c, w5100_socket.c, compat/unix/socket.c; the host's sockets are  *)
(* modelled from their use.)                                               *)
(***************************************************************************)
EXTENDS SequencesExt, Integers

CONSTANTS
  N,                    \* sockets, 4 in the code
  BUF,                  \* size of each socket's two buffers, 0x800
  HEADER,               \* bytes put before a received datagram, 8
  W,                    \* the pointers of a socket count modulo W, 0x10000
  Slots,                \* bound: datagrams a program queues, 0x20 can be held
  MaxInput,             \* bound: bytes or datagrams waiting in the host
  MaxWakes,             \* bound: bytes in the pipe
  Connects,             \* the program uses CONNECT
  ClosesWhileSending,   \* it uses CLOSE before SEND has completed
  ReusesListed          \* a descriptor closed while it waits in the sets is
                        \* opened again by a socket not yet looked at

ASSUME W5100Assumption ==
  /\ {N, BUF, Slots, MaxInput, MaxWakes} \subseteq Nat \ {0}
  /\ HEADER \in 0 .. (BUF - 1)
  /\ W \in {BUF * n : n \in 2 .. BUF * 32}
  /\ {Connects, ClosesWhileSending, ReusesListed} \subseteq BOOLEAN

VARIABLES
  socket,           \* [1..N -> the fields of nic_w5100_socket_t]
  stop_io_thread,   \* nic_w5100_free has begun
  io,               \* where the I/O thread is, and its descriptor sets
  selfpipe,         \* bytes to be read from the pipe
  kernel            \* the host's table of open descriptors

vars == <<socket, stop_io_thread, io, selfpipe, kernel>>

Fds == 1 .. (N + 1)
Invalid == 0

-----------------------------------------------------------------------------
(* The host: a descriptor is free or is a datagram, unconnected, listening *)
(* or connected stream socket, with input waiting (bytes, datagrams or     *)
(* connections) and, connected, perhaps the peer's end of file.            *)

File(kind) == [kind |-> kind, input |-> 0, eof |-> FALSE]

\* The descriptor socket() and accept() return is the lowest that is free.
LowestFree(k) ==
  CHOOSE fd \in Fds : /\ k[fd].kind = "free"
                      /\ \A other \in Fds : k[other].kind = "free" => fd <= other

Closed(k, fd) == IF fd = Invalid THEN k ELSE [k EXCEPT ![fd] = File("free")]

\* What select() and a read that does not block take for readable: an
\* unconnected stream socket counts as hung up, and reading it is an error.
Readable(fd) == \/ kernel[fd].kind = "stream"
                \/ kernel[fd].input > 0
                \/ kernel[fd].eof

Writable(fd) == kernel[fd].kind \in {"udp", "stream", "connected"}

\* Datagrams reach bound sockets, bytes connected ones, callers listening ones.
Arrive(fd) ==
  /\ kernel[fd].input < MaxInput
  /\ \/ kernel[fd].kind = "listening"
     \/ kernel[fd].kind = "connected" /\ ~kernel[fd].eof
     \/ kernel[fd].kind = "udp" /\ \E i \in 1 .. N : socket[i].fd = fd /\ socket[i].socket_bound
  /\ kernel' = [kernel EXCEPT ![fd].input = @ + 1]
  /\ UNCHANGED <<socket, stop_io_thread, io, selfpipe>>

PeerCloses(fd) ==
  /\ kernel[fd].kind = "connected" /\ ~kernel[fd].eof
  /\ kernel' = [kernel EXCEPT ![fd].eof = TRUE]
  /\ UNCHANGED <<socket, stop_io_thread, io, selfpipe>>

-----------------------------------------------------------------------------
(* The emulator's thread.  The mode register is only read by OPEN and is   *)
(* written together with it; addresses, flags and the interrupt register   *)
(* are only ever read back and are left out, as are the buffers' bytes.    *)

init_common(s) ==
  [s EXCEPT !.fd = Invalid, !.socket_bound = FALSE, !.ok_for_io = FALSE,
            !.write_pending = FALSE]

clean(s) ==
  LET wiped == [s EXCEPT !.tx_rr = 0, !.tx_wr = 0, !.rx_rsr = 0, !.last_send = 0,
                         !.datagrams = << >>]
  IN IF s.fd = Invalid THEN wiped ELSE init_common(wiped)

Init ==
  /\ socket = [i \in 1 .. N |->
       [state |-> "closed", fd |-> Invalid, socket_bound |-> FALSE,
        write_pending |-> FALSE, ok_for_io |-> FALSE, tx_rr |-> 0, tx_wr |-> 0,
        rx_rsr |-> 0, last_send |-> 0, datagrams |-> << >>]]
  /\ stop_io_thread = FALSE
  /\ io = [pc |-> "loop", at |-> 1, readfds |-> {}, writefds |-> {}]
  /\ selfpipe = 0
  /\ kernel = [fd \in Fds |-> File("free")]

\* The I/O thread holds a socket's lock between two actions when a call of it
\* to the host blocks.
Unlocked(i) == ~(io.pc = "blocked" /\ io.at = i)

CpuMay(i) == ~stop_io_thread /\ Unlocked(i)

\* Mutant: the byte that wakes the I/O thread is not written.
WakeForgotten == selfpipe < MaxWakes /\ UNCHANGED selfpipe

Wake == selfpipe < MaxWakes /\ selfpipe' = selfpipe + 1

reset(i) ==
  /\ CpuMay(i)
  /\ kernel' = Closed(kernel, socket[i].fd)
  /\ socket' = [socket EXCEPT ![i] = clean([@ EXCEPT !.state = "closed"])]
  /\ UNCHANGED <<stop_io_thread, io, selfpipe>>

\* The sets being made for select() have fd, from a socket looked at before i.
Listed(i, fd) == /\ io.pc = "add" /\ io.at <= i
                 /\ fd \in io.readfds \union io.writefds

\* OPEN, after MR has chosen TCP or UDP; socket() may fail.
open(i) ==
  /\ CpuMay(i)
  /\ socket[i].state = "closed"
  /\ LET k == Closed(kernel, socket[i].fd)
         fd == LowestFree(k)
     IN \/ \E tcp \in BOOLEAN :
             /\ Listed(i, fd) => ReusesListed
             /\ kernel' = [k EXCEPT ![fd] = File(IF tcp THEN "stream" ELSE "udp")]
             /\ socket' = [socket EXCEPT ![i] =
                  [clean(@) EXCEPT !.fd = fd, !.state = IF tcp THEN "init" ELSE "udp"]]
        \/ /\ kernel' = k
           /\ socket' = [socket EXCEPT ![i] = clean(@)]
  /\ UNCHANGED <<stop_io_thread, io, selfpipe>>

\* What w5100_socket_bind_port leaves: bound, or closed with the descriptor open.
Bound(s) == IF s.socket_bound THEN {s}
            ELSE {[s EXCEPT !.socket_bound = TRUE], [s EXCEPT !.state = "closed"]}

\* LISTEN; bind() and listen() may fail.
listen(i) ==
  /\ CpuMay(i)
  /\ socket[i].state = "init"
  /\ \E s \in Bound(socket[i]) :
       \/ /\ s.state = "init"
          /\ socket' = [socket EXCEPT ![i] = [s EXCEPT !.state = "listen"]]
          /\ kernel' = [kernel EXCEPT ![s.fd] = File("listening")]
          /\ Wake
       \/ /\ socket' = [socket EXCEPT ![i] = s]
          /\ UNCHANGED <<selfpipe, kernel>>
  /\ UNCHANGED <<stop_io_thread, io>>

\* CONNECT; bind() and connect() may fail.  The I/O thread is not woken.
connect(i) ==
  /\ Connects
  /\ CpuMay(i)
  /\ socket[i].state = "init"
  /\ \E s \in Bound(socket[i]) :
       \/ /\ s.state = "init"
          /\ socket' = [socket EXCEPT ![i] = [s EXCEPT !.state = "established"]]
          /\ kernel' = [kernel EXCEPT ![s.fd] = File("connected")]
       \/ /\ socket' = [socket EXCEPT ![i] = [s EXCEPT !.state = "closed"]]
          /\ UNCHANGED kernel
  /\ UNCHANGED <<stop_io_thread, io, selfpipe>>

\* DISCON, which leaves the descriptor open.
discon(i) ==
  /\ CpuMay(i)
  /\ socket[i].state \in {"established", "close_wait"}
  /\ socket' = [socket EXCEPT ![i].state = "closed"]
  /\ Wake /\ UNCHANGED <<stop_io_thread, io, kernel>>

\* CLOSE, which leaves write_pending as it is.
close(i) ==
  /\ CpuMay(i)
  /\ ClosesWhileSending \/ ~socket[i].write_pending
  /\ socket[i].fd # Invalid
  /\ kernel' = Closed(kernel, socket[i].fd)
  /\ socket' = [socket EXCEPT ![i] =
       [@ EXCEPT !.fd = Invalid, !.socket_bound = FALSE, !.ok_for_io = FALSE,
                 !.state = "closed"]]
  /\ Wake /\ UNCHANGED <<stop_io_thread, io>>

\* The program's next n bytes for sending: TX_WR moves on, at most by TX_FSR.
\* An empty SEND is left out.
Outgoing(s) == 1 .. (BUF - ((s.tx_wr - s.tx_rr) % W))

Advanced(p, n) == (p + n) % W

\* SEND of a datagram, after the first of a socket has bound it.
Queued(s, n) ==
  LET tx_wr == Advanced(s.tx_wr, n)
  IN [s EXCEPT !.tx_wr = tx_wr, !.last_send = tx_wr, !.write_pending = TRUE,
               !.datagrams = Append(@, (tx_wr - s.last_send) % W)]

\* SEND.  A TCP program waits for SEND OK before it sends again, so that its
\* two writes to TX_WR are not seen half done.
send(i) ==
  /\ CpuMay(i)
  /\ \E n \in Outgoing(socket[i]) :
       \/ /\ socket[i].state = "udp"
          /\ Len(socket[i].datagrams) < Slots
          /\ \E s \in Bound(socket[i]) :
               \/ /\ s.state = "udp"
                  /\ socket' = [socket EXCEPT ![i] = Queued(s, n)]
                  /\ Wake
               \/ /\ s.state = "closed"
                  /\ socket' = [socket EXCEPT ![i] = [s EXCEPT !.tx_wr = Advanced(@, n)]]
                  /\ UNCHANGED selfpipe
       \/ /\ socket[i].state = "established"
          /\ ~socket[i].write_pending
          /\ socket' = [socket EXCEPT ![i] =
               [socket[i] EXCEPT !.tx_wr = Advanced(@, n), !.write_pending = TRUE]]
          /\ Wake
  /\ UNCHANGED <<stop_io_thread, io, kernel>>

\* Mutant: RECV does not tell the I/O thread that there is room.
recv_no_wake(i) ==
  /\ CpuMay(i)
  /\ socket[i].state \in {"udp", "established"}
  /\ \E n \in 1 .. socket[i].rx_rsr :
       socket' = [socket EXCEPT ![i].rx_rsr = @ - n]
  /\ UNCHANGED <<stop_io_thread, io, kernel, selfpipe>>

\* RX_RD moved on over n bytes that have been read, and RECV.
recv(i) ==
  /\ CpuMay(i)
  /\ socket[i].state \in {"udp", "established"}
  /\ \E n \in 1 .. socket[i].rx_rsr :
       socket' = [socket EXCEPT ![i].rx_rsr = @ - n]
  /\ Wake /\ UNCHANGED <<stop_io_thread, io, kernel>>

\* PORT0 and PORT1 written one after the other: a datagram socket is bound.
write_port(i) ==
  /\ CpuMay(i)
  /\ socket[i].state = "udp" /\ ~socket[i].socket_bound
  /\ \E s \in Bound(socket[i]) :
       /\ socket' = [socket EXCEPT ![i] = s]
       /\ IF s.socket_bound THEN Wake ELSE UNCHANGED selfpipe
  /\ UNCHANGED <<stop_io_thread, io, kernel>>

\* nic_w5100_free asks the I/O thread to end, and when it has, ends the sockets.
free(wake) ==
  /\ ~stop_io_thread
  /\ stop_io_thread' = TRUE
  /\ selfpipe' = selfpipe + wake
  /\ UNCHANGED <<socket, io, kernel>>

\* Mutant: the I/O thread is not woken to see that it is to stop.
FreeSilently == free(0)

Free == free(1)

End ==
  /\ io.pc = "ended"
  /\ socket' = [i \in 1 .. N |-> clean([socket[i] EXCEPT !.state = "closed"])]
  /\ kernel' = [fd \in Fds |-> IF \E i \in 1 .. N : socket[i].fd = fd
                               THEN File("free") ELSE kernel[fd]]
  /\ UNCHANGED <<stop_io_thread, io, selfpipe>>

-----------------------------------------------------------------------------
(* The I/O thread.                                                         *)

\* The head of the loop.
IoLoop ==
  /\ io.pc = "loop"
  /\ io' = [pc |-> IF stop_io_thread THEN "ended" ELSE "add", at |-> 1,
            readfds |-> {}, writefds |-> {}]
  /\ UNCHANGED <<socket, stop_io_thread, selfpipe, kernel>>

Room(s) == BUF - s.rx_rsr

\* Mutant: the header of a datagram is not reckoned with.
udp_read_unheaded(s) == s.state = "udp" /\ Room(s) >= 1

udp_read(s) == s.state = "udp" /\ Room(s) >= HEADER + 1
tcp_read(s) == s.state = "established" /\ Room(s) >= 1
tcp_listen(s) == s.state = "listen"

\* A loop over the sockets goes on with the next one, or is left.
Onwards(loop, then) == [io EXCEPT !.pc = IF io.at = N THEN then ELSE loop,
                                  !.at = IF io.at = N THEN 1 ELSE @ + 1]

add_to_sets ==
  /\ io.pc = "add"
  /\ LET s == socket[io.at]
     IN IF s.fd = Invalid
        THEN /\ io' = Onwards("add", "select")
             /\ UNCHANGED socket
        ELSE /\ socket' = [socket EXCEPT ![io.at].ok_for_io = TRUE]
             /\ io' = [Onwards("add", "select") EXCEPT
                  !.readfds = IF udp_read(s) \/ tcp_read(s) \/ tcp_listen(s)
                              THEN @ \union {s.fd} ELSE @,
                  !.writefds = IF s.write_pending THEN @ \union {s.fd} ELSE @]
  /\ UNCHANGED <<stop_io_thread, selfpipe, kernel>>

\* select() fails with EBADF if a descriptor is closed when it starts ...
SelectStarts ==
  /\ io.pc = "select"
  /\ io' = [io EXCEPT !.pc =
       IF \E fd \in io.readfds \union io.writefds : kernel[fd].kind = "free"
       THEN "loop" ELSE "wait"]
  /\ UNCHANGED <<socket, stop_io_thread, selfpipe, kernel>>

\* ... and else waits until something is ready.  One byte of the pipe is read.
SelectReturns ==
  /\ io.pc = "wait"
  /\ LET readable == {fd \in io.readfds : Readable(fd)}
         writable == {fd \in io.writefds : Writable(fd)}
     IN /\ selfpipe > 0 \/ readable \union writable # {}
        /\ io' = [io EXCEPT !.pc = "process", !.readfds = readable, !.writefds = writable]
  /\ selfpipe' = IF selfpipe > 0 THEN selfpipe - 1 ELSE 0
  /\ UNCHANGED <<socket, stop_io_thread, kernel>>

\* Mutant: the listening socket stays open.
process_accept_leaks(s) ==
  LET fd == LowestFree(kernel)
  IN {[s |-> [s EXCEPT !.fd = fd, !.state = "established"],
       k |-> [kernel EXCEPT ![fd] = File("connected")]]}

\* Nothing is read: not asked for, or the call fails, which is only logged.
NothingRead(s) == [s |-> s, k |-> kernel]

\* What reading makes of a socket, with the host's table.
process_accept(s) ==
  LET fd == LowestFree(kernel)
  IN {[s |-> [s EXCEPT !.fd = fd, !.state = "established"],
       k |-> Closed([kernel EXCEPT ![fd] = File("connected")], s.fd)],
      NothingRead(s)}

\* Mutant: a datagram may fill the room that its header needs.
process_read_unheaded(s) ==
  LET k == kernel[s.fd]
  IN {[s |-> [s EXCEPT !.rx_rsr = @ + HEADER + size],
       k |-> [kernel EXCEPT ![s.fd].input = @ - 1]] : size \in 0 .. Room(s)}

process_read(s) ==
  LET k == kernel[s.fd]
      n == IF k.input < Room(s) THEN k.input ELSE Room(s)
  IN {NothingRead(s)} \union
     CASE k.kind = "udp" ->
            {[s |-> [s EXCEPT !.rx_rsr = @ + HEADER + size],
              k |-> [kernel EXCEPT ![s.fd].input = @ - 1]]
              : size \in 0 .. (Room(s) - HEADER)}
       [] k.kind = "connected" /\ n > 0 ->
            {[s |-> [s EXCEPT !.rx_rsr = @ + n],
              k |-> [kernel EXCEPT ![s.fd].input = @ - n]]}
       [] k.kind = "connected" /\ n = 0 ->
            {[s |-> [s EXCEPT !.state = "close_wait"], k |-> kernel]}
       [] OTHER -> {}

\* Mutant: the lengths are not moved up.
process_udp_write_unmoved(s) ==
  {s} \union {[s EXCEPT !.tx_rr = Advanced(@, length),
                         !.datagrams = IF @ = << >> THEN @ ELSE Front(@),
                         !.write_pending = Len(s.datagrams) # 1]
    : length \in IF s.datagrams = << >> THEN 0 .. (W - 1) ELSE {Head(s.datagrams)}}

\* A datagram is sent whole, or stays queued to be tried again if sendto fails.
\* With none queued, some length is found in the first slot and the count runs
\* below zero, away from the zero that would end it.
process_udp_write(s) ==
  {s} \union {[s EXCEPT !.tx_rr = Advanced(@, length),
                         !.datagrams = IF @ = << >> THEN @ ELSE Tail(@),
                         !.write_pending = Len(s.datagrams) # 1]
    : length \in IF s.datagrams = << >> THEN 0 .. (W - 1) ELSE {Head(s.datagrams)}}

\* Mutant: what the host has taken is taken for all there was.
process_tcp_write_once(s) ==
  LET all == (s.tx_wr - s.tx_rr) % W
      to_end == BUF - (s.tx_rr % BUF)
      length == IF all < to_end THEN all ELSE to_end
  IN {s} \union {[s EXCEPT !.tx_rr = Advanced(@, n), !.write_pending = n # length]
       : n \in (IF length = 0 THEN {0} ELSE 1 .. length)}

\* The host takes some of the bytes up to the end of the ring, or send fails.
process_tcp_write(s) ==
  LET all == (s.tx_wr - s.tx_rr) % W
      to_end == BUF - (s.tx_rr % BUF)
      length == IF all < to_end THEN all ELSE to_end
  IN {s} \union {[s EXCEPT !.tx_rr = Advanced(@, n),
                            !.write_pending = Advanced(s.tx_rr, n) # s.tx_wr]
       : n \in (IF length = 0 THEN {0} ELSE 1 .. length)}

Writing(s) ==
  CASE s.fd \notin io.writefds -> {s}
    [] s.fd \in io.writefds /\ s.state = "udp" -> process_udp_write(s)
    [] s.fd \in io.writefds /\ s.state = "established" -> process_tcp_write(s)
    [] OTHER -> {s}

\* Mutant: a socket closed and opened since select() is processed all the same.
MayProcessAny(s) == s.fd # Invalid

MayProcess(s) == s.fd # Invalid /\ s.ok_for_io

Reads(s) == MayProcess(s) /\ s.fd \in io.readfds

\* accept() and a read that find nothing wait for it with the lock held.
Blocks(s) == Reads(s) /\ ~Readable(s.fd)

process_io ==
  /\ io.pc \in {"process", "blocked"}
  /\ LET s == socket[io.at]
     IN \/ /\ ~Blocks(s)
           /\ \E r \in IF ~Reads(s) THEN {NothingRead(s)}
                      ELSE IF s.state = "listen" THEN process_accept(s)
                      ELSE process_read(s) :
                /\ kernel' = r.k
                /\ \E t \in (IF MayProcess(s) THEN Writing(r.s) ELSE {s}) :
                     socket' = [socket EXCEPT ![io.at] = t]
           /\ io' = Onwards("process", "loop")
        \/ /\ Blocks(s)
           /\ io' = [io EXCEPT !.pc = "blocked"]
           /\ UNCHANGED <<socket, kernel>>
  /\ UNCHANGED <<stop_io_thread, selfpipe>>

IoStep == IoLoop \/ add_to_sets \/ SelectStarts \/ SelectReturns \/ process_io

Next ==
  \/ \E i \in 1 .. N : \/ reset(i) \/ open(i) \/ listen(i) \/ connect(i) \/ discon(i)
                       \/ close(i) \/ send(i) \/ recv(i) \/ write_port(i)
  \/ Free \/ End
  \/ IoLoop \/ add_to_sets \/ SelectStarts \/ SelectReturns \/ process_io
  \/ \E fd \in Fds : Arrive(fd) \/ PeerCloses(fd)

Spec == Init /\ [][Next]_vars

\* The I/O thread's turn with socket i in which the host does as it is asked:
\* it takes something to send, or gives input or a caller.
Taken(i) == process_io /\ io.at = i /\ socket'[i].tx_rr # socket[i].tx_rr
Given(i) == process_io /\ io.at = i /\ kernel' # kernel

\* The host schedules the I/O thread, and does not refuse for ever what it is
\* asked again and again; nothing is assumed of the program, the user or the
\* network.
FairSpec == /\ Spec
            /\ WF_vars(IoStep)
            /\ \A i \in 1 .. N : SF_vars(Taken(i)) /\ SF_vars(Given(i))

-----------------------------------------------------------------------------
States == {"closed", "init", "listen", "established", "close_wait", "udp"}

\* The fields of the sockets, the I/O thread and the host's table hold what the
\* code can put there; pointers stay within their width.
TypeOK ==
  /\ \A i \in 1 .. N :
       LET s == socket[i]
       IN /\ s.state \in States /\ s.fd \in Fds \union {Invalid}
          /\ {s.socket_bound, s.write_pending, s.ok_for_io} \subseteq BOOLEAN
          /\ {s.tx_rr, s.tx_wr, s.last_send} \subseteq 0 .. (W - 1)
          /\ s.rx_rsr \in 0 .. BUF
          /\ s.datagrams \in Seq(0 .. (W - 1)) /\ Len(s.datagrams) <= Slots
  /\ stop_io_thread \in BOOLEAN
  /\ io.pc \in {"loop", "add", "select", "wait", "process", "blocked", "ended"}
  /\ io.at \in 1 .. N /\ io.readfds \union io.writefds \subseteq Fds
  /\ selfpipe \in 0 .. (MaxWakes + 1)
  /\ \A fd \in Fds :
       /\ kernel[fd].kind \in {"free", "udp", "stream", "listening", "connected"}
       /\ kernel[fd].input \in 0 .. MaxInput /\ kernel[fd].eof \in BOOLEAN

\* The room that add_to_sets asks for is still there when the socket is read,
\* whatever the emulator has done to it in between: a datagram's header and a
\* byte, else a byte (reading no bytes from a stream would pass for its end).
ReadHasRoom ==
  io.pc \in {"process", "blocked"} /\ Reads(socket[io.at]) =>
    LET s == socket[io.at]
    IN Room(s) >= CASE s.state = "udp" -> HEADER + 1
                    [] s.state = "listen" -> 0
                    [] OTHER -> 1

\* The sum of the lengths.
Total(lengths) ==
  LET upto[k \in 0 .. Len(lengths)] ==
        IF k = 0 THEN 0 ELSE upto[k - 1] + lengths[k]
  IN upto[Len(lengths)]

\* The lengths queued for a datagram socket are those of the bytes between the
\* transmit read pointer and the last SEND: no datagram is sent twice, skipped
\* or cut in the wrong place.
QueueAgrees ==
  \A i \in 1 .. N : socket[i].state = "udp" =>
    Total(socket[i].datagrams) % W = (socket[i].last_send - socket[i].tx_rr) % W

\* write_pending is "true if we're waiting to write data on this socket": set
\* while a datagram is queued, and clear, which the program sees as SEND OK,
\* only when everything has been sent.
PendingAgrees ==
  \A i \in 1 .. N :
    LET s == socket[i]
    IN /\ s.state = "udp" => (s.write_pending <=> s.datagrams # << >>)
       /\ s.state = "established" => (s.write_pending <=> s.tx_rr # s.tx_wr)

\* The I/O thread only calls accept() or a read that select() has found ready:
\* were it to wait there, it would do so with the socket's lock held, and the
\* emulator's next access to that socket would stop the emulator.
NeverBlocks == io.pc # "blocked"

\* Every open descriptor belongs to one socket, through bind failures, accepted
\* connections, closing and opening again.
OneOwner ==
  /\ \A fd \in Fds : kernel[fd].kind # "free" <=> \E i \in 1 .. N : socket[i].fd = fd
  /\ \A i, j \in 1 .. N : socket[i].fd = socket[j].fd => i = j \/ socket[i].fd = Invalid

Sending(i, p) == /\ ~stop_io_thread
                 /\ socket[i].state \in {"udp", "established"}
                 /\ socket[i].write_pending /\ socket[i].tx_rr = p

\* Whatever is to be sent on an open socket, and the host does not refuse for
\* ever, gets on its way: no SEND is lost between the wakes of the pipe and the
\* sets of select(), and one that has failed is tried again.
SendGoesOn ==
  \A i \in 1 .. N : \A p \in 0 .. (W - 1) : Sending(i, p) ~> ~Sending(i, p)

Waiting(i) == LET s == socket[i]
              IN /\ ~stop_io_thread /\ s.fd # Invalid
                 /\ udp_read(s) \/ tcp_read(s) \/ tcp_listen(s)
                 /\ kernel[s.fd].input > 0

\* "We can process a UDP read if we're in a UDP state and there are at least 9
\* bytes free", a TCP read "if we're in the established state and have any
\* room": input that can be taken, or a caller, does not wait for ever unless
\* the host fails every recv, recvfrom or accept that asks for it.
ReceiveGoesOn == \A i \in 1 .. N : Waiting(i) ~> ~Waiting(i)

\* nic_w5100_free, which joins the I/O thread, returns.
FreeReturns == stop_io_thread ~> io.pc = "ended"

=============================================================================
