----------------------------- MODULE W5100Proofs -----------------------------
(***************************************************************************)
(* For any number of sockets, with two threads that drop the locks around  *)
(* select: no descriptor is leaked or has two owners, what is read finds   *)
(* the room that was there when select was called, no command is slept     *)
(* over, and, if the program waits for what it sends, what is to be sent   *)
(* agrees between the threads.                                             *)
(***************************************************************************)
EXTENDS W5100, FiniteSetTheorems, SequenceTheorems, TLAPS

-----------------------------------------------------------------------------
(* The invariant.                                                          *)

Sock ==
  [state : States, fd : Fds \union {Invalid}, socket_bound : BOOLEAN,
   write_pending : BOOLEAN, ok_for_io : BOOLEAN, tx_rr : 0 .. W - 1, tx_wr : 0 .. W - 1,
   rx_rsr : 0 .. BUF, last_send : 0 .. W - 1, datagrams : Seq(0 .. W - 1)]

\* Until the I/O thread has seen it, nothing has been received on a descriptor.
Fresh(s) == s.fd # Invalid /\ ~s.ok_for_io => s.rx_rsr = 0

Socket(s) ==
  /\ s \in Sock /\ Len(s.datagrams) <= Slots
  /\ Fresh(s)
  /\ s.fd = Invalid => ~s.ok_for_io

Kinds == {"free", "udp", "stream", "listening", "connected"}

Descriptor == [kind : Kinds, input : 0 .. MaxInput, eof : BOOLEAN]

\* Only connections have an end.
Table(k) ==
  /\ k \in [Fds -> Descriptor]
  /\ \A fd \in Fds : k[fd].kind \in {"udp", "listening"} => ~k[fd].eof

Is(s, k, kind) == s.fd # Invalid /\ k[s.fd].kind = kind

\* A socket in a state of its own has the descriptor that goes with it.
Opened(s, k) ==
  /\ s.state = "init" => Is(s, k, "stream")
  /\ s.state = "listen" => Is(s, k, "listening")
  /\ s.state \in {"established", "close_wait"} => Is(s, k, "connected")
  /\ s.state = "udp" => Is(s, k, "udp")

Owned(sock, k) ==
  /\ \A fd \in Fds : k[fd].kind # "free" <=> \E i \in 1 .. N : sock[i].fd = fd
  /\ \A i, j \in 1 .. N : sock[i].fd = sock[j].fd => i = j \/ sock[i].fd = Invalid

Tables(sock, k) ==
  /\ DOMAIN sock = 1 .. N /\ sock = [i \in 1 .. N |-> sock[i]]
  /\ \A i \in 1 .. N : Socket(sock[i]) /\ Opened(sock[i], k)
  /\ Table(k)
  /\ Owned(sock, k)

HasRoom(s) ==
  Room(s) >= CASE s.state = "udp" -> HEADER + 1
               [] s.state = "listen" -> 0
               [] OTHER -> 1

\* The I/O thread has been at socket i and not yet read from it.
Looked(i) ==
  \/ io.pc = "add" /\ i < io.at
  \/ io.pc \in {"select", "wait"}
  \/ io.pc \in {"process", "blocked"} /\ i >= io.at

\* A descriptor in the set is one that was looked at, or one that was opened
\* since with the number of another.
Chosen(i) ==
  /\ io.pc = "add" /\ i >= io.at /\ socket[i].fd \in io.readfds => ~socket[i].ok_for_io
  /\ Looked(i) /\ socket[i].ok_for_io /\ socket[i].fd \in io.readfds => HasRoom(socket[i])

Pipe == /\ stop_io_thread \in BOOLEAN
        /\ selfpipe \in Nat /\ selfpipe <= MaxWakes + 1
        /\ ~stop_io_thread => selfpipe <= MaxWakes

IoTyped ==
  io \in [pc : {"loop", "add", "select", "wait", "process", "blocked", "ended"},
          at : 1 .. N, readfds : SUBSET Fds, writefds : SUBSET Fds]

IInv ==
  /\ Tables(socket, kernel)
  /\ IoTyped
  /\ Pipe
  /\ \A i \in 1 .. N : Chosen(i)

-----------------------------------------------------------------------------
(* Constants, pointers and descriptors.                                    *)

LEMMA Constants ==
  /\ N \in Nat \ {0} /\ BUF \in Nat \ {0} /\ Slots \in Nat \ {0} /\ MaxInput \in Nat \ {0}
  /\ MaxWakes \in Nat \ {0} /\ HEADER \in Nat /\ HEADER < BUF
  /\ W \in Nat \ {0}
<1>1. /\ N \in Nat \ {0} /\ BUF \in Nat \ {0} /\ Slots \in Nat \ {0} /\ MaxInput \in Nat \ {0}
      /\ MaxWakes \in Nat \ {0} /\ HEADER \in 0 .. BUF - 1
  BY W5100Assumption
<1>2. PICK n \in 2 .. BUF * 32 : W = BUF * n
  BY W5100Assumption
<1>3. n \in Nat \ {0}
  BY <1>1, <1>2
<1>4. BUF * n \in Nat \ {0}
  BY <1>1, <1>3
<1> QED BY <1>1, <1>2, <1>4

LEMMA AdvancedRange ==
  ASSUME NEW p \in Int, NEW n \in Int PROVE Advanced(p, n) \in 0 .. W - 1
<1>1. p + n \in Int
  OBVIOUS
<1> QED BY <1>1, Constants DEF Advanced

LEMMA FdsFacts ==
  /\ Fds \subseteq Nat /\ Invalid \notin Fds
  /\ IsFiniteSet(Fds) /\ Cardinality(Fds) = N + 1
<1>1. N + 1 \in Int /\ ~(1 > N + 1) /\ N + 1 - 1 + 1 = N + 1 /\ 1 \in Int
  BY Constants
<1>2. IsFiniteSet(1 .. N + 1) /\ Cardinality(1 .. N + 1) = N + 1
  BY <1>1, FS_Interval
<1> QED BY <1>2, Constants DEF Fds, Invalid

\* One descriptor more than there are sockets: one is always free.
LEMMA OneFree ==
  ASSUME NEW sock, NEW k, Tables(sock, k)
  PROVE  \E fd \in Fds : k[fd].kind = "free"
<1> SUFFICES ASSUME \A fd \in Fds : k[fd].kind # "free" PROVE FALSE
  OBVIOUS
<1> DEFINE f == [fd \in Fds |-> CHOOSE i \in 1 .. N : sock[i].fd = fd]
<1>1. \A fd \in Fds : f[fd] \in 1 .. N /\ sock[f[fd]].fd = fd
  BY DEF Tables, Owned
<1>2. f \in [Fds -> 1 .. N]
  BY <1>1
<1> HIDE DEF f
<1>3. IsFiniteSet(1 .. N) /\ Cardinality(1 .. N) < Cardinality(Fds)
  <2>1. N \in Int /\ ~(1 > N) /\ N - 1 + 1 = N /\ 1 \in Int /\ N < N + 1
    BY Constants
  <2>2. IsFiniteSet(1 .. N) /\ Cardinality(1 .. N) = N
    BY <2>1, FS_Interval
  <2> QED BY <2>1, <2>2, FdsFacts
<1>4. \E x, y \in Fds : x # y /\ f[x] = f[y]
  BY <1>2, <1>3, FdsFacts, FS_PigeonHole
<1> QED BY <1>1, <1>4

\* The numbers are well ordered.
LEMMA LeastElement ==
  ASSUME NEW S, S \subseteq Nat, S # {}
  PROVE  \E n \in S : \A m \in S : n <= m
<1> DEFINE Initial == {0 .. m : m \in S}
           Order == StrictSubsetOrdering(Nat)
<1>1. Initial # {} /\ Initial \subseteq FiniteSubsetsOf(Nat)
  <2>1. ASSUME NEW m \in S  PROVE 0 .. m \in FiniteSubsetsOf(Nat)
    <3>1. 0 \in Int /\ m \in Int /\ 0 .. m \subseteq Nat
      OBVIOUS
    <3>2. IsFiniteSet(0 .. m)
      BY <3>1, FS_Interval, Zenon
    <3> QED BY <3>1, <3>2, Zenon DEF FiniteSubsetsOf
  <2> QED BY <2>1
<1>2. IsWellFoundedOn(Order, FiniteSubsetsOf(Nat))
  BY FS_StrictSubsetOrderingWellFounded
<1>3. PICK I \in Initial : \A J \in Initial : ~ (<<J, I>> \in Order)
  <2> HIDE DEF Initial, Order
  <2> QED BY <1>1, <1>2, WFMin
<1>4. PICK n \in S : I = 0 .. n
  BY <1>3
<1>5. ASSUME NEW m \in S, m < n  PROVE FALSE
  <2>1. ~ (<<0 .. m, 0 .. n>> \in Order)
    BY <1>3, <1>4
  <2>2. 0 .. m \subseteq 0 .. n /\ n \in 0 .. n /\ n \notin 0 .. m
    BY <1>5
  <2> QED BY <2>1, <2>2 DEF StrictSubsetOrdering
<1> QED
  BY <1>5

LEMMA LowestIsFree ==
  ASSUME NEW k, \E fd \in Fds : k[fd].kind = "free"
  PROVE  LowestFree(k) \in Fds /\ k[LowestFree(k)].kind = "free"
<1> DEFINE S == {fd \in Fds : k[fd].kind = "free"}
<1>1. S \subseteq Nat /\ S # {}
  BY FdsFacts
<1>2. \E fd \in S : \A other \in S : fd <= other
  BY <1>1, LeastElement
<1>3. \E fd \in Fds : /\ k[fd].kind = "free"
                      /\ \A other \in Fds : k[other].kind = "free" => fd <= other
  BY <1>2
<1> QED BY <1>3 DEF LowestFree

-----------------------------------------------------------------------------
(* One socket and the descriptors it has and had.                          *)

LEMMA CleanIs ==
  ASSUME NEW s, Socket(s)
  PROVE  /\ Socket(clean(s)) /\ clean(s).fd = Invalid /\ clean(s).state = s.state
         /\ ~clean(s).ok_for_io /\ clean(s).rx_rsr = 0
<1> DEFINE wiped == [s EXCEPT !.tx_rr = 0, !.tx_wr = 0, !.rx_rsr = 0, !.last_send = 0,
                              !.datagrams = << >>]
           none == init_common(wiped)
<1>1. 0 \in 0 .. W - 1 /\ 0 \in 0 .. BUF /\ 0 <= Slots
  BY Constants
<1>2. << >> \in Seq(0 .. W - 1) /\ Len(<< >>) = 0
  BY EmptySeq
<1>3. /\ wiped \in Sock /\ wiped.datagrams = << >> /\ wiped.rx_rsr = 0
      /\ wiped.fd = s.fd /\ wiped.state = s.state /\ wiped.ok_for_io = s.ok_for_io
  BY <1>1, <1>2 DEF Socket, Sock
<1> HIDE DEF wiped
<1>4. /\ none \in Sock /\ none.datagrams = << >> /\ none.rx_rsr = 0
      /\ none.fd = Invalid /\ none.state = wiped.state /\ ~none.ok_for_io
  BY <1>3 DEF init_common, Sock
<1> HIDE DEF none
<1>5. clean(s) = IF s.fd = Invalid THEN wiped ELSE none
  BY DEF clean, wiped, none
<1>6. CASE s.fd = Invalid
  BY <1>1, <1>2, <1>3, <1>5, <1>6 DEF Socket, Fresh
<1>7. CASE s.fd # Invalid
  BY <1>1, <1>2, <1>3, <1>4, <1>5, <1>7 DEF Socket, Fresh
<1> QED BY <1>6, <1>7

LEMMA BoundIs ==
  ASSUME NEW s, NEW k, Socket(s), Opened(s, k), NEW b \in Bound(s)
  PROVE  /\ Socket(b) /\ Opened(b, k)
         /\ b.fd = s.fd /\ b.ok_for_io = s.ok_for_io /\ b.rx_rsr = s.rx_rsr
         /\ b.state \in {s.state, "closed"}
<1>1. b = s \/ b = [s EXCEPT !.socket_bound = TRUE] \/ b = [s EXCEPT !.state = "closed"]
  BY DEF Bound
<1>2. /\ b \in Sock /\ b.fd = s.fd /\ b.ok_for_io = s.ok_for_io /\ b.rx_rsr = s.rx_rsr
      /\ b.datagrams = s.datagrams /\ b.state \in {s.state, "closed"}
  BY <1>1 DEF Socket, Sock, States
<1> QED BY <1>2 DEF Socket, Fresh, Opened, Is

\* What a step may do to one socket and to the descriptors.
Replaces(s, t, k, k2) ==
  /\ Socket(t) /\ Opened(t, k2) /\ Table(k2)
  /\ \A fd \in Fds : fd # s.fd /\ fd # t.fd => k2[fd] = k[fd]
  /\ t.fd # Invalid => /\ k2[t.fd].kind # "free"
                       /\ t.fd = s.fd \/ k[t.fd].kind = "free"
  /\ s.fd # Invalid /\ t.fd # s.fd => k2[s.fd].kind = "free"

LEMMA ReplaceKeeps ==
  ASSUME NEW sock, NEW k, NEW k2, NEW i \in 1 .. N, NEW t,
         Tables(sock, k), Replaces(sock[i], t, k, k2)
  PROVE  Tables([sock EXCEPT ![i] = t], k2)
<1> DEFINE new == [sock EXCEPT ![i] = t]
           s == sock[i]
<1>1. /\ DOMAIN new = 1 .. N /\ new[i] = t
      /\ \A j \in 1 .. N : j # i => new[j] = sock[j]
      /\ new = [j \in 1 .. N |-> new[j]]
  <2>1. DOMAIN sock = 1 .. N
    BY DEF Tables
  <2> QED BY <2>1
<1> HIDE DEF new
<1>2. /\ \A j \in 1 .. N : Socket(sock[j]) /\ Opened(sock[j], k) /\ sock[j].fd \in Fds \union {Invalid}
      /\ \A fd \in Fds : k[fd].kind # "free" <=> \E j \in 1 .. N : sock[j].fd = fd
      /\ \A j, l \in 1 .. N : sock[j].fd = sock[l].fd => j = l \/ sock[j].fd = Invalid
  BY DEF Tables, Owned, Socket, Sock
<1>3. /\ Socket(t) /\ Opened(t, k2) /\ Table(k2) /\ t.fd \in Fds \union {Invalid}
      /\ \A fd \in Fds : fd # s.fd /\ fd # t.fd => k2[fd] = k[fd]
      /\ t.fd # Invalid => /\ k2[t.fd].kind # "free"
                           /\ t.fd = s.fd \/ k[t.fd].kind = "free"
      /\ s.fd # Invalid /\ t.fd # s.fd => k2[s.fd].kind = "free"
  BY DEF Replaces, Socket, Sock
<1>4. \A j \in 1 .. N : j # i /\ sock[j].fd # Invalid =>
                          sock[j].fd # s.fd /\ sock[j].fd # t.fd /\ sock[j].fd \in Fds
  BY <1>2, <1>3
<1>5. \A j \in 1 .. N : Socket(new[j]) /\ Opened(new[j], k2)
  <2> SUFFICES ASSUME NEW j \in 1 .. N PROVE Socket(new[j]) /\ Opened(new[j], k2)
    OBVIOUS
  <2>1. CASE j = i
    BY <1>1, <1>3, <2>1
  <2>2. CASE j # i
    <3>1. sock[j].fd # Invalid => k2[sock[j].fd] = k[sock[j].fd]
      BY <1>3, <1>4, <2>2
    <3>2. Socket(sock[j]) /\ Opened(sock[j], k) /\ new[j] = sock[j]
      BY <1>1, <1>2, <2>2
    <3> QED BY <3>1, <3>2 DEF Opened, Is
  <2> QED BY <2>1, <2>2
<1>6. ASSUME NEW fd \in Fds
      PROVE  k2[fd].kind # "free" <=> \E j \in 1 .. N : new[j].fd = fd
  <2>1. fd # Invalid
    BY FdsFacts
  <2>2. CASE fd = t.fd
    BY <1>1, <1>3, <2>1, <2>2
  <2>3. CASE fd # t.fd /\ fd = s.fd
    <3>1. \A j \in 1 .. N : j # i => sock[j].fd # fd
      BY <1>2, <2>1, <2>3
    <3>2. \A j \in 1 .. N : new[j].fd # fd
      BY <1>1, <2>3, <3>1
    <3> QED BY <1>3, <2>1, <2>3, <3>2
  <2>4. CASE fd # t.fd /\ fd # s.fd
    <3>1. k2[fd] = k[fd]
      BY <1>3, <2>4
    <3>2. \A j \in 1 .. N : new[j].fd = fd <=> sock[j].fd = fd
      BY <1>1, <2>4
    <3> QED BY <1>2, <3>1, <3>2
  <2> QED BY <2>2, <2>3, <2>4
<1>7. ASSUME NEW j \in 1 .. N, NEW l \in 1 .. N, new[j].fd = new[l].fd
      PROVE  j = l \/ new[j].fd = Invalid
  BY <1>1, <1>2, <1>4, <1>7
<1>8. Owned(new, k2)
  BY <1>6, <1>7 DEF Owned
<1> QED BY <1>1, <1>3, <1>5, <1>8 DEF Tables, new

-----------------------------------------------------------------------------
(* The emulator's thread.                                                  *)

LEMMA SocketStep ==
  ASSUME IInv, NEW i \in 1 .. N, NEW t,
         socket' = [socket EXCEPT ![i] = t],
         Replaces(socket[i], t, kernel, kernel'),
         UNCHANGED <<stop_io_thread, io>>, UNCHANGED selfpipe \/ Wake,
         t.ok_for_io => /\ socket[i].ok_for_io /\ t.fd = socket[i].fd
                        /\ HasRoom(socket[i]) => HasRoom(t)
  PROVE  IInv'
<1>1. Tables(socket', kernel')
  BY ReplaceKeeps DEF IInv
<1>2. IoTyped'
  BY DEF IInv, IoTyped
<1>3. Pipe'
  BY Constants DEF IInv, Pipe, Wake
<1>4. ASSUME NEW j \in 1 .. N PROVE Chosen(j)'
  <2>1. DOMAIN socket = 1 .. N
    BY DEF IInv, Tables
  <2>2. Looked(j)' <=> Looked(j)
    BY DEF Looked
  <2>3. CASE j # i
    <3>1. socket'[j] = socket[j]
      BY <2>1, <2>3
    <3> QED BY <2>2, <3>1 DEF IInv, Chosen
  <2>4. CASE j = i
    <3>1. socket'[j] = t
      BY <2>1, <2>4
    <3> QED BY <2>2, <2>4, <3>1 DEF IInv, Chosen
  <2> QED BY <2>3, <2>4
<1> QED BY <1>1, <1>2, <1>3, <1>4 DEF IInv

\* A step that leaves a socket its descriptor.
LEMMA SameFd ==
  ASSUME NEW s, NEW t, NEW k, Socket(s), Socket(t), Opened(t, k), Table(k),
         t.fd = s.fd, s.fd # Invalid => k[s.fd].kind # "free"
  PROVE  Replaces(s, t, k, k)
BY DEF Replaces

\* What is known of one socket.
LEMMA SocketFacts ==
  ASSUME NEW sock, NEW k, Tables(sock, k), NEW i \in 1 .. N
  PROVE  /\ Socket(sock[i]) /\ Opened(sock[i], k) /\ Table(k)
         /\ sock[i] \in Sock /\ Len(sock[i].datagrams) <= Slots
         /\ sock[i].fd \in Fds \union {Invalid}
         /\ sock[i].fd # Invalid => sock[i].fd \in Fds /\ k[sock[i].fd].kind # "free"
<1>1. Socket(sock[i]) /\ Opened(sock[i], k) /\ Table(k) /\ Owned(sock, k)
  BY DEF Tables
<1>2. sock[i].fd \in Fds \union {Invalid}
  BY <1>1 DEF Socket, Sock
<1> QED BY <1>1, <1>2 DEF Socket, Owned

LEMMA FileIs ==
  ASSUME NEW kind \in Kinds
  PROVE  /\ File(kind) \in Descriptor /\ File(kind).kind = kind /\ File(kind).input = 0
         /\ ~File(kind).eof
<1>1. 0 \in 0 .. MaxInput
  BY Constants
<1> QED BY <1>1 DEF File, Descriptor

LEMMA ClosedIs ==
  ASSUME NEW k, Table(k), NEW fd \in Fds \union {Invalid}
  PROVE  /\ Table(Closed(k, fd))
         /\ fd # Invalid => Closed(k, fd)[fd].kind = "free"
         /\ \A other \in Fds : other # fd => Closed(k, fd)[other] = k[other]
<1>1. File("free") \in Descriptor /\ File("free").kind = "free"
  BY FileIs DEF Kinds
<1>2. CASE fd = Invalid
  BY <1>2 DEF Closed
<1>3. CASE fd # Invalid
  <2>1. Closed(k, fd) = [k EXCEPT ![fd] = File("free")] /\ fd \in Fds
    BY <1>3 DEF Closed
  <2> QED BY <1>1, <2>1, <1>3 DEF Table
<1> QED BY <1>2, <1>3

LEMMA ResetStep == ASSUME IInv, NEW i \in 1 .. N, reset(i) PROVE IInv'
<1> DEFINE s == socket[i]
           c == [s EXCEPT !.state = "closed"]
           t == clean(c)
<1>1. /\ Socket(s) /\ Table(kernel) /\ s \in Sock /\ s.fd \in Fds \union {Invalid}
      /\ Len(s.datagrams) <= Slots
  BY SocketFacts DEF IInv
<1>2. Socket(c) /\ c.state = "closed"
  BY <1>1 DEF Socket, Sock, States, Fresh
<1>3. Socket(t) /\ t.fd = Invalid /\ t.state = "closed" /\ ~t.ok_for_io
  BY <1>2, CleanIs
<1>4. kernel' = Closed(kernel, s.fd) /\ socket' = [socket EXCEPT ![i] = t]
      /\ UNCHANGED <<stop_io_thread, io, selfpipe>>
  BY DEF reset
<1>5. /\ Table(kernel')
      /\ s.fd # Invalid => kernel'[s.fd].kind = "free"
      /\ \A fd \in Fds : fd # s.fd => kernel'[fd] = kernel[fd]
  BY <1>1, <1>4, ClosedIs
<1> HIDE DEF t
<1>6. Replaces(s, t, kernel, kernel')
  BY <1>3, <1>5 DEF Replaces, Opened
<1> QED BY <1>3, <1>4, <1>6, SocketStep

LEMMA OpenStep == ASSUME IInv, NEW i \in 1 .. N, open(i) PROVE IInv'
<1> DEFINE s == socket[i]
           k == Closed(kernel, s.fd)
           fd == LowestFree(k)
           c == clean(s)
<1>1. /\ Socket(s) /\ Table(kernel) /\ s \in Sock /\ s.fd \in Fds \union {Invalid}
      /\ Len(s.datagrams) <= Slots /\ s.state = "closed"
  BY SocketFacts DEF IInv, open
<1>2. /\ Socket(c) /\ c.fd = Invalid /\ c.state = "closed" /\ ~c.ok_for_io /\ c.rx_rsr = 0
  BY <1>1, CleanIs
<1>3. /\ Table(k)
      /\ s.fd # Invalid => k[s.fd].kind = "free"
      /\ \A other \in Fds : other # s.fd => k[other] = kernel[other]
  BY <1>1, ClosedIs
<1>4. fd \in Fds /\ k[fd].kind = "free"
  <2>1. \E other \in Fds : kernel[other].kind = "free"
    BY OneFree DEF IInv
  <2> HIDE DEF k
  <2>2. \E other \in Fds : k[other].kind = "free"
    BY <1>3, <2>1, FdsFacts
  <2> QED BY <2>2, LowestIsFree
<1>5. UNCHANGED <<stop_io_thread, io, selfpipe>>
  BY DEF open
<1>6. ASSUME NEW tcp \in BOOLEAN,
             kernel' = [k EXCEPT ![fd] = File(IF tcp THEN "stream" ELSE "udp")],
             socket' = [socket EXCEPT ![i] =
                  [c EXCEPT !.fd = fd, !.state = IF tcp THEN "init" ELSE "udp"]]
      PROVE  IInv'
  <2> DEFINE t == [c EXCEPT !.fd = fd, !.state = IF tcp THEN "init" ELSE "udp"]
             kind == IF tcp THEN "stream" ELSE "udp"
  <2>1. /\ Socket(t) /\ t.fd = fd /\ ~t.ok_for_io
        /\ t.state = IF tcp THEN "init" ELSE "udp"
    BY <1>2, <1>4 DEF Socket, Sock, States, Fresh
  <2>2. kind \in Kinds /\ kernel' = [k EXCEPT ![fd] = File(kind)]
    BY <1>6 DEF Kinds
  <2>7. kind = IF tcp THEN "stream" ELSE "udp"
    OBVIOUS
  <2> HIDE DEF k, fd, kind
  <2>3. /\ Table(kernel') /\ kernel'[fd].kind = kind
        /\ \A other \in Fds : other # fd => kernel'[other] = k[other]
    BY <1>3, <1>4, <2>2, FileIs DEF Table
  <2> HIDE DEF t
  <2>4. Opened(t, kernel')
    BY <2>1, <2>3, <2>7, <1>4, FdsFacts DEF Opened, Is
  <2>5. fd # s.fd => kernel[fd].kind = "free"
    BY <1>3, <1>4
  <2>6. Replaces(s, t, kernel, kernel')
    BY <1>1, <1>3, <1>4, <2>1, <2>3, <2>4, <2>5, <2>7 DEF Replaces
  <2> QED BY <1>5, <1>6, <2>1, <2>6, SocketStep DEF t
<1>7. ASSUME kernel' = k, socket' = [socket EXCEPT ![i] = c] PROVE IInv'
  <2> HIDE DEF k, c
  <2>1. Replaces(s, c, kernel, kernel')
    BY <1>2, <1>3, <1>7 DEF Replaces, Opened
  <2> QED BY <1>2, <1>5, <1>7, <2>1, SocketStep
<1> QED BY <1>6, <1>7 DEF open

\* HasRoom where the state changes, and what is received does not.
LEMMA RoomIs ==
  ASSUME NEW s, NEW t, Socket(s), Socket(t), t.rx_rsr = s.rx_rsr,
         t.state # s.state => t.state = "listen" \/ (t.state # "udp" /\ s.state # "listen"),
         HasRoom(s)
  PROVE  HasRoom(t)
<1>1. /\ s.rx_rsr \in 0 .. BUF /\ Room(t) = Room(s)
      /\ Room(s) \in Nat
  BY Constants DEF Socket, Sock, Room
<1>2. t.state = "udp" => s.state = "udp"
  OBVIOUS
<1>3. CASE t.state = "listen"
  BY <1>1, <1>3 DEF HasRoom
<1>4. CASE t.state = s.state
  BY <1>1, <1>4 DEF HasRoom
<1>5. CASE t.state # "listen" /\ t.state # "udp" /\ s.state # "listen"
  <2>1. Room(s) >= 1
    BY <1>1, <1>5, Constants DEF HasRoom
  <2> QED BY <1>1, <1>5, <2>1 DEF HasRoom
<1> QED BY <1>3, <1>4, <1>5

LEMMA ListenStep == ASSUME IInv, NEW i \in 1 .. N, listen(i) PROVE IInv'
<1> DEFINE s == socket[i]
<1>1. /\ Socket(s) /\ Opened(s, kernel) /\ Table(kernel) /\ s.state = "init"
      /\ s.fd \in Fds /\ kernel[s.fd].kind = "stream" /\ s.fd # Invalid
      /\ UNCHANGED <<stop_io_thread, io>>
  BY SocketFacts, FdsFacts DEF IInv, listen, Opened, Is
<1>2. PICK b \in Bound(s) :
        \/ /\ b.state = "init"
           /\ socket' = [socket EXCEPT ![i] = [b EXCEPT !.state = "listen"]]
           /\ kernel' = [kernel EXCEPT ![b.fd] = File("listening")]
           /\ Wake
        \/ /\ socket' = [socket EXCEPT ![i] = b]
           /\ UNCHANGED <<selfpipe, kernel>>
  BY DEF listen
<1>3. /\ Socket(b) /\ Opened(b, kernel) /\ b.fd = s.fd /\ b.ok_for_io = s.ok_for_io
      /\ b.rx_rsr = s.rx_rsr /\ b.state \in {s.state, "closed"} /\ b \in Sock
  BY <1>1, BoundIs DEF Socket
<1>4. CASE b.state = "init" /\ socket' = [socket EXCEPT ![i] = [b EXCEPT !.state = "listen"]]
           /\ kernel' = [kernel EXCEPT ![b.fd] = File("listening")] /\ Wake
  <2> DEFINE t == [b EXCEPT !.state = "listen"]
  <2>1. /\ Socket(t) /\ t.fd = s.fd /\ t.ok_for_io = s.ok_for_io /\ t.rx_rsr = s.rx_rsr
        /\ t.state = "listen"
    BY <1>3 DEF Socket, Sock, States, Fresh
  <2> HIDE DEF t
  <2>2. /\ Table(kernel') /\ kernel'[s.fd].kind = "listening"
        /\ \A fd \in Fds : fd # s.fd => kernel'[fd] = kernel[fd]
    BY <1>1, <1>3, <1>4, FileIs DEF Table, Kinds
  <2>3. Replaces(s, t, kernel, kernel')
    BY <1>1, <2>1, <2>2 DEF Replaces, Opened, Is
  <2>4. HasRoom(s) => HasRoom(t)
    BY <1>1, <2>1, RoomIs
  <2> QED BY <1>1, <1>4, <2>1, <2>3, <2>4, SocketStep DEF t
<1>5. CASE socket' = [socket EXCEPT ![i] = b] /\ UNCHANGED <<selfpipe, kernel>>
  <2>1. Replaces(s, b, kernel, kernel')
    BY <1>1, <1>3, <1>5, SameFd
  <2>2. HasRoom(s) => HasRoom(b)
    BY <1>1, <1>3, RoomIs
  <2> QED BY <1>1, <1>3, <1>5, <2>1, <2>2, SocketStep
<1> QED BY <1>2, <1>4, <1>5

LEMMA ConnectStep == ASSUME IInv, NEW i \in 1 .. N, connect(i) PROVE IInv'
<1> DEFINE s == socket[i]
<1>1. /\ Socket(s) /\ Opened(s, kernel) /\ Table(kernel) /\ s.state = "init"
      /\ s.fd \in Fds /\ kernel[s.fd].kind = "stream" /\ s.fd # Invalid
      /\ UNCHANGED <<stop_io_thread, io, selfpipe>>
  BY SocketFacts, FdsFacts DEF IInv, connect, Opened, Is
<1>2. PICK b \in Bound(s) :
        \/ /\ b.state = "init"
           /\ socket' = [socket EXCEPT ![i] = [b EXCEPT !.state = "established"]]
           /\ kernel' = [kernel EXCEPT ![b.fd] = File("connected")]
        \/ /\ socket' = [socket EXCEPT ![i] = [b EXCEPT !.state = "closed"]]
           /\ UNCHANGED kernel
  BY DEF connect
<1>3. /\ Socket(b) /\ Opened(b, kernel) /\ b.fd = s.fd /\ b.ok_for_io = s.ok_for_io
      /\ b.rx_rsr = s.rx_rsr /\ b.state \in {s.state, "closed"} /\ b \in Sock
  BY <1>1, BoundIs DEF Socket
<1>4. CASE socket' = [socket EXCEPT ![i] = [b EXCEPT !.state = "established"]]
           /\ kernel' = [kernel EXCEPT ![b.fd] = File("connected")]
  <2> DEFINE t == [b EXCEPT !.state = "established"]
  <2>1. /\ Socket(t) /\ t.fd = s.fd /\ t.ok_for_io = s.ok_for_io /\ t.rx_rsr = s.rx_rsr
        /\ t.state = "established"
    BY <1>3 DEF Socket, Sock, States, Fresh
  <2> HIDE DEF t
  <2>2. /\ Table(kernel') /\ kernel'[s.fd].kind = "connected"
        /\ \A fd \in Fds : fd # s.fd => kernel'[fd] = kernel[fd]
    BY <1>1, <1>3, <1>4, FileIs DEF Table, Kinds
  <2>3. Replaces(s, t, kernel, kernel')
    BY <1>1, <2>1, <2>2 DEF Replaces, Opened, Is
  <2>4. HasRoom(s) => HasRoom(t)
    BY <1>1, <2>1, RoomIs
  <2> QED BY <1>1, <1>4, <2>1, <2>3, <2>4, SocketStep DEF t
<1>5. CASE socket' = [socket EXCEPT ![i] = [b EXCEPT !.state = "closed"]] /\ UNCHANGED kernel
  <2> DEFINE t == [b EXCEPT !.state = "closed"]
  <2>1. /\ Socket(t) /\ t.fd = s.fd /\ t.ok_for_io = s.ok_for_io /\ t.rx_rsr = s.rx_rsr
        /\ t.state = "closed"
    BY <1>3 DEF Socket, Sock, States, Fresh
  <2> HIDE DEF t
  <2>2. Opened(t, kernel)
    BY <2>1 DEF Opened
  <2>3. Replaces(s, t, kernel, kernel')
    BY <1>1, <1>5, <2>1, <2>2, SameFd
  <2>4. HasRoom(s) => HasRoom(t)
    BY <1>1, <2>1, RoomIs
  <2> QED BY <1>1, <1>5, <2>1, <2>3, <2>4, SocketStep DEF t
<1> QED BY <1>2, <1>4, <1>5

\* A step that leaves the descriptors alone and receives nothing.
LEMMA QuietStep ==
  ASSUME IInv, NEW i \in 1 .. N, NEW t, Socket(t),
         socket' = [socket EXCEPT ![i] = t],
         UNCHANGED <<stop_io_thread, io, kernel>>, UNCHANGED selfpipe \/ Wake,
         t.state \in {socket[i].state, "closed"}, socket[i].state # "listen",
         t.fd = socket[i].fd, t.ok_for_io = socket[i].ok_for_io,
         t.rx_rsr <= socket[i].rx_rsr
  PROVE  IInv'
<1> DEFINE s == socket[i]
<1>1. /\ Socket(s) /\ Opened(s, kernel) /\ Table(kernel)
      /\ s.fd # Invalid => kernel[s.fd].kind # "free"
  BY SocketFacts DEF IInv
<1>2. Opened(t, kernel)
  BY <1>1 DEF Opened, Is
<1>3. Replaces(s, t, kernel, kernel')
  BY <1>1, <1>2, SameFd
<1>4. HasRoom(s) => HasRoom(t)
  <2>1. /\ s.rx_rsr \in 0 .. BUF /\ t.rx_rsr \in 0 .. BUF
        /\ Room(t) >= Room(s) /\ Room(s) \in Nat /\ Room(t) \in Nat
    BY <1>1, Constants DEF Socket, Sock, Room
  <2>2. CASE t.state = s.state
    BY <2>1, <2>2, Constants DEF HasRoom
  <2>3. CASE t.state = "closed" /\ s.state # "listen"
    <3>1. HasRoom(s) => Room(s) >= 1
      BY <2>1, <2>3, Constants DEF HasRoom
    <3> QED BY <2>1, <2>3, <3>1 DEF HasRoom
  <2> QED BY <2>2, <2>3
<1> QED BY <1>3, <1>4, SocketStep

LEMMA DisconStep == ASSUME IInv, NEW i \in 1 .. N, discon(i) PROVE IInv'
<1> DEFINE s == socket[i]
           t == [s EXCEPT !.state = "closed"]
<1>1. Socket(s) /\ s \in Sock
  BY SocketFacts DEF IInv
<1>2. socket' = [socket EXCEPT ![i] = t] /\ Wake /\ UNCHANGED <<stop_io_thread, io, kernel>>
      /\ s.state # "listen"
  BY DEF discon
<1>3. /\ Socket(t) /\ t.fd = s.fd /\ t.ok_for_io = s.ok_for_io /\ t.rx_rsr = s.rx_rsr
      /\ t.state = "closed"
  BY <1>1 DEF Socket, Sock, States, Fresh
<1>4. s.rx_rsr <= s.rx_rsr
  BY <1>1, Constants DEF Sock
<1> HIDE DEF t
<1> QED BY <1>2, <1>3, <1>4, QuietStep

LEMMA CloseStep == ASSUME IInv, NEW i \in 1 .. N, close(i) PROVE IInv'
<1> DEFINE s == socket[i]
           t == [s EXCEPT !.fd = Invalid, !.socket_bound = FALSE, !.ok_for_io = FALSE,
                          !.state = "closed"]
<1>1. /\ Socket(s) /\ Table(kernel) /\ s \in Sock /\ s.fd \in Fds \union {Invalid}
  BY SocketFacts DEF IInv
<1>2. /\ socket' = [socket EXCEPT ![i] = t] /\ kernel' = Closed(kernel, s.fd)
      /\ Wake /\ UNCHANGED <<stop_io_thread, io>>
  BY DEF close
<1>3. Socket(t) /\ t.fd = Invalid /\ t.state = "closed" /\ ~t.ok_for_io
  BY <1>1 DEF Socket, Sock, States, Fresh
<1>4. /\ Table(kernel')
      /\ s.fd # Invalid => kernel'[s.fd].kind = "free"
      /\ \A fd \in Fds : fd # s.fd => kernel'[fd] = kernel[fd]
  BY <1>1, <1>2, ClosedIs
<1> HIDE DEF t
<1>5. Replaces(s, t, kernel, kernel')
  BY <1>3, <1>4 DEF Replaces, Opened
<1> QED BY <1>2, <1>3, <1>5, SocketStep

LEMMA SendStep == ASSUME IInv, NEW i \in 1 .. N, send(i) PROVE IInv'
<1> DEFINE s == socket[i]
<1>1. /\ Socket(s) /\ Opened(s, kernel) /\ s \in Sock /\ s.tx_wr \in Int /\ s.rx_rsr \in Nat
      /\ UNCHANGED <<stop_io_thread, io, kernel>>
  BY SocketFacts, Constants DEF IInv, send, Sock
<1>2. PICK n \in Outgoing(s) :
       \/ /\ s.state = "udp"
          /\ Len(s.datagrams) < Slots
          /\ \E b \in Bound(s) :
               \/ /\ b.state = "udp"
                  /\ socket' = [socket EXCEPT ![i] = Queued(b, n)]
                  /\ Wake
               \/ /\ b.state = "closed"
                  /\ socket' = [socket EXCEPT ![i] = [b EXCEPT !.tx_wr = Advanced(@, n)]]
                  /\ UNCHANGED selfpipe
       \/ /\ s.state = "established"
          /\ ~s.write_pending
          /\ socket' = [socket EXCEPT ![i] =
               [s EXCEPT !.tx_wr = Advanced(@, n), !.write_pending = TRUE]]
          /\ Wake
  BY DEF send
<1>3. n \in Int /\ Advanced(s.tx_wr, n) \in 0 .. W - 1
  <2>1. n \in Int
    BY DEF Outgoing
  <2> QED BY <1>1, <2>1, AdvancedRange
<1>4. ASSUME s.state = "udp", Len(s.datagrams) < Slots, NEW b \in Bound(s),
             \/ /\ b.state = "udp"
                /\ socket' = [socket EXCEPT ![i] = Queued(b, n)]
                /\ Wake
             \/ /\ b.state = "closed"
                /\ socket' = [socket EXCEPT ![i] = [b EXCEPT !.tx_wr = Advanced(@, n)]]
                /\ UNCHANGED selfpipe
      PROVE  IInv'
  <2>1. /\ Socket(b) /\ b.fd = s.fd /\ b.ok_for_io = s.ok_for_io /\ b.rx_rsr = s.rx_rsr
        /\ b \in Sock
    BY <1>1, BoundIs DEF Socket
  <2>2. b.tx_wr = s.tx_wr /\ b.datagrams = s.datagrams
    BY <1>1 DEF Bound, Sock
  <2>3. CASE b.state = "udp" /\ socket' = [socket EXCEPT ![i] = Queued(b, n)] /\ Wake
    <3> DEFINE t == Queued(b, n)
               length == (Advanced(b.tx_wr, n) - b.last_send) % W
               all == Append(b.datagrams, length)
    <3>1. length \in 0 .. W - 1
      <4>1. Advanced(b.tx_wr, n) - b.last_send \in Int
        BY <1>3, <2>1, <2>2, Constants DEF Sock
      <4> QED BY <4>1, Constants
    <3>2. b.datagrams \in Seq(0 .. W - 1) /\ Len(b.datagrams) < Slots
      BY <1>4, <2>1, <2>2 DEF Sock
    <3> HIDE DEF length
    <3>3. all \in Seq(0 .. W - 1) /\ Len(all) = Len(b.datagrams) + 1 /\ Len(b.datagrams) \in Nat
      BY <3>1, <3>2
    <3>4. /\ t = [b EXCEPT !.tx_wr = Advanced(b.tx_wr, n), !.last_send = Advanced(b.tx_wr, n),
                           !.write_pending = TRUE, !.datagrams = all]
      BY <2>1 DEF Queued, Sock, length
    <3> HIDE DEF all, t
    <3>5. /\ t \in Sock /\ t.datagrams = all /\ t.fd = b.fd /\ t.ok_for_io = b.ok_for_io
          /\ t.rx_rsr = b.rx_rsr /\ t.state = b.state
      BY <1>3, <2>1, <2>2, <3>3, <3>4 DEF Sock
    <3>6. Socket(t)
      BY <2>1, <3>2, <3>3, <3>5, Constants DEF Socket, Fresh
    <3>7. s.rx_rsr <= s.rx_rsr
      BY <1>1
    <3> QED BY <1>1, <1>4, <2>1, <2>3, <3>5, <3>6, <3>7, QuietStep DEF t
  <2>4. CASE b.state = "closed" /\ UNCHANGED selfpipe
             /\ socket' = [socket EXCEPT ![i] = [b EXCEPT !.tx_wr = Advanced(@, n)]]
    <3> DEFINE t == [b EXCEPT !.tx_wr = Advanced(@, n)]
    <3>1. /\ t \in Sock /\ t.datagrams = b.datagrams /\ t.fd = b.fd /\ t.ok_for_io = b.ok_for_io
          /\ t.rx_rsr = b.rx_rsr /\ t.state = b.state
      BY <1>3, <2>1, <2>2 DEF Sock
    <3> HIDE DEF t
    <3>2. Socket(t)
      BY <2>1, <3>1 DEF Socket, Fresh
    <3>3. s.rx_rsr <= s.rx_rsr
      BY <1>1
    <3> QED BY <1>1, <1>4, <2>1, <2>4, <3>1, <3>2, <3>3, QuietStep DEF t
  <2> QED BY <1>4, <2>3, <2>4
<1>5. CASE /\ s.state = "established"
           /\ ~s.write_pending
           /\ socket' = [socket EXCEPT ![i] =
                [s EXCEPT !.tx_wr = Advanced(@, n), !.write_pending = TRUE]]
           /\ Wake
  <2> DEFINE t == [s EXCEPT !.tx_wr = Advanced(@, n), !.write_pending = TRUE]
  <2>4. socket' = [socket EXCEPT ![i] = t]
    BY <1>5
  <2>1. /\ t \in Sock /\ t.datagrams = s.datagrams /\ t.fd = s.fd /\ t.ok_for_io = s.ok_for_io
        /\ t.rx_rsr = s.rx_rsr /\ t.state = s.state
    BY <1>1, <1>3 DEF Sock
  <2> HIDE DEF t
  <2>2. Socket(t)
    BY <1>1, <2>1 DEF Socket, Fresh
  <2>3. s.rx_rsr <= s.rx_rsr
    BY <1>1
  <2> QED BY <1>1, <1>5, <2>1, <2>2, <2>3, <2>4, QuietStep
<1>6. CASE /\ s.state = "udp"
           /\ Len(s.datagrams) < Slots
           /\ \E b \in Bound(s) :
                \/ /\ b.state = "udp"
                   /\ socket' = [socket EXCEPT ![i] = Queued(b, n)]
                   /\ Wake
                \/ /\ b.state = "closed"
                   /\ socket' = [socket EXCEPT ![i] = [b EXCEPT !.tx_wr = Advanced(@, n)]]
                   /\ UNCHANGED selfpipe
  BY <1>4, <1>6, Zenon
<1> QED BY <1>2, <1>5, <1>6, Zenon

LEMMA RecvStep == ASSUME IInv, NEW i \in 1 .. N, recv(i) PROVE IInv'
<1> DEFINE s == socket[i]
<1>1. Socket(s) /\ s \in Sock /\ s.rx_rsr \in Nat /\ s.rx_rsr \in 0 .. BUF
  BY SocketFacts, Constants DEF IInv, Sock
<1>2. PICK n \in 1 .. s.rx_rsr : socket' = [socket EXCEPT ![i].rx_rsr = @ - n]
  BY DEF recv
<1> DEFINE t == [s EXCEPT !.rx_rsr = s.rx_rsr - n]
<1>3. socket' = [socket EXCEPT ![i] = t] /\ Wake /\ UNCHANGED <<stop_io_thread, io, kernel>>
      /\ s.state # "listen"
  BY <1>2 DEF recv
<1>4. /\ t \in Sock /\ t.fd = s.fd /\ t.ok_for_io = s.ok_for_io /\ t.state = s.state
      /\ t.datagrams = s.datagrams /\ t.rx_rsr <= s.rx_rsr
      /\ s.rx_rsr # 0
  <2>1. s.rx_rsr - n \in 0 .. BUF /\ s.rx_rsr - n <= s.rx_rsr /\ s.rx_rsr # 0
    BY <1>1, <1>2, Constants
  <2> QED BY <1>1, <2>1 DEF Sock
<1> HIDE DEF t
<1>5. Socket(t)
  BY <1>1, <1>4 DEF Socket, Fresh
<1> QED BY <1>3, <1>4, <1>5, QuietStep

LEMMA PortStep == ASSUME IInv, NEW i \in 1 .. N, write_port(i) PROVE IInv'
<1> DEFINE s == socket[i]
<1>1. Socket(s) /\ Opened(s, kernel) /\ s \in Sock /\ s.rx_rsr \in Int
  BY SocketFacts, Constants DEF IInv, Sock
<1>2. PICK b \in Bound(s) : /\ socket' = [socket EXCEPT ![i] = b]
                            /\ Wake \/ UNCHANGED selfpipe
  BY DEF write_port
<1>3. /\ Socket(b) /\ b.fd = s.fd /\ b.ok_for_io = s.ok_for_io /\ b.rx_rsr = s.rx_rsr
      /\ b.state \in {s.state, "closed"}
  BY <1>1, BoundIs
<1>4. s.state # "listen" /\ UNCHANGED <<stop_io_thread, io, kernel>> /\ b.rx_rsr <= s.rx_rsr
  BY <1>1, <1>3 DEF write_port
<1> QED BY <1>2, <1>3, <1>4, QuietStep

LEMMA FreeStep == ASSUME IInv, Free PROVE IInv'
<1>1. /\ ~stop_io_thread /\ stop_io_thread' = TRUE /\ selfpipe' = selfpipe + 1
      /\ UNCHANGED <<socket, io, kernel>>
  BY DEF Free, free
<1>2. Pipe'
  BY <1>1, Constants DEF IInv, Pipe
<1>3. ASSUME NEW i \in 1 .. N PROVE Chosen(i)'
  BY <1>1 DEF IInv, Chosen, Looked
<1> QED BY <1>1, <1>2, <1>3 DEF IInv, IoTyped

LEMMA EndStep == ASSUME IInv, End PROVE IInv'
<1> DEFINE t(i) == clean([socket[i] EXCEPT !.state = "closed"])
<1>1. /\ io.pc = "ended" /\ UNCHANGED <<stop_io_thread, io, selfpipe>>
      /\ socket' = [i \in 1 .. N |-> t(i)]
      /\ kernel' = [fd \in Fds |-> IF \E i \in 1 .. N : socket[i].fd = fd
                                   THEN File("free") ELSE kernel[fd]]
  BY DEF End
<1>2. ASSUME NEW i \in 1 .. N
      PROVE  Socket(t(i)) /\ t(i).fd = Invalid /\ t(i).state = "closed"
  <2> DEFINE c == [socket[i] EXCEPT !.state = "closed"]
  <2>1. Socket(socket[i]) /\ socket[i] \in Sock
    BY SocketFacts DEF IInv
  <2>2. Socket(c) /\ c.state = "closed"
    BY <2>1 DEF Socket, Sock, States, Fresh
  <2> HIDE DEF c
  <2>3. Socket(clean(c)) /\ clean(c).fd = Invalid /\ clean(c).state = "closed"
    BY <2>2, CleanIs
  <2> QED BY <2>3 DEF c
<1> HIDE DEF t
<1>3. \A i \in 1 .. N : Socket(socket'[i]) /\ socket'[i].fd = Invalid /\ Opened(socket'[i], kernel')
  BY <1>1, <1>2 DEF Opened
<1>4. Table(kernel') /\ \A fd \in Fds : kernel'[fd].kind = "free"
  <2>1. Table(kernel) /\ Owned(socket, kernel)
    BY DEF IInv, Tables
  <2> QED BY <1>1, <2>1, FileIs DEF Table, Owned, Kinds
<1>5. Owned(socket', kernel')
  BY <1>3, <1>4, FdsFacts DEF Owned
<1>6. DOMAIN socket' = 1 .. N /\ socket' = [i \in 1 .. N |-> socket'[i]]
  BY <1>1
<1>7. ASSUME NEW i \in 1 .. N PROVE Chosen(i)'
  BY <1>1 DEF Chosen, Looked
<1> QED BY <1>1, <1>3, <1>4, <1>5, <1>6, <1>7 DEF IInv, Tables, IoTyped, Pipe

LEMMA ArriveStep == ASSUME IInv, NEW fd \in Fds, Arrive(fd) \/ PeerCloses(fd) PROVE IInv'
<1>1. /\ UNCHANGED <<socket, stop_io_thread, io, selfpipe>>
      /\ Tables(socket, kernel) /\ Table(kernel) /\ Owned(socket, kernel)
  BY DEF Arrive, PeerCloses, IInv, Tables
<1>2. /\ Table(kernel')
      /\ \A other \in Fds : kernel'[other].kind = kernel[other].kind
  <2>1. CASE Arrive(fd)
    <3>1. /\ kernel' = [kernel EXCEPT ![fd].input = @ + 1] /\ kernel[fd].input < MaxInput
          /\ kernel[fd].input \in 0 .. MaxInput /\ kernel[fd] \in Descriptor
      BY <1>1, <2>1 DEF Arrive, Table, Descriptor
    <3>2. kernel[fd].input + 1 \in 0 .. MaxInput
      BY <3>1, Constants
    <3> QED BY <1>1, <3>1, <3>2 DEF Table, Descriptor
  <2>2. CASE PeerCloses(fd)
    <3>1. kernel' = [kernel EXCEPT ![fd].eof = TRUE] /\ kernel[fd].kind = "connected"
      BY <2>2 DEF PeerCloses
    <3> QED BY <1>1, <3>1 DEF Table, Descriptor
  <2> QED BY <2>1, <2>2
<1>3. ASSUME NEW i \in 1 .. N PROVE Opened(socket[i], kernel')
  <2>1. Opened(socket[i], kernel) /\ socket[i].fd \in Fds \union {Invalid}
    BY <1>1, SocketFacts
  <2> QED BY <1>2, <2>1 DEF Opened, Is
<1>4. Owned(socket, kernel')
  BY <1>1, <1>2 DEF Owned
<1>5. Tables(socket', kernel')
  BY <1>1, <1>2, <1>3, <1>4 DEF Tables
<1>6. ASSUME NEW i \in 1 .. N PROVE Chosen(i)'
  BY <1>1 DEF IInv, Chosen, Looked
<1> QED BY <1>1, <1>5, <1>6 DEF IInv, IoTyped, Pipe

-----------------------------------------------------------------------------
(* The I/O thread.                                                         *)

LEMMA LoopStep == ASSUME IInv, IoLoop \/ SelectStarts PROVE IInv'
<1>1. UNCHANGED <<socket, stop_io_thread, selfpipe, kernel>>
  BY DEF IoLoop, SelectStarts
<1>2. IoTyped'
  <2>1. 1 \in 1 .. N
    BY Constants
  <2> QED BY <2>1 DEF IInv, IoTyped, IoLoop, SelectStarts
<1>3. ASSUME NEW i \in 1 .. N PROVE Chosen(i)'
  <2>1. CASE IoLoop
    BY <1>1, <2>1 DEF IoLoop, Chosen, Looked
  <2>2. CASE SelectStarts
    <3>1. /\ io.pc = "select" /\ io'.pc \in {"loop", "wait"} /\ io'.readfds = io.readfds
      BY <2>2 DEF SelectStarts, IInv, IoTyped
    <3> QED BY <1>1, <3>1 DEF Chosen, Looked, IInv
  <2> QED BY <2>1, <2>2
<1> QED BY <1>1, <1>2, <1>3 DEF IInv, Pipe

LEMMA ReturnsStep == ASSUME IInv, SelectReturns PROVE IInv'
<1>1. /\ UNCHANGED <<socket, stop_io_thread, kernel>> /\ io.pc = "wait" /\ io'.pc = "process"
      /\ io'.readfds \subseteq io.readfds /\ io'.at = io.at
  BY DEF SelectReturns, IInv, IoTyped
<1>2. IoTyped'
  BY DEF IInv, IoTyped, SelectReturns
<1>3. Pipe'
  BY <1>1, Constants DEF IInv, Pipe, SelectReturns
<1>4. ASSUME NEW i \in 1 .. N PROVE Chosen(i)'
  BY <1>1 DEF IInv, Chosen, Looked
<1> QED BY <1>1, <1>2, <1>3, <1>4 DEF IInv

LEMMA AddStep == ASSUME IInv, add_to_sets PROVE IInv'
<1> DEFINE s == socket[io.at]
           a == io.at
<1>1. /\ io.pc = "add" /\ a \in 1 .. N /\ a \in Nat /\ N \in Nat
      /\ UNCHANGED <<stop_io_thread, selfpipe, kernel>>
  BY Constants DEF add_to_sets, IInv, IoTyped
<1>2. /\ Socket(s) /\ Opened(s, kernel) /\ Table(kernel) /\ s \in Sock
      /\ s.fd \in Fds \union {Invalid}
      /\ s.fd # Invalid => s.fd \in Fds /\ kernel[s.fd].kind # "free"
      /\ DOMAIN socket = 1 .. N
  BY <1>1, SocketFacts DEF IInv, Tables
<1>3. /\ Onwards("add", "select").pc = IF a = N THEN "select" ELSE "add"
      /\ Onwards("add", "select").at = IF a = N THEN 1 ELSE a + 1
      /\ Onwards("add", "select").readfds = io.readfds
      /\ Onwards("add", "select").writefds = io.writefds
      /\ DOMAIN Onwards("add", "select") = {"pc", "at", "readfds", "writefds"}
      /\ Onwards("add", "select") \in
           [pc : {"add", "select"}, at : 1 .. N, readfds : SUBSET Fds, writefds : SUBSET Fds]
  <2>1. a # N => a + 1 \in 1 .. N
    BY <1>1
  <2>2. 1 \in 1 .. N
    BY Constants
  <2> QED BY <1>1, <2>1, <2>2 DEF Onwards, IInv, IoTyped
\* Whoever has been looked at after the step was so before, or is this socket.
<1>4. ASSUME io'.pc = Onwards("add", "select").pc, io'.at = Onwards("add", "select").at,
             NEW i \in 1 .. N
      PROVE  /\ Looked(i)' => i < a \/ i = a
             /\ io'.pc = "add" /\ i >= io'.at => i > a
  <2>1. CASE a = N
    BY <1>1, <1>3, <1>4, <2>1 DEF Looked
  <2>2. CASE a # N
    BY <1>1, <1>3, <1>4, <2>2 DEF Looked
  <2> QED BY <2>1, <2>2
<1>5. CASE s.fd = Invalid /\ io' = Onwards("add", "select") /\ UNCHANGED socket
  <2>1. IoTyped'
    BY <1>3, <1>5 DEF IoTyped
  <2>2. ASSUME NEW i \in 1 .. N PROVE Chosen(i)'
    <3>1. io'.readfds = io.readfds /\ socket'[i] = socket[i]
      BY <1>3, <1>5
    <3>2. io.readfds \subseteq Fds /\ Invalid \notin Fds
      BY FdsFacts DEF IInv, IoTyped
    <3>3. i < a => Looked(i)
      BY <1>1 DEF Looked
    <3>4. i > a => i >= a
      BY <1>1
    <3> QED BY <1>1, <1>4, <1>5, <3>1, <3>2, <3>3, <3>4 DEF IInv, Chosen
  <2> QED BY <1>1, <1>5, <2>1, <2>2 DEF IInv, Pipe
<1>6. CASE /\ s.fd # Invalid
           /\ socket' = [socket EXCEPT ![io.at].ok_for_io = TRUE]
           /\ io' = [Onwards("add", "select") EXCEPT
                  !.readfds = IF udp_read(s) \/ tcp_read(s) \/ tcp_listen(s)
                              THEN @ \union {s.fd} ELSE @,
                  !.writefds = IF s.write_pending THEN @ \union {s.fd} ELSE @]
  <2> DEFINE t == [s EXCEPT !.ok_for_io = TRUE]
  <2>1. /\ t \in Sock /\ t.fd = s.fd /\ t.ok_for_io /\ t.rx_rsr = s.rx_rsr /\ t.state = s.state
        /\ t.datagrams = s.datagrams
    BY <1>2 DEF Sock
  <2>2. socket' = [socket EXCEPT ![a] = t] /\ socket'[a] = t
        /\ \A i \in 1 .. N : i # a => socket'[i] = socket[i]
    BY <1>1, <1>2, <1>6
  <2> HIDE DEF t
  <2>3. Socket(t) /\ Opened(t, kernel)
    BY <1>2, <1>6, <2>1 DEF Socket, Fresh, Opened, Is
  <2>4. Replaces(s, t, kernel, kernel)
    BY <1>2, <2>1, <2>3, SameFd
  <2>5. Tables(socket', kernel')
    BY <1>1, <2>2, <2>4, ReplaceKeeps DEF IInv
  <2>6. /\ io'.pc = Onwards("add", "select").pc /\ io'.at = Onwards("add", "select").at
        /\ io'.readfds = IF udp_read(s) \/ tcp_read(s) \/ tcp_listen(s)
                         THEN io.readfds \union {s.fd} ELSE io.readfds
    BY <1>3, <1>6
  <2>7. IoTyped'
    BY <1>2, <1>3, <1>6 DEF IoTyped
  <2>8. ASSUME NEW i \in 1 .. N, i # a PROVE Chosen(i)'
    <3>1. socket[i].fd # s.fd \/ socket[i].fd = Invalid
      BY <1>1, <2>8 DEF IInv, Tables, Owned
    <3>2. socket[i].fd \in io'.readfds => socket[i].fd \in io.readfds
      BY <1>6, <2>6, <3>1
    <3>3. i < a => Looked(i)
      BY <1>1 DEF Looked
    <3>4. i > a => i >= a
      BY <1>1
    <3>5. socket'[i] = socket[i]
      BY <2>2, <2>8
    <3> QED BY <1>1, <1>4, <2>6, <2>8, <3>2, <3>3, <3>4, <3>5 DEF IInv, Chosen
  <2>9. ASSUME NEW i \in 1 .. N, i = a PROVE Chosen(i)'
    <3>1. ~(io'.pc = "add" /\ a >= io'.at)
      BY <1>1, <1>4, <2>6
    <3>2. ASSUME s.fd \in io'.readfds PROVE HasRoom(t)
      <4>1. Room(t) = Room(s) /\ s.rx_rsr \in 0 .. BUF /\ BUF \in Nat
        BY <1>2, <2>1, Constants DEF Room, Sock
      <4>2. CASE udp_read(s) \/ tcp_read(s) \/ tcp_listen(s)
        BY <2>1, <4>1, <4>2 DEF HasRoom, udp_read, tcp_read, tcp_listen, Room
      <4>3. CASE s.fd \in io.readfds
        <5>1. Chosen(a) /\ a >= io.at
          BY <1>1 DEF IInv
        <5>2. ~s.ok_for_io
          BY <1>1, <4>3, <5>1 DEF Chosen
        <5>3. s.rx_rsr = 0
          BY <1>2, <1>6, <5>2 DEF Socket, Fresh
        <5>4. Room(t) = BUF
          BY <4>1, <5>3 DEF Room
        <5> QED BY <2>1, <5>4, Constants DEF HasRoom
      <4> QED BY <2>6, <3>2, <4>2, <4>3
    <3>3. socket'[i] = t
      BY <2>2, <2>9
    <3> QED BY <2>1, <2>9, <3>1, <3>2, <3>3 DEF Chosen
  <2> QED BY <1>1, <2>5, <2>7, <2>8, <2>9 DEF IInv, Pipe
<1> QED BY <1>5, <1>6 DEF add_to_sets

\* Sending moves a socket's transmit pointer and its queue.
LEMMA WritingKeeps ==
  ASSUME NEW s, Socket(s), NEW t \in Writing(s)
  PROVE  /\ Socket(t) /\ t.fd = s.fd /\ t.ok_for_io = s.ok_for_io /\ t.rx_rsr = s.rx_rsr
         /\ t.state = s.state
<1>1. s \in Sock /\ s.tx_rr \in Int /\ s.tx_wr \in Int
  BY Constants DEF Socket, Sock
<1>2. t = s \/ t \in process_udp_write(s) \/ t \in process_tcp_write(s)
  BY DEF Writing
<1>3. CASE t \in process_udp_write(s) /\ t # s
  <2> DEFINE q == IF s.datagrams = << >> THEN s.datagrams ELSE Tail(s.datagrams)
  <2>1. PICK length \in (IF s.datagrams = << >> THEN 0 .. (W - 1) ELSE {Head(s.datagrams)}) :
          t = [s EXCEPT !.tx_rr = Advanced(@, length),
                        !.datagrams = IF @ = << >> THEN @ ELSE Tail(@),
                        !.write_pending = Len(s.datagrams) # 1]
    BY <1>3 DEF process_udp_write
  <2>2. s.datagrams \in Seq(0 .. W - 1) /\ Len(s.datagrams) <= Slots
    BY <1>1 DEF Socket, Sock
  <2>3. /\ q \in Seq(0 .. W - 1) /\ Len(q) <= Slots
        /\ s.datagrams # << >> => Head(s.datagrams) \in 0 .. W - 1
    <3>1. CASE s.datagrams = << >>
      BY <2>2, <3>1
    <3>2. CASE s.datagrams # << >>
      <4>1. /\ Head(s.datagrams) \in 0 .. W - 1 /\ Tail(s.datagrams) \in Seq(0 .. W - 1)
            /\ Len(Tail(s.datagrams)) = Len(s.datagrams) - 1
        BY <2>2, <3>2, HeadTailProperties
      <4>2. Len(s.datagrams) \in Nat
        BY <2>2, LenProperties
      <4> QED BY <2>2, <3>2, <4>1, <4>2, Constants
    <3> QED BY <3>1, <3>2
  <2> HIDE DEF q
  <2>4. length \in Int
    BY <2>1, <2>3, Constants
  <2>5. Advanced(s.tx_rr, length) \in 0 .. W - 1
    BY <1>1, <2>4, AdvancedRange
  <2>6. PICK b \in BOOLEAN : b = (Len(s.datagrams) # 1)
    OBVIOUS
  <2>7. t = [s EXCEPT !.tx_rr = Advanced(s.tx_rr, length), !.datagrams = q, !.write_pending = b]
    BY <2>1, <2>6 DEF q
  <2>8. /\ t \in Sock /\ t.datagrams = q /\ t.fd = s.fd /\ t.ok_for_io = s.ok_for_io
        /\ t.rx_rsr = s.rx_rsr /\ t.state = s.state
    BY <1>1, <2>3, <2>5, <2>7 DEF Sock
  <2> QED BY <2>3, <2>8 DEF Socket, Fresh
<1>4. CASE t \in process_tcp_write(s) /\ t # s
  <2> DEFINE all == (s.tx_wr - s.tx_rr) % W
             to_end == BUF - (s.tx_rr % BUF)
             length == IF all < to_end THEN all ELSE to_end
  <2>1. PICK n \in (IF length = 0 THEN {0} ELSE 1 .. length) :
          t = [s EXCEPT !.tx_rr = Advanced(@, n),
                        !.write_pending = Advanced(s.tx_rr, n) # s.tx_wr]
    BY <1>4 DEF process_tcp_write
  <2>2. n \in Int
    BY <2>1
  <2>3. Advanced(s.tx_rr, n) \in 0 .. W - 1
    BY <1>1, <2>2, AdvancedRange
  <2>4. PICK b \in BOOLEAN : b = (Advanced(s.tx_rr, n) # s.tx_wr)
    OBVIOUS
  <2>5. t = [s EXCEPT !.tx_rr = Advanced(s.tx_rr, n), !.write_pending = b]
    BY <2>1, <2>4
  <2>6. /\ t \in Sock /\ t.datagrams = s.datagrams /\ t.fd = s.fd /\ t.ok_for_io = s.ok_for_io
        /\ t.rx_rsr = s.rx_rsr /\ t.state = s.state
    BY <1>1, <2>3, <2>5 DEF Sock
  <2> QED BY <2>6 DEF Socket, Fresh
<1> QED BY <1>2, <1>3, <1>4

LEMMA AcceptKeeps ==
  ASSUME IInv, NEW i \in 1 .. N, socket[i].state = "listen", socket[i].ok_for_io,
         NEW r \in process_accept(socket[i])
  PROVE  Replaces(socket[i], r.s, kernel, r.k)
<1> DEFINE s == socket[i]
           fd == LowestFree(kernel)
           k == [kernel EXCEPT ![fd] = File("connected")]
<1>0. CASE r = NothingRead(s)
  <2>1. r.s = s /\ r.k = kernel
    BY <1>0 DEF NothingRead
  <2>2. /\ Socket(s) /\ Opened(s, kernel) /\ Table(kernel)
        /\ s.fd # Invalid => kernel[s.fd].kind # "free"
    BY SocketFacts DEF IInv
  <2> QED BY <2>1, <2>2, SameFd
<1> SUFFICES ASSUME r # NothingRead(s)  PROVE Replaces(s, r.s, kernel, r.k)
  BY <1>0
<1>1. /\ Socket(s) /\ s \in Sock /\ Table(kernel) /\ Opened(s, kernel)
      /\ s.fd # Invalid /\ s.fd \in Fds /\ kernel[s.fd].kind = "listening"
  BY SocketFacts DEF IInv, Opened, Is
<1>2. fd \in Fds /\ kernel[fd].kind = "free" /\ fd # Invalid
  <2>1. \E other \in Fds : kernel[other].kind = "free"
    BY OneFree DEF IInv
  <2> QED BY <2>1, LowestIsFree, FdsFacts
<1>3. /\ r.s = [s EXCEPT !.fd = fd, !.state = "established"]
      /\ r.k = Closed(k, s.fd)
  BY DEF process_accept
<1> HIDE DEF fd
<1>4. /\ r.s \in Sock /\ r.s.fd = fd /\ r.s.state = "established" /\ r.s.ok_for_io
      /\ r.s.datagrams = s.datagrams
  BY <1>1, <1>2, <1>3 DEF Sock, States
<1>5. Socket(r.s)
  BY <1>1, <1>2, <1>4 DEF Socket, Fresh
<1>6. /\ Table(k) /\ k[fd].kind = "connected"
      /\ \A other \in Fds : other # fd => k[other] = kernel[other]
  BY <1>1, <1>2, FileIs DEF Table, Kinds
<1> HIDE DEF k
<1>7. /\ Table(r.k)
      /\ r.k[s.fd].kind = "free"
      /\ \A other \in Fds : other # s.fd => r.k[other] = k[other]
  BY <1>1, <1>3, <1>6, ClosedIs
<1>8. fd # s.fd
  BY <1>1, <1>2
<1>9. r.k[fd].kind = "connected"
  BY <1>2, <1>6, <1>7, <1>8
<1>10. Opened(r.s, r.k)
  BY <1>2, <1>4, <1>9 DEF Opened, Is
<1> QED BY <1>1, <1>2, <1>4, <1>5, <1>6, <1>7, <1>8, <1>9, <1>10 DEF Replaces

LEMMA ReadKeeps ==
  ASSUME IInv, NEW i \in 1 .. N, socket[i].ok_for_io, socket[i].state # "listen",
         socket[i].fd # Invalid, Readable(socket[i].fd), NEW r \in process_read(socket[i])
  PROVE  Replaces(socket[i], r.s, kernel, r.k)
<1> DEFINE s == socket[i]
           f == kernel[s.fd]
           n == IF f.input < Room(s) THEN f.input ELSE Room(s)
<1>0. CASE r = NothingRead(s)
  <2>1. r.s = s /\ r.k = kernel
    BY <1>0 DEF NothingRead
  <2>2. /\ Socket(s) /\ Opened(s, kernel) /\ Table(kernel)
        /\ s.fd # Invalid => kernel[s.fd].kind # "free"
    BY SocketFacts DEF IInv
  <2> QED BY <2>1, <2>2, SameFd
<1> SUFFICES ASSUME r # NothingRead(s)  PROVE Replaces(s, r.s, kernel, r.k)
  BY <1>0
<1>1. /\ Socket(s) /\ s \in Sock /\ Table(kernel) /\ Opened(s, kernel) /\ s.fd \in Fds
      /\ f.kind # "free" /\ f \in Descriptor /\ f.input \in 0 .. MaxInput
      /\ s.rx_rsr \in 0 .. BUF /\ BUF \in Nat /\ HEADER \in Nat /\ MaxInput \in Nat
  <2>1. /\ Socket(s) /\ s \in Sock /\ Table(kernel) /\ Opened(s, kernel) /\ s.fd \in Fds
        /\ f.kind # "free"
    BY SocketFacts DEF IInv
  <2>2. f \in Descriptor /\ f.input \in 0 .. MaxInput /\ s.rx_rsr \in 0 .. BUF
    BY <2>1 DEF Table, Descriptor, Sock
  <2> QED BY <2>1, <2>2, Constants
\* It is the same descriptor, with some of its input taken.
<1>2. ASSUME NEW t, NEW k, t \in Sock, t.fd = s.fd, t.ok_for_io = s.ok_for_io,
             t.datagrams = s.datagrams, Opened(t, k), Table(k),
             \A fd \in Fds : fd # s.fd => k[fd] = kernel[fd],
             k[s.fd].kind # "free"
      PROVE  Replaces(s, t, kernel, k)
  BY <1>1, <1>2 DEF Replaces, Socket, Fresh
<1>3. ASSUME NEW taken \in 1 .. f.input, NEW rsr \in 0 .. BUF,
             r.s = [s EXCEPT !.rx_rsr = rsr],
             r.k = [kernel EXCEPT ![s.fd].input = @ - taken]
      PROVE  Replaces(s, r.s, kernel, r.k)
  <2>1. /\ r.s \in Sock /\ r.s.fd = s.fd /\ r.s.ok_for_io = s.ok_for_io
        /\ r.s.datagrams = s.datagrams /\ r.s.state = s.state
    BY <1>1, <1>3 DEF Sock
  <2>2. f.input - taken \in 0 .. MaxInput
    BY <1>1, <1>3
  <2>3. /\ Table(r.k) /\ r.k[s.fd].kind = f.kind
        /\ \A fd \in Fds : fd # s.fd => r.k[fd] = kernel[fd]
    BY <1>1, <1>3, <2>2 DEF Table, Descriptor
  <2>4. Opened(r.s, r.k)
    BY <1>1, <2>1, <2>3 DEF Opened, Is
  <2> QED BY <1>1, <1>2, <2>1, <2>3, <2>4
<1>4. CASE f.kind = "udp"
  <2>1. PICK size \in 0 .. (Room(s) - HEADER) :
          r = [s |-> [s EXCEPT !.rx_rsr = @ + HEADER + size],
               k |-> [kernel EXCEPT ![s.fd].input = @ - 1]]
    BY <1>4 DEF process_read
  <2>2. s.rx_rsr + HEADER + size \in 0 .. BUF
    BY <1>1 DEF Room
  <2>3. 1 \in 1 .. f.input
    BY <1>1, <1>4 DEF Readable, Table
  <2>4. r.s = [s EXCEPT !.rx_rsr = s.rx_rsr + HEADER + size]
    BY <2>1
  <2>5. r.k = [kernel EXCEPT ![s.fd].input = @ - 1]
    BY <2>1
  <2> QED BY <1>3, <2>2, <2>3, <2>4, <2>5
<1>5. CASE f.kind = "connected" /\ n > 0
  <2>1. r = [s |-> [s EXCEPT !.rx_rsr = @ + n],
             k |-> [kernel EXCEPT ![s.fd].input = @ - n]]
    BY <1>5 DEF process_read
  <2>2. s.rx_rsr + n \in 0 .. BUF /\ n \in 1 .. f.input
    BY <1>1, <1>5 DEF Room
  <2> HIDE DEF n
  <2>3. r.s = [s EXCEPT !.rx_rsr = s.rx_rsr + n]
    BY <2>1
  <2>4. r.k = [kernel EXCEPT ![s.fd].input = @ - n]
    BY <2>1
  <2> QED BY <1>3, <2>2, <2>3, <2>4
<1>6. CASE f.kind = "connected" /\ n = 0
  <2>1. r.s = [s EXCEPT !.state = "close_wait"] /\ r.k = kernel
    BY <1>6 DEF process_read
  <2>2. /\ r.s \in Sock /\ r.s.fd = s.fd /\ r.s.ok_for_io = s.ok_for_io
        /\ r.s.datagrams = s.datagrams /\ r.s.state = "close_wait"
    BY <1>1, <2>1 DEF Sock, States
  <2>3. Opened(r.s, r.k)
    BY <1>6, <2>1, <2>2 DEF Opened, Is
  <2> QED BY <1>1, <1>2, <2>1, <2>2, <2>3
<1>7. CASE f.kind # "udp" /\ ~(f.kind = "connected" /\ n > 0) /\ ~(f.kind = "connected" /\ n = 0)
  BY <1>7 DEF process_read
<1> QED BY <1>4, <1>5, <1>6, <1>7

LEMMA ProcessStep == ASSUME IInv, process_io PROVE IInv'
<1> DEFINE a == io.at
           s == socket[a]
<1>1. /\ io.pc \in {"process", "blocked"} /\ a \in 1 .. N /\ a \in Nat /\ N \in Nat
      /\ UNCHANGED <<stop_io_thread, selfpipe>>
  BY Constants DEF process_io, IInv, IoTyped
<1>2. /\ Socket(s) /\ Opened(s, kernel) /\ Table(kernel) /\ DOMAIN socket = 1 .. N
      /\ s.fd # Invalid => kernel[s.fd].kind # "free"
  BY <1>1, SocketFacts DEF IInv, Tables
<1>3. CASE Blocks(s) /\ io' = [io EXCEPT !.pc = "blocked"] /\ UNCHANGED <<socket, kernel>>
  <2>1. IoTyped' /\ io'.pc = "blocked" /\ io'.at = io.at /\ io'.readfds = io.readfds
    BY <1>3 DEF IInv, IoTyped
  <2>2. ASSUME NEW i \in 1 .. N PROVE Chosen(i)'
    BY <1>1, <1>3, <2>1 DEF IInv, Chosen, Looked
  <2> QED BY <1>1, <1>3, <2>1, <2>2 DEF IInv, Pipe
<1>4. CASE /\ ~Blocks(s)
           /\ \E r \in IF ~Reads(s) THEN {NothingRead(s)}
                      ELSE IF s.state = "listen" THEN process_accept(s)
                      ELSE process_read(s) :
                /\ kernel' = r.k
                /\ \E t \in (IF MayProcess(s) THEN Writing(r.s) ELSE {s}) :
                     socket' = [socket EXCEPT ![io.at] = t]
           /\ io' = Onwards("process", "loop")
  <2>1. PICK r \in IF ~Reads(s) THEN {NothingRead(s)}
                   ELSE IF s.state = "listen" THEN process_accept(s)
                   ELSE process_read(s) :
               /\ kernel' = r.k
               /\ \E t \in (IF MayProcess(s) THEN Writing(r.s) ELSE {s}) :
                    socket' = [socket EXCEPT ![a] = t]
    BY <1>4
  <2>2. PICK t \in (IF MayProcess(s) THEN Writing(r.s) ELSE {s}) :
               socket' = [socket EXCEPT ![a] = t]
    BY <2>1
  <2>3. Replaces(s, r.s, kernel, r.k) /\ (~MayProcess(s) => r.s = s)
    <3>1. CASE ~Reads(s)
      <4>1. r.s = s /\ r.k = kernel
        BY <2>1, <3>1 DEF NothingRead
      <4> QED BY <1>2, <4>1, SameFd
    <3>2. CASE Reads(s) /\ s.state = "listen"
      <4>1. r \in process_accept(s) /\ s.ok_for_io /\ MayProcess(s)
        BY <2>1, <3>2 DEF Reads, MayProcess
      <4> QED BY <1>1, <3>2, <4>1, AcceptKeeps
    <3>3. CASE Reads(s) /\ s.state # "listen"
      <4>1. /\ r \in process_read(s) /\ s.ok_for_io /\ s.fd # Invalid /\ MayProcess(s)
            /\ Readable(s.fd)
        BY <1>4, <2>1, <3>3 DEF Reads, MayProcess, Blocks
      <4> QED BY <1>1, <3>3, <4>1, ReadKeeps
    <3> QED BY <3>1, <3>2, <3>3
  <2>4. Socket(r.s) /\ Opened(r.s, r.k)
    BY <2>3 DEF Replaces
  <2>5. Socket(t) /\ t.fd = r.s.fd /\ t.state = r.s.state
    <3>1. CASE MayProcess(s)
      BY <2>2, <2>4, <3>1, WritingKeeps
    <3>2. CASE ~MayProcess(s)
      BY <1>2, <2>2, <2>3, <3>2
    <3> QED BY <3>1, <3>2
  <2>6. Opened(t, r.k)
    BY <2>4, <2>5 DEF Opened, Is
  <2>7. Replaces(s, t, kernel, r.k)
    BY <2>3, <2>5, <2>6 DEF Replaces
  <2>8. Tables(socket', kernel')
    BY <1>1, <2>1, <2>2, <2>7, ReplaceKeeps DEF IInv
  <2>9. /\ io'.pc = IF a = N THEN "loop" ELSE "process"
        /\ io'.at = IF a = N THEN 1 ELSE a + 1
        /\ io'.readfds = io.readfds
        /\ IoTyped'
    <3>1. a # N => a + 1 \in 1 .. N
      BY <1>1
    <3>2. 1 \in 1 .. N
      BY Constants
    <3> QED BY <1>1, <1>4, <3>1, <3>2 DEF Onwards, IInv, IoTyped
  <2>10. ASSUME NEW i \in 1 .. N PROVE Chosen(i)'
    <3>1. io'.pc # "add" /\ (Looked(i)' => i > a)
      BY <1>1, <2>9 DEF Looked
    <3>2. CASE i > a
      <4>1. Looked(i) /\ i # a
        BY <1>1, <3>2 DEF Looked
      <4>2. socket'[i] = socket[i]
        BY <1>2, <2>2, <4>1
      <4> QED BY <2>9, <3>1, <4>1, <4>2 DEF IInv, Chosen
    <3>3. CASE ~(i > a)
      BY <3>1, <3>3 DEF Chosen
    <3> QED BY <3>2, <3>3
  <2> QED BY <1>1, <2>8, <2>9, <2>10 DEF IInv, Pipe
<1> QED BY <1>3, <1>4 DEF process_io

-----------------------------------------------------------------------------
(* The specification.                                                      *)

LEMMA InvInit == Init => IInv
<1> SUFFICES ASSUME Init PROVE IInv
  OBVIOUS
<1>1. /\ 0 \in 0 .. W - 1 /\ 0 \in 0 .. BUF /\ 0 <= Slots /\ 1 \in 1 .. N
      /\ 0 <= MaxWakes /\ 0 <= MaxWakes + 1
  BY Constants
<1>2. << >> \in Seq(0 .. W - 1) /\ Len(<< >>) = 0
  BY EmptySeq
<1>3. \A i \in 1 .. N :
        /\ socket[i] \in Sock /\ socket[i].fd = Invalid /\ ~socket[i].ok_for_io
        /\ socket[i].state = "closed" /\ socket[i].datagrams = << >>
  BY <1>1, <1>2 DEF Init, Sock, States
<1>4. \A i \in 1 .. N : Socket(socket[i]) /\ Opened(socket[i], kernel)
  BY <1>1, <1>2, <1>3 DEF Socket, Fresh, Opened
<1>5. Table(kernel) /\ \A fd \in Fds : kernel[fd].kind = "free"
  BY FileIs DEF Init, Table, Kinds
<1>6. Owned(socket, kernel)
  BY <1>3, <1>5, FdsFacts DEF Owned
<1>7. Tables(socket, kernel)
  BY <1>4, <1>5, <1>6 DEF Tables, Init
<1>8. IoTyped /\ io.pc = "loop"
  BY <1>1 DEF Init, IoTyped
<1>9. ASSUME NEW i \in 1 .. N PROVE Chosen(i)
  BY <1>8 DEF Chosen, Looked
<1> QED BY <1>1, <1>7, <1>8, <1>9 DEF Init, IInv, Pipe

LEMMA InvNext == IInv /\ [Next]_vars => IInv'
<1> SUFFICES ASSUME IInv, [Next]_vars PROVE IInv'
  OBVIOUS
<1>1. ASSUME NEW i \in 1 .. N,
             \/ reset(i) \/ open(i) \/ listen(i) \/ connect(i) \/ discon(i)
             \/ close(i) \/ send(i) \/ recv(i) \/ write_port(i)
      PROVE  IInv'
  BY <1>1, ResetStep, OpenStep, ListenStep, ConnectStep, DisconStep, CloseStep, SendStep,
     RecvStep, PortStep
<1>2. CASE Free
  BY <1>2, FreeStep
<1>3. CASE End
  BY <1>3, EndStep
<1>4. CASE IoLoop \/ SelectStarts
  BY <1>4, LoopStep
<1>5. CASE add_to_sets
  BY <1>5, AddStep
<1>6. CASE SelectReturns
  BY <1>6, ReturnsStep
<1>7. CASE process_io
  BY <1>7, ProcessStep
<1>8. ASSUME NEW fd \in Fds, Arrive(fd) \/ PeerCloses(fd) PROVE IInv'
  BY <1>8, ArriveStep
<1>9. CASE UNCHANGED vars
  BY <1>9 DEF vars, IInv, IoTyped, Pipe, Chosen, Looked
<1> QED BY <1>1, <1>2, <1>3, <1>4, <1>5, <1>6, <1>7, <1>8, <1>9 DEF Next

LEMMA InvAlways == Spec => []IInv
BY InvInit, InvNext, PTL DEF Spec

\* Whatever the two threads and the network do, every field holds what the code
\* can put there, and pointers stay within the width of their registers.
THEOREM TypeCorrect == Spec => []TypeOK
<1>1. IInv => TypeOK
  <2> SUFFICES ASSUME IInv PROVE TypeOK
    OBVIOUS
  <2>1. ASSUME NEW i \in 1 .. N
        PROVE  LET s == socket[i]
               IN /\ s.state \in States /\ s.fd \in Fds \union {Invalid}
                  /\ {s.socket_bound, s.write_pending, s.ok_for_io} \subseteq BOOLEAN
                  /\ {s.tx_rr, s.tx_wr, s.last_send} \subseteq 0 .. (W - 1)
                  /\ s.rx_rsr \in 0 .. BUF
                  /\ s.datagrams \in Seq(0 .. (W - 1)) /\ Len(s.datagrams) <= Slots
    <3>1. socket[i] \in Sock /\ Len(socket[i].datagrams) <= Slots
      BY SocketFacts DEF IInv
    <3> QED BY <3>1 DEF Sock
  <2>2. /\ stop_io_thread \in BOOLEAN
        /\ io.pc \in {"loop", "add", "select", "wait", "process", "blocked", "ended"}
        /\ io.at \in 1 .. N /\ io.readfds \union io.writefds \subseteq Fds
    BY DEF IInv, Pipe, IoTyped
  <2>3. selfpipe \in 0 .. (MaxWakes + 1)
    BY Constants DEF IInv, Pipe
  <2>4. ASSUME NEW fd \in Fds
        PROVE  /\ kernel[fd].kind \in {"free", "udp", "stream", "listening", "connected"}
               /\ kernel[fd].input \in 0 .. MaxInput /\ kernel[fd].eof \in BOOLEAN
    BY DEF IInv, Tables, Table, Descriptor, Kinds
  <2> QED BY <2>1, <2>2, <2>3, <2>4 DEF TypeOK
<1> QED BY <1>1, InvAlways, PTL

\* A socket the I/O thread is about to read has the room it had when the thread
\* put it in the set, although it may have been closed, opened and given the same
\* descriptor again while select() waited.
THEOREM RoomKept == Spec => []ReadHasRoom
<1>1. IInv => ReadHasRoom
  <2> SUFFICES ASSUME IInv, io.pc \in {"process", "blocked"}, Reads(socket[io.at])
               PROVE  HasRoom(socket[io.at])
    BY DEF ReadHasRoom, HasRoom
  <2>1. io.at \in 1 .. N /\ io.at >= io.at
    BY Constants DEF IInv, IoTyped
  <2>2. Looked(io.at)
    BY <2>1 DEF Looked
  <2> QED BY <2>1, <2>2 DEF IInv, Chosen, Reads, MayProcess
<1> QED BY <1>1, InvAlways, PTL

\* No failed bind, accepted connection, close or reopening leaks a descriptor of
\* the host or leaves two sockets with the same one.
THEOREM DescriptorsOwned == Spec => []OneOwner
<1>1. IInv => OneOwner
  BY DEF IInv, Tables, Owned, OneOwner
<1> QED BY <1>1, InvAlways, PTL

-----------------------------------------------------------------------------
(* What the program was told of sending, and which sets of select() are     *)
(* about which sockets.                                                    *)

\* Nothing waits on a socket that is not open, nor before it is connected.
Sends(s) ==
  /\ s.fd = Invalid => s.write_pending = FALSE
  /\ s.state \in {"init", "listen"} => /\ s.write_pending = FALSE
                                       /\ s.tx_rr = s.tx_wr
  /\ s.state = "udp" =>
       /\ s.write_pending <=> s.datagrams # << >>
       /\ Total(s.datagrams) % W = (s.last_send - s.tx_rr) % W
  /\ s.state = "established" => (s.write_pending <=> s.tx_rr # s.tx_wr)

\* A program that closes before SEND OK may find something waiting that it never
\* sent.
Kept(s) == ClosesWhileSending = FALSE => Sends(s)

Ready(k, fd) == k[fd].kind = "stream" \/ k[fd].input > 0 \/ k[fd].eof

\* The sets hold no descriptor of a socket still to be looked at.
Unlisted(i) ==
  io.pc = "add" /\ i >= io.at =>
    socket[i].fd \notin io.readfds /\ socket[i].fd \notin io.writefds

\* A socket in the set was put there for what it still waits for.
Aimed(i) ==
  Looked(i) /\ socket[i].ok_for_io =>
    /\ socket[i].fd \in io.readfds =>
         /\ socket[i].state # "init"
         /\ io.pc = "process" => Ready(kernel, socket[i].fd)
    /\ ClosesWhileSending = FALSE /\ socket[i].fd \in io.writefds => socket[i].write_pending

\* The loop over the sockets starts with no descriptor in the sets.
Empty == io.pc = "add" /\ io.at = 1 => io.readfds = {} /\ io.writefds = {}

SInv ==
  /\ io.pc # "blocked"
  /\ Empty
  /\ \A i \in 1 .. N : Kept(socket[i])
  /\ \A i \in 1 .. N : Unlisted(i)
  /\ \A i \in 1 .. N : Aimed(i)

-----------------------------------------------------------------------------
(* Remainders, and the total of a sequence.                                *)

\* Two numbers have the same remainder when the modulus goes into the difference.
Same(n, x, y) == \E q \in Int : x = n * q + y

LEMMA SameIs ==
  ASSUME NEW n \in Nat \ {0}, NEW x \in Int, NEW y \in Int
  PROVE  Same(n, x, y) <=> x % n = y % n
<1>1. /\ x \div n \in Int /\ x = n * (x \div n) + (x % n) /\ x % n \in 0 .. n - 1
      /\ y \div n \in Int /\ y = n * (y \div n) + (y % n) /\ y % n \in 0 .. n - 1
  OBVIOUS
<1>2. ASSUME x % n = y % n  PROVE Same(n, x, y)
  <2> DEFINE a == x \div n
             b == y \div n
             d == a - b
             na == n * a
             nb == n * b
  <2>1. n * d = na - nb /\ na \in Int /\ nb \in Int /\ d \in Int
    BY <1>1
  <2>2. x = na + (x % n) /\ y = nb + (x % n) /\ x % n \in Int
    BY <1>1, <1>2
  <2> HIDE DEF na, nb, d
  <2>3. x = n * d + y
    BY <2>1, <2>2
  <2> QED BY <2>1, <2>3 DEF Same
<1>3. ASSUME NEW q \in Int, x = n * q + y  PROVE x % n = y % n
  <2> DEFINE b == y \div n
             r == y % n
             c == q + b
  <2>1. /\ n * c = n * q + n * b /\ n * q \in Int /\ n * b \in Int /\ c \in Int
        /\ r \in 0 .. n - 1
    BY <1>1
  <2>2. x = n * c + r
    <3> HIDE DEF b, r, c
    <3> QED BY <1>1, <1>3, <2>1 DEF b, r
  <2> HIDE DEF c, r
  <2>3. (n * c + r) % n = r
    BY <2>1
  <2> QED BY <2>2, <2>3 DEF r
<1> QED BY <1>2, <1>3 DEF Same

\* What is added to two numbers with the same remainder, or taken from them.
LEMMA SameAdd ==
  ASSUME NEW n \in Nat \ {0}, NEW x \in Int, NEW y \in Int, NEW u \in Int, NEW v \in Int,
         Same(n, x, y), Same(n, u, v)
  PROVE  Same(n, x + u, y + v) /\ Same(n, x - u, y - v)
<1>1. PICK q \in Int : x = n * q + y
  BY DEF Same
<1>2. PICK p \in Int : u = n * p + v
  BY DEF Same
<1> DEFINE sum == q + p
           less == q - p
           nq == n * q
           np == n * p
<1>3. /\ n * sum = nq + np /\ n * less = nq - np
      /\ nq \in Int /\ np \in Int /\ sum \in Int /\ less \in Int
  <2>1. n * (q + p) = n * q + n * p
    OBVIOUS
  <2>2. n * (q - p) = n * q - n * p
    OBVIOUS
  <2>3. n * q \in Int /\ n * p \in Int
    OBVIOUS
  <2> QED BY <2>1, <2>2, <2>3
<1>4. x = nq + y /\ u = np + v
  BY <1>1, <1>2
<1> HIDE DEF sum, less, nq, np
<1>5. x + u = n * sum + (y + v) /\ x - u = n * less + (y - v)
  BY <1>3, <1>4
<1> QED BY <1>3, <1>5 DEF Same

LEMMA ModOfMod ==
  ASSUME NEW n \in Nat \ {0}, NEW x \in Int
  PROVE  x % n \in 0 .. n - 1 /\ (x % n) % n = x % n
OBVIOUS

LEMMA ModOfSmall ==
  ASSUME NEW n \in Nat \ {0}, NEW x \in 0 .. n - 1  PROVE x % n = x
OBVIOUS

LEMMA Induction ==
  ASSUME NEW n \in Nat, NEW S, 0 \in S,
         \A k \in 1 .. n : k - 1 \in S => k \in S
  PROVE  \A k \in 0 .. n : k \in S
<1> SUFFICES ASSUME (0 .. n) \ S # {}  PROVE FALSE
  OBVIOUS
<1> DEFINE Left == (0 .. n) \ S
<1>1. Left \subseteq Nat /\ Left # {}
  OBVIOUS
<1>2. PICK k \in Left : \A m \in Left : k <= m
  <2> HIDE DEF Left
  <2> QED BY <1>1, LeastElement
<1>3. k \in 1 .. n /\ k - 1 \notin Left
  BY <1>2
<1> QED BY <1>2, <1>3

\* The sums of the first of a sequence's lengths.
Sums(s, f) ==
  /\ f \in [0 .. Len(s) -> Nat]
  /\ f[0] = 0
  /\ \A k \in 1 .. Len(s) : f[k] = f[k - 1] + s[k]

SumsUpTo(s, m, f) ==
  /\ f \in [0 .. m -> Nat]
  /\ f[0] = 0
  /\ \A k \in 1 .. m : f[k] = f[k - 1] + s[k]

LEMMA TotalIs ==
  ASSUME NEW s \in Seq(Nat)
  PROVE  \E f : Sums(s, f) /\ Total(s) = f[Len(s)]
<1> DEFINE n == Len(s)
           Unfolds(f) == f = [k \in 0 .. n |-> IF k = 0 THEN 0 ELSE f[k - 1] + s[k]]
<1>1. n \in Nat /\ \A k \in 1 .. n : s[k] \in Nat
  BY LenProperties, ElementOfSeq
<1> HIDE DEF n
<1>2. \E f : SumsUpTo(s, n, f)
  <2> DEFINE S == {m \in 0 .. n : \E f : SumsUpTo(s, m, f)}
  <2>1. 0 \in S
    <3>1. SumsUpTo(s, 0, [k \in 0 .. 0 |-> 0])
      BY DEF SumsUpTo
    <3> QED BY <1>1, <3>1
  <2>2. ASSUME NEW m \in 1 .. n, m - 1 \in S  PROVE m \in S
    <3>1. PICK f : SumsUpTo(s, m - 1, f)
      BY <2>2
    <3> DEFINE g == [k \in 0 .. m |-> IF k = m THEN f[m - 1] + s[m] ELSE f[k]]
    <3>2. f[m - 1] + s[m] \in Nat
      BY <1>1, <3>1 DEF SumsUpTo
    <3>3. g \in [0 .. m -> Nat] /\ g[0] = 0
      BY <1>1, <3>1, <3>2 DEF SumsUpTo
    <3>4. \A k \in 1 .. m : g[k] = g[k - 1] + s[k]
      BY <1>1, <3>1 DEF SumsUpTo
    <3>5. SumsUpTo(s, m, g) /\ m \in 0 .. n
      <4> HIDE DEF g
      <4> QED BY <1>1, <3>3, <3>4 DEF SumsUpTo
    <3> HIDE DEF g
    <3> QED BY <3>5
  <2>3. \A m \in 0 .. n : m \in S
    <3> HIDE DEF S
    <3> QED BY <1>1, <2>1, <2>2, Induction
  <2>4. n \in 0 .. n
    BY <1>1
  <2> QED BY <2>3, <2>4
<1>3. PICK f : SumsUpTo(s, n, f)
  BY <1>2
<1>4. Unfolds(f)
  BY <1>1, <1>3 DEF SumsUpTo
<1> DEFINE g == CHOOSE upto : Unfolds(upto)
<1>5. Unfolds(g)
  <2> HIDE DEF Unfolds
  <2> QED BY <1>4
<1>6. Total(s) = g[n]
  BY DEF Total, n
<1> HIDE DEF g
<1>7. g[0] = 0 /\ \A k \in 1 .. n : g[k] = g[k - 1] + s[k]
  BY <1>1, <1>5
<1>8. \A k \in 0 .. n : g[k] = f[k]
  <2> DEFINE S == {k \in 0 .. n : g[k] = f[k]}
  <2>1. 0 \in S
    BY <1>1, <1>3, <1>7 DEF SumsUpTo
  <2>2. ASSUME NEW k \in 1 .. n, k - 1 \in S  PROVE k \in S
    BY <1>1, <1>3, <1>7, <2>2 DEF SumsUpTo
  <2>3. \A k \in 0 .. n : k \in S
    <3> HIDE DEF S
    <3> QED BY <1>1, <2>1, <2>2, Induction
  <2> QED BY <2>3
<1>9. n \in 0 .. n
  BY <1>1
<1> QED BY <1>3, <1>6, <1>8, <1>9 DEF Sums, SumsUpTo, n


LEMMA TotalEmpty == Total(<< >>) = 0
<1>1. << >> \in Seq(Nat) /\ Len(<< >>) = 0
  BY EmptySeq
<1> QED BY <1>1, TotalIs DEF Sums

LEMMA TotalType ==
  ASSUME NEW s \in Seq(Nat)  PROVE Total(s) \in Nat
<1>1. Len(s) \in 0 .. Len(s)
  BY LenProperties
<1> QED BY <1>1, TotalIs DEF Sums

LEMMA TotalAppend ==
  ASSUME NEW s \in Seq(Nat), NEW x \in Nat
  PROVE  Total(Append(s, x)) = Total(s) + x
<1> DEFINE t == Append(s, x)
           n == Len(s)
<1>1. /\ n \in Nat /\ t \in Seq(Nat) /\ Len(t) = n + 1 /\ t[n + 1] = x
      /\ \A k \in 1 .. n : t[k] = s[k]
  BY AppendProperties, LenProperties
<1> HIDE DEF t
<1>2. PICK f : Sums(s, f) /\ Total(s) = f[n]
  BY TotalIs
<1>3. PICK g : Sums(t, g) /\ Total(t) = g[n + 1]
  BY <1>1, TotalIs
<1> HIDE DEF n
<1>4. /\ f[0] = 0 /\ g[0] = 0 /\ g[n + 1] = g[(n + 1) - 1] + x
      /\ \A k \in 1 .. n : f[k] = f[k - 1] + s[k] /\ g[k] = g[k - 1] + s[k]
  <2>1. f[0] = 0 /\ \A k \in 1 .. n : f[k] = f[k - 1] + s[k]
    BY <1>2 DEF Sums, n
  <2>2. g[0] = 0 /\ \A k \in 1 .. n + 1 : g[k] = g[k - 1] + t[k]
    BY <1>1, <1>3 DEF Sums
  <2>3. n + 1 \in 1 .. n + 1 /\ \A k \in 1 .. n : k \in 1 .. n + 1
    BY <1>1
  <2>4. g[n + 1] = g[(n + 1) - 1] + t[n + 1]
    BY <2>2, <2>3
  <2> QED BY <1>1, <2>1, <2>2, <2>3, <2>4
<1> DEFINE S == {k \in 0 .. n : g[k] = f[k]}
<1>5. 0 \in S
  BY <1>1, <1>4
<1>6. ASSUME NEW k \in 1 .. n, k - 1 \in S  PROVE k \in S
  BY <1>1, <1>4, <1>6
<1>7. \A k \in 0 .. n : k \in S
  <2> HIDE DEF S
  <2> QED BY <1>1, <1>5, <1>6, Induction
<1>8. n \in 0 .. n /\ (n + 1) - 1 = n
  BY <1>1
<1>9. g[n] = f[n]
  BY <1>7, <1>8
<1> QED BY <1>2, <1>3, <1>4, <1>8, <1>9 DEF t

LEMMA TotalTail ==
  ASSUME NEW s \in Seq(Nat), s # << >>
  PROVE  /\ Head(s) \in Nat /\ Tail(s) \in Seq(Nat)
         /\ Total(s) = Head(s) + Total(Tail(s))
<1> DEFINE t == Tail(s)
           n == Len(t)
<1>1. /\ s[1] \in Nat /\ Head(s) = s[1] /\ t \in Seq(Nat) /\ n \in Nat
      /\ Len(s) = n + 1 /\ \A k \in 1 .. n : t[k] = s[k + 1]
  <2>1. /\ Len(s) \in Nat /\ Len(s) # 0 /\ Head(s) \in Nat /\ t \in Seq(Nat)
        /\ n = Len(s) - 1 /\ \A k \in 1 .. n : t[k] = s[k + 1]
    BY HeadTailProperties, LenProperties, EmptySeq
  <2>2. Head(s) = s[1]
    OBVIOUS
  <2> HIDE DEF n, t
  <2> QED BY <2>1, <2>2
<1> HIDE DEF t
<1>2. PICK f : Sums(t, f) /\ Total(t) = f[n]
  BY <1>1, TotalIs
<1>3. PICK g : Sums(s, g) /\ Total(s) = g[n + 1]
  BY <1>1, TotalIs
<1> HIDE DEF n
<1>4. /\ f \in [0 .. n -> Nat] /\ f[0] = 0
      /\ \A k \in 1 .. n : f[k] = f[k - 1] + t[k]
  BY <1>2 DEF Sums, n
<1>5. g[0] = 0 /\ \A k \in 1 .. n + 1 : g[k] = g[k - 1] + s[k]
  BY <1>1, <1>3 DEF Sums
<1> DEFINE S == {k \in 0 .. n : g[k + 1] = s[1] + f[k]}
<1>6. 0 \in S
  <2>1. g[1] = g[1 - 1] + s[1] /\ 0 \in 0 .. n
    BY <1>1, <1>5
  <2> QED BY <1>1, <1>4, <1>5, <2>1
<1>7. ASSUME NEW k \in 1 .. n, k - 1 \in S  PROVE k \in S
  <2>1. k + 1 \in 1 .. n + 1 /\ (k + 1) - 1 = k /\ (k - 1) + 1 = k
    BY <1>1
  <2>2. g[k + 1] = g[k] + t[k]
    BY <1>1, <1>5, <2>1
  <2>3. g[k] = s[1] + f[k - 1] /\ f[k - 1] \in Nat /\ t[k] \in Nat
    <3>1. k - 1 \in 0 .. n
      BY <1>1
    <3>2. t[k] \in Nat
      BY <1>1, ElementOfSeq DEF n
    <3> QED BY <1>4, <1>7, <2>1, <3>1, <3>2
  <2> QED BY <1>1, <1>4, <2>2, <2>3
<1>8. \A k \in 0 .. n : k \in S
  <2> HIDE DEF S
  <2> QED BY <1>1, <1>6, <1>7, Induction
<1>9. n \in 0 .. n
  BY <1>1
<1> QED BY <1>1, <1>2, <1>3, <1>8, <1>9 DEF t

-----------------------------------------------------------------------------
(* One action after the other.                                             *)

\* Of several sockets none is given a descriptor of the sets, closed and opened
\* again, before its turn; and the program closes only what has been sent.
Timely == ReusesListed = FALSE \/ N = 1
Orderly == Timely /\ ClosesWhileSending = FALSE

\* A step of the emulator's on one socket leaves the others as they were.
LEMMA AimStep ==
  ASSUME Timely, IInv, IInv', SInv, NEW i \in 1 .. N, NEW t,
         socket' = [socket EXCEPT ![i] = t], UNCHANGED io,
         \A fd \in Fds : fd # socket[i].fd /\ fd # t.fd => kernel'[fd] = kernel[fd],
         Kept(t),
         t.fd # socket[i].fd /\ t.fd # Invalid /\ Listed(i, t.fd) => ReusesListed,
         t.ok_for_io =>
           /\ socket[i].ok_for_io /\ t.fd = socket[i].fd
           /\ socket[i].write_pending => t.write_pending
           /\ socket[i].state # "init" =>
                /\ t.state # "init"
                /\ Ready(kernel, t.fd) => Ready(kernel', t.fd)
  PROVE  SInv'
<1> DEFINE s == socket[i]
<1>1. /\ DOMAIN socket = 1 .. N /\ i \in Nat /\ N \in Nat \ {0}
      /\ io.at \in Nat /\ io.at \in 1 .. N
      /\ io.readfds \subseteq Fds /\ io.writefds \subseteq Fds
      /\ Invalid \notin Fds
  BY Constants, FdsFacts DEF IInv, Tables, IoTyped
<1>2. socket'[i] = t /\ \A j \in 1 .. N : j # i => socket'[j] = socket[j]
  BY <1>1
<1>3. io'.pc = io.pc /\ io'.at = io.at /\ io'.readfds = io.readfds /\ io'.writefds = io.writefds
  OBVIOUS
<1>4. io'.pc # "blocked" /\ Empty'
  BY <1>3 DEF SInv, Empty
<1>5. ASSUME NEW j \in 1 .. N  PROVE Kept(socket'[j])
  BY <1>2 DEF SInv
<1>6. ASSUME NEW j \in 1 .. N  PROVE Unlisted(j)'
  <2> SUFFICES ASSUME io.pc = "add", j >= io.at
               PROVE  socket'[j].fd \notin io.readfds /\ socket'[j].fd \notin io.writefds
    BY <1>3 DEF Unlisted
  <2>1. socket[j].fd \notin io.readfds /\ socket[j].fd \notin io.writefds
    BY DEF SInv, Unlisted
  <2>2. CASE j # i \/ t.fd = s.fd
    BY <1>2, <2>1, <2>2
  <2>3. CASE j = i /\ t.fd # s.fd /\ t.fd = Invalid
    BY <1>1, <1>2, <2>3
  <2>4. CASE j = i /\ ~Listed(i, t.fd)
    BY <1>1, <1>2, <2>4 DEF Listed
  <2>5. CASE j = i /\ N = 1
    <3>1. io.at = 1
      BY <1>1, <2>5
    <3> QED BY <3>1 DEF SInv, Empty
  <2> QED BY <2>2, <2>3, <2>4, <2>5 DEF Timely
<1>7. ASSUME NEW j \in 1 .. N  PROVE Aimed(j)'
  <2>1. Looked(j)' <=> Looked(j)
    BY <1>3 DEF Looked
  <2>2. Aimed(j)
    BY DEF SInv
  <2>3. CASE j # i
    <3>1. socket'[j] = socket[j]
      BY <1>2, <2>3
    <3>2. socket[j].fd # Invalid => socket[j].fd # s.fd
      BY <2>3 DEF IInv, Tables, Owned
    <3>3. Owned(socket', kernel')
      BY DEF IInv, Tables
    <3>4. socket[j].fd # Invalid => socket[j].fd # t.fd
      BY <1>2, <2>3, <3>1, <3>3 DEF Owned
    <3>5. socket[j].fd \in io.readfds => kernel'[socket[j].fd] = kernel[socket[j].fd]
      BY <1>1, <3>2, <3>4
    <3> QED BY <1>3, <2>1, <2>2, <3>1, <3>5 DEF Aimed, Ready
  <2>4. CASE j = i
    <3>1. socket'[j] = t
      BY <1>2, <2>4
    <3> QED BY <1>3, <2>1, <2>2, <2>4, <3>1 DEF Aimed
  <2> QED BY <2>3, <2>4
<1> QED BY <1>4, <1>5, <1>6, <1>7 DEF SInv

LEMMA CleanSends ==
  ASSUME NEW s, Socket(s), Sends(s)
  PROVE  /\ ~clean(s).write_pending /\ clean(s).tx_rr = 0 /\ clean(s).tx_wr = 0
         /\ clean(s).last_send = 0 /\ clean(s).datagrams = << >>
<1> DEFINE wiped == [s EXCEPT !.tx_rr = 0, !.tx_wr = 0, !.rx_rsr = 0, !.last_send = 0,
                              !.datagrams = << >>]
           none == init_common(wiped)
<1>1. clean(s) = IF s.fd = Invalid THEN wiped ELSE none
  BY DEF clean
<1>2. /\ wiped.tx_rr = 0 /\ wiped.tx_wr = 0 /\ wiped.last_send = 0 /\ wiped.datagrams = << >>
      /\ wiped.write_pending = s.write_pending
      /\ DOMAIN wiped = DOMAIN s
  BY DEF Socket, Sock
<1>3. /\ none.tx_rr = 0 /\ none.tx_wr = 0 /\ none.last_send = 0 /\ none.datagrams = << >>
      /\ ~none.write_pending
  BY DEF Socket, Sock, init_common
<1> HIDE DEF wiped, none
<1> QED BY <1>1, <1>2, <1>3 DEF Sends

\* An empty socket may be in any state.
LEMMA EmptySends ==
  ASSUME NEW s, s.write_pending = FALSE, s.tx_rr = 0, s.tx_wr = 0, s.last_send = 0,
         s.datagrams = << >>
  PROVE  Sends(s)
<1>1. Total(<< >>) = 0 /\ 0 % W = 0 /\ 0 - 0 = 0
  BY TotalEmpty, Constants
<1> QED BY <1>1 DEF Sends

LEMMA ResetAims ==
  ASSUME Timely, IInv, IInv', SInv, NEW i \in 1 .. N, reset(i)  PROVE SInv'
<1> DEFINE s == socket[i]
           c == [s EXCEPT !.state = "closed"]
           t == clean(c)
<1>1. Socket(s) /\ s \in Sock /\ Table(kernel) /\ s.fd \in Fds \union {Invalid} /\ Kept(s)
  BY SocketFacts DEF IInv, SInv
<1>2. Socket(c) /\ Kept(c)
  <2>1. /\ Socket(c) /\ c.state = "closed" /\ c.fd = s.fd
        /\ c.write_pending = s.write_pending
    BY <1>1 DEF Socket, Sock, States, Fresh
  <2> QED BY <1>1, <2>1 DEF Kept, Sends
<1>3. /\ t.fd = Invalid /\ ~t.ok_for_io /\ Kept(t)
  <2>1. Socket(t) /\ t.fd = Invalid /\ ~t.ok_for_io
    BY <1>2, CleanIs
  <2>2. t.write_pending \in BOOLEAN
    BY <2>1 DEF Socket, Sock
  <2> HIDE DEF c
  <2> QED BY <1>2, <2>1, <2>2, CleanSends, EmptySends DEF Kept
<1>4. /\ kernel' = Closed(kernel, s.fd) /\ socket' = [socket EXCEPT ![i] = t]
      /\ UNCHANGED io
  BY DEF reset
<1>5. \A fd \in Fds : fd # s.fd => kernel'[fd] = kernel[fd]
  BY <1>1, <1>4, ClosedIs
<1> HIDE DEF t
<1> QED BY <1>3, <1>4, <1>5, AimStep

LEMMA OpenAims ==
  ASSUME Timely, IInv, IInv', SInv, NEW i \in 1 .. N, open(i)  PROVE SInv'
<1> DEFINE s == socket[i]
           k == Closed(kernel, s.fd)
           fd == LowestFree(k)
           c == clean(s)
<1>1. Socket(s) /\ Table(kernel) /\ s.fd \in Fds \union {Invalid} /\ Kept(s)
  BY SocketFacts DEF IInv, SInv
<1>2. /\ c.fd = Invalid /\ ~c.ok_for_io /\ c \in Sock
      /\ ClosesWhileSending = FALSE =>
           /\ c.write_pending = FALSE /\ c.tx_rr = 0 /\ c.tx_wr = 0
           /\ c.last_send = 0 /\ c.datagrams = << >>
  <2>1. Socket(c) /\ c.fd = Invalid /\ ~c.ok_for_io /\ c \in Sock
    BY <1>1, CleanIs DEF Socket
  <2>2. c.write_pending \in BOOLEAN
    BY <2>1 DEF Sock
  <2> HIDE DEF c
  <2> QED BY <1>1, <2>1, <2>2, CleanSends DEF c, Kept
<1>3. \A other \in Fds : other # s.fd => k[other] = kernel[other]
  BY <1>1, ClosedIs
<1>4. UNCHANGED io
  BY DEF open
<1>5. ASSUME NEW tcp \in BOOLEAN,
             Listed(i, fd) => ReusesListed,
             kernel' = [k EXCEPT ![fd] = File(IF tcp THEN "stream" ELSE "udp")],
             socket' = [socket EXCEPT ![i] =
                  [c EXCEPT !.fd = fd, !.state = IF tcp THEN "init" ELSE "udp"]]
      PROVE  SInv'
  <2> DEFINE t == [c EXCEPT !.fd = fd, !.state = IF tcp THEN "init" ELSE "udp"]
  <2> HIDE DEF c, k, fd
  <2>1. /\ t.fd = fd /\ ~t.ok_for_io
        /\ ClosesWhileSending = FALSE =>
             /\ t.write_pending = FALSE /\ t.tx_rr = 0 /\ t.tx_wr = 0
             /\ t.last_send = 0 /\ t.datagrams = << >>
    BY <1>2 DEF Sock
  <2>2. socket' = [socket EXCEPT ![i] = t]
    BY <1>5
  <2> HIDE DEF t
  <2>3. Kept(t)
    BY <2>1, EmptySends DEF Kept
  <2>4. \A other \in Fds : other # s.fd /\ other # t.fd => kernel'[other] = kernel[other]
    BY <1>3, <1>5, <2>1
  <2> QED BY <1>4, <1>5, <2>1, <2>2, <2>3, <2>4, AimStep
<1>6. ASSUME kernel' = k, socket' = [socket EXCEPT ![i] = c]  PROVE SInv'
  <2> HIDE DEF k, c
  <2>1. Kept(c)
    BY <1>2, EmptySends DEF Kept
  <2> QED BY <1>2, <1>3, <1>4, <1>6, <2>1, AimStep
<1> QED BY <1>5, <1>6 DEF open

\* A bind that fails closes the socket; else it is as it was.
LEMMA BoundSends ==
  ASSUME NEW s, Socket(s), Kept(s), s.fd # Invalid, NEW b \in Bound(s)
  PROVE  /\ Kept(b) /\ b \in Sock /\ b.state \in {s.state, "closed"}
         /\ b.fd = s.fd /\ b.ok_for_io = s.ok_for_io
         /\ b.write_pending = s.write_pending /\ b.tx_rr = s.tx_rr /\ b.tx_wr = s.tx_wr
         /\ b.last_send = s.last_send /\ b.datagrams = s.datagrams
<1>1. b = s \/ b = [s EXCEPT !.socket_bound = TRUE] \/ b = [s EXCEPT !.state = "closed"]
  BY DEF Bound
<1>2. /\ b \in Sock /\ b.state \in {s.state, "closed"}
      /\ b.fd = s.fd /\ b.ok_for_io = s.ok_for_io
      /\ b.write_pending = s.write_pending /\ b.tx_rr = s.tx_rr /\ b.tx_wr = s.tx_wr
      /\ b.last_send = s.last_send /\ b.datagrams = s.datagrams
  BY <1>1 DEF Socket, Sock, States
<1> QED BY <1>2 DEF Kept, Sends

\* A step that leaves a socket its descriptor, and the host its own.
LEMMA KeptAims ==
  ASSUME Timely, IInv, IInv', SInv, NEW i \in 1 .. N, NEW t,
         socket' = [socket EXCEPT ![i] = t], UNCHANGED <<io, kernel>>,
         Kept(t), t.fd = socket[i].fd, t.ok_for_io = socket[i].ok_for_io,
         t.state \in {socket[i].state, "closed"},
         socket[i].write_pending => t.write_pending
  PROVE  SInv'
BY AimStep

LEMMA ListenAims ==
  ASSUME Timely, IInv, IInv', SInv, NEW i \in 1 .. N, listen(i)  PROVE SInv'
<1> DEFINE s == socket[i]
<1>1. /\ Socket(s) /\ s.state = "init" /\ Kept(s)
      /\ s.fd \in Fds /\ s.fd # Invalid /\ UNCHANGED io
  BY SocketFacts, FdsFacts DEF IInv, SInv, listen, Opened, Is
<1>2. PICK b \in Bound(s) :
        \/ /\ b.state = "init"
           /\ socket' = [socket EXCEPT ![i] = [b EXCEPT !.state = "listen"]]
           /\ kernel' = [kernel EXCEPT ![b.fd] = File("listening")]
        \/ /\ socket' = [socket EXCEPT ![i] = b]
           /\ UNCHANGED kernel
  BY DEF listen
<1>3. /\ Kept(b) /\ b \in Sock /\ b.state \in {s.state, "closed"}
      /\ b.fd = s.fd /\ b.ok_for_io = s.ok_for_io
      /\ b.write_pending = s.write_pending /\ b.tx_rr = s.tx_rr /\ b.tx_wr = s.tx_wr
  BY <1>1, BoundSends
<1>4. CASE /\ b.state = "init"
           /\ socket' = [socket EXCEPT ![i] = [b EXCEPT !.state = "listen"]]
           /\ kernel' = [kernel EXCEPT ![b.fd] = File("listening")]
  <2> DEFINE t == [b EXCEPT !.state = "listen"]
  <2>1. /\ t.state = "listen" /\ t.fd = s.fd /\ t.ok_for_io = s.ok_for_io
        /\ t.write_pending = s.write_pending /\ t.tx_rr = s.tx_rr /\ t.tx_wr = s.tx_wr
    BY <1>3 DEF Sock
  <2>2. socket' = [socket EXCEPT ![i] = t]
    BY <1>4
  <2> HIDE DEF t
  <2>3. Kept(t)
    BY <1>1, <2>1 DEF Kept, Sends
  <2>4. \A fd \in Fds : fd # s.fd => kernel'[fd] = kernel[fd]
    BY <1>3, <1>4
  <2> QED BY <1>1, <2>1, <2>2, <2>3, <2>4, AimStep
<1>5. CASE socket' = [socket EXCEPT ![i] = b] /\ UNCHANGED kernel
  BY <1>1, <1>3, <1>5, KeptAims
<1> QED BY <1>2, <1>4, <1>5

LEMMA ConnectAims ==
  ASSUME Timely, IInv, IInv', SInv, NEW i \in 1 .. N, connect(i)  PROVE SInv'
<1> DEFINE s == socket[i]
<1>1. /\ Socket(s) /\ s.state = "init" /\ Kept(s)
      /\ s.fd \in Fds /\ s.fd # Invalid /\ UNCHANGED io
  BY SocketFacts, FdsFacts DEF IInv, SInv, connect, Opened, Is
<1>2. PICK b \in Bound(s) :
        \/ /\ b.state = "init"
           /\ socket' = [socket EXCEPT ![i] = [b EXCEPT !.state = "established"]]
           /\ kernel' = [kernel EXCEPT ![b.fd] = File("connected")]
        \/ /\ socket' = [socket EXCEPT ![i] = [b EXCEPT !.state = "closed"]]
           /\ UNCHANGED kernel
  BY DEF connect
<1>3. /\ Kept(b) /\ b \in Sock /\ b.state \in {s.state, "closed"}
      /\ b.fd = s.fd /\ b.ok_for_io = s.ok_for_io
      /\ b.write_pending = s.write_pending /\ b.tx_rr = s.tx_rr /\ b.tx_wr = s.tx_wr
  BY <1>1, BoundSends
<1>4. CASE /\ b.state = "init"
           /\ socket' = [socket EXCEPT ![i] = [b EXCEPT !.state = "established"]]
           /\ kernel' = [kernel EXCEPT ![b.fd] = File("connected")]
  <2> DEFINE t == [b EXCEPT !.state = "established"]
  <2>1. /\ t.state = "established" /\ t.fd = s.fd /\ t.ok_for_io = s.ok_for_io
        /\ t.write_pending = s.write_pending /\ t.tx_rr = s.tx_rr /\ t.tx_wr = s.tx_wr
    BY <1>3 DEF Sock
  <2>2. socket' = [socket EXCEPT ![i] = t]
    BY <1>4
  <2> HIDE DEF t
  <2>3. Kept(t)
    BY <1>1, <2>1 DEF Kept, Sends
  <2>4. \A fd \in Fds : fd # s.fd => kernel'[fd] = kernel[fd]
    BY <1>3, <1>4
  <2> QED BY <1>1, <2>1, <2>2, <2>3, <2>4, AimStep
<1>5. CASE socket' = [socket EXCEPT ![i] = [b EXCEPT !.state = "closed"]] /\ UNCHANGED kernel
  <2> DEFINE t == [b EXCEPT !.state = "closed"]
  <2>1. /\ t.state = "closed" /\ t.fd = s.fd /\ t.ok_for_io = s.ok_for_io
        /\ t.write_pending = s.write_pending
    BY <1>3 DEF Sock
  <2> HIDE DEF t
  <2>2. Kept(t)
    BY <1>1, <2>1 DEF Kept, Sends
  <2> QED BY <1>1, <1>5, <2>1, <2>2, KeptAims DEF t
<1> QED BY <1>2, <1>4, <1>5

LEMMA DisconAims ==
  ASSUME Timely, IInv, IInv', SInv, NEW i \in 1 .. N, discon(i)  PROVE SInv'
<1> DEFINE s == socket[i]
           t == [s EXCEPT !.state = "closed"]
<1>1. s \in Sock /\ Kept(s)
  BY SocketFacts DEF IInv, SInv
<1>2. socket' = [socket EXCEPT ![i] = t] /\ UNCHANGED <<io, kernel>>
  BY DEF discon
<1>3. /\ t.fd = s.fd /\ t.ok_for_io = s.ok_for_io /\ t.state = "closed"
      /\ t.write_pending = s.write_pending
  BY <1>1 DEF Sock
<1> HIDE DEF t
<1>4. Kept(t)
  BY <1>1, <1>3 DEF Kept, Sends
<1> QED BY <1>2, <1>3, <1>4, KeptAims

LEMMA CloseAims ==
  ASSUME Timely, IInv, IInv', SInv, NEW i \in 1 .. N, close(i)  PROVE SInv'
<1> DEFINE s == socket[i]
           t == [s EXCEPT !.fd = Invalid, !.socket_bound = FALSE, !.ok_for_io = FALSE,
                          !.state = "closed"]
<1>1. /\ s \in Sock /\ Table(kernel) /\ s.fd \in Fds \union {Invalid}
  BY SocketFacts DEF IInv
<1>2. /\ socket' = [socket EXCEPT ![i] = t] /\ kernel' = Closed(kernel, s.fd)
      /\ UNCHANGED io /\ (ClosesWhileSending = FALSE => ~s.write_pending)
  BY DEF close
<1>3. /\ t.fd = Invalid /\ ~t.ok_for_io /\ t.state = "closed"
      /\ ClosesWhileSending = FALSE => t.write_pending = FALSE
  BY <1>1, <1>2 DEF Sock
<1>4. \A fd \in Fds : fd # s.fd => kernel'[fd] = kernel[fd]
  BY <1>1, <1>2, ClosedIs
<1> HIDE DEF t
<1>5. Kept(t)
  BY <1>3 DEF Kept, Sends
<1> QED BY <1>2, <1>3, <1>4, <1>5, AimStep

LEMMA RecvAims ==
  ASSUME Timely, IInv, IInv', SInv, NEW i \in 1 .. N, recv(i)  PROVE SInv'
<1> DEFINE s == socket[i]
<1>1. s \in Sock /\ Kept(s)
  BY SocketFacts DEF IInv, SInv
<1>2. PICK n \in 1 .. s.rx_rsr : socket' = [socket EXCEPT ![i].rx_rsr = @ - n]
  BY DEF recv
<1> DEFINE t == [s EXCEPT !.rx_rsr = s.rx_rsr - n]
<1>3. socket' = [socket EXCEPT ![i] = t] /\ UNCHANGED <<io, kernel>>
  BY <1>2 DEF recv
<1>4. /\ t.fd = s.fd /\ t.ok_for_io = s.ok_for_io /\ t.state = s.state
      /\ t.write_pending = s.write_pending /\ t.tx_rr = s.tx_rr /\ t.tx_wr = s.tx_wr
      /\ t.last_send = s.last_send /\ t.datagrams = s.datagrams
  BY <1>1 DEF Sock
<1> HIDE DEF t
<1>5. Kept(t)
  BY <1>1, <1>4 DEF Kept, Sends
<1> QED BY <1>3, <1>4, <1>5, KeptAims

LEMMA PortAims ==
  ASSUME Timely, IInv, IInv', SInv, NEW i \in 1 .. N, write_port(i)  PROVE SInv'
<1> DEFINE s == socket[i]
<1>1. Socket(s) /\ s.state = "udp" /\ s.fd # Invalid /\ Kept(s)
  BY SocketFacts DEF IInv, SInv, write_port, Opened, Is
<1>2. PICK b \in Bound(s) : socket' = [socket EXCEPT ![i] = b]
  BY DEF write_port
<1>3. UNCHANGED <<io, kernel>>
  BY DEF write_port
<1> QED BY <1>1, <1>2, <1>3, BoundSends, KeptAims

\* The pointers count further than the ring is long.
LEMMA PointersWide == W \in Nat /\ BUF \in Nat /\ W > BUF
<1>1. PICK n \in 2 .. BUF * 32 : W = BUF * n
  BY W5100Assumption
<1>2. BUF \in Nat \ {0} /\ n \in Nat /\ n - 1 \in Nat \ {0}
  BY <1>1, Constants
<1> DEFINE m == n - 1
           bm == BUF * m
<1>3. BUF * n = BUF + bm
  BY <1>2
<1>4. bm \in Nat \ {0}
  BY <1>2
<1> HIDE DEF bm
<1> QED BY <1>1, <1>2, <1>3, <1>4

LEMMA QueuedIs ==
  ASSUME NEW s, s \in Sock, NEW n \in Int
  PROVE  /\ Queued(s, n).fd = s.fd /\ Queued(s, n).state = s.state
         /\ Queued(s, n).ok_for_io = s.ok_for_io /\ Queued(s, n).write_pending
BY DEF Queued, Sock

\* One more datagram is as long as the write pointer has moved since the last.
LEMMA QueuedSends ==
  ASSUME NEW s, s \in Sock, Sends(s), s.state = "udp", s.fd # Invalid, NEW n \in Int
  PROVE  /\ Sends(Queued(s, n)) /\ Queued(s, n).fd = s.fd
         /\ Queued(s, n).ok_for_io = s.ok_for_io /\ Queued(s, n).state = "udp"
         /\ Queued(s, n).write_pending
<1> DEFINE p == Advanced(s.tx_wr, n)
           length == (p - s.last_send) % W
           q == s.datagrams
           all == Append(q, length)
           t == Queued(s, n)
<1>1. /\ s.tx_wr \in Int /\ s.tx_rr \in Int /\ s.last_send \in Int
      /\ q \in Seq(Nat) /\ W \in Nat \ {0}
  <2>1. 0 .. W - 1 \subseteq Nat /\ 0 .. W - 1 \subseteq Int
    BY Constants
  <2>2. q \in Seq(0 .. W - 1)
    BY DEF Sock
  <2>3. q \in Seq(Nat)
    <3> HIDE DEF q
    <3> QED BY <2>1, <2>2, SeqMonotonic
  <2> QED BY <2>1, <2>3, Constants DEF Sock
<1>2. p \in 0 .. W - 1
  BY <1>1, AdvancedRange
<1> HIDE DEF p
<1>11. p \in Int /\ p - s.last_send \in Int
  BY <1>1, <1>2
<1>3. length \in Nat /\ length % W = (p - s.last_send) % W
  <2> DEFINE v == p - s.last_send
  <2> HIDE DEF v
  <2>1. v % W \in 0 .. W - 1 /\ (v % W) % W = v % W
    BY <1>1, <1>11, ModOfMod DEF v
  <2> QED BY <1>1, <2>1 DEF v
<1> HIDE DEF length
<1>4. Total(all) = Total(q) + length /\ Total(q) \in Nat /\ all # << >>
  <2>1. Total(all) = Total(q) + length /\ Total(q) \in Nat
    BY <1>1, <1>3, TotalAppend, TotalType
  <2>2. all # << >>
    BY <1>1, <1>3
  <2> QED BY <2>1, <2>2
<1>5. Total(q) % W = (s.last_send - s.tx_rr) % W
  BY DEF Sends
<1> DEFINE x == s.last_send - s.tx_rr
           v == p - s.last_send
<1>6. x \in Int /\ v \in Int /\ x + v = p - s.tx_rr
  BY <1>1, <1>11
<1>7. (Total(q) + length) % W = (x + v) % W
  <2> HIDE DEF x, v
  <2>1. Total(q) % W = x % W /\ length % W = v % W
    BY <1>3, <1>5 DEF x, v
  <2>2. Total(q) \in Int /\ length \in Int /\ x \in Int /\ v \in Int
    BY <1>3, <1>4, <1>6
  <2>3. Same(W, Total(q), x) /\ Same(W, length, v)
    BY <1>1, <2>1, <2>2, SameIs
  <2>4. Same(W, Total(q) + length, x + v)
    BY <1>1, <2>2, <2>3, SameAdd
  <2>5. Total(q) + length \in Int /\ x + v \in Int
    BY <2>2
  <2> QED BY <1>1, <2>4, <2>5, SameIs
<1> HIDE DEF x, v, all
<1>8. /\ t.fd = s.fd /\ t.ok_for_io = s.ok_for_io /\ t.state = "udp"
      /\ t.write_pending = TRUE /\ t.last_send = p /\ t.tx_rr = s.tx_rr
      /\ t.datagrams = all
  BY DEF Queued, Sock, p, length, all
<1> HIDE DEF t
<1>9. Sends(t)
  BY <1>4, <1>6, <1>7, <1>8 DEF Sends
<1> QED BY <1>8, <1>9 DEF t

\* What a connected socket is given to send fits in the ring, which is shorter
\* than the pointers count: the two pointers differ.
LEMMA StartedSends ==
  ASSUME NEW s, s \in Sock, Sends(s), s.state = "established", s.fd # Invalid,
         ~s.write_pending, NEW n \in Outgoing(s)
  PROVE  s.tx_rr # Advanced(s.tx_wr, n)
<1>1. s.tx_rr = s.tx_wr /\ s.tx_wr \in 0 .. W - 1
  BY DEF Sends, Sock
<1>2. W \in Nat \ {0} /\ W > BUF /\ BUF \in Nat
  BY PointersWide, Constants
<1>3. (s.tx_wr - s.tx_rr) % W = 0
  <2>1. s.tx_wr - s.tx_rr = 0
    BY <1>1, <1>2
  <2> QED BY <1>2, <2>1
<1>4. n \in 1 .. BUF
  BY <1>2, <1>3 DEF Outgoing
<1> DEFINE p == s.tx_wr
<1>5. CASE p + n < W
  <2>2. p + n \in 0 .. W - 1
    BY <1>1, <1>2, <1>4, <1>5
  <2>1. (p + n) % W = p + n
    BY <1>2, <2>2, ModOfSmall
  <2> QED BY <1>1, <1>2, <1>4, <2>1 DEF Advanced
<1>6. CASE p + n >= W
  <2>1. p + n - W \in 0 .. W - 1 /\ p + n - W < p
    BY <1>1, <1>2, <1>4, <1>6
  <2>2. (p + n) % W = p + n - W
    <3>1. Same(W, p + n, p + n - W)
      <4>1. p + n = W * 1 + (p + n - W)
        BY <1>1, <1>2, <1>4
      <4> QED BY <4>1 DEF Same
    <3>2. p + n \in Int /\ p + n - W \in Int
      BY <1>1, <1>2, <1>4
    <3> QED BY <1>2, <2>1, <3>1, <3>2, SameIs, ModOfSmall
  <2> QED BY <1>1, <1>2, <1>4, <2>1, <2>2 DEF Advanced
<1> QED BY <1>1, <1>2, <1>4, <1>5, <1>6

LEMMA SendAims ==
  ASSUME Timely, IInv, IInv', SInv, NEW i \in 1 .. N, send(i)  PROVE SInv'
<1> DEFINE s == socket[i]
<1>1. /\ Socket(s) /\ s \in Sock /\ Kept(s) /\ UNCHANGED <<io, kernel>>
      /\ s.state \in {"udp", "established"} => s.fd # Invalid
  BY SocketFacts DEF IInv, SInv, send, Opened, Is
<1>2. PICK n \in Outgoing(s) :
       \/ /\ s.state = "udp"
          /\ \E b \in Bound(s) :
               \/ /\ b.state = "udp"
                  /\ socket' = [socket EXCEPT ![i] = Queued(b, n)]
               \/ /\ b.state = "closed"
                  /\ socket' = [socket EXCEPT ![i] = [b EXCEPT !.tx_wr = Advanced(@, n)]]
       \/ /\ s.state = "established"
          /\ ~s.write_pending
          /\ socket' = [socket EXCEPT ![i] =
               [s EXCEPT !.tx_wr = Advanced(@, n), !.write_pending = TRUE]]
  BY DEF send
<1>3. n \in Int
  BY DEF Outgoing
<1>4. ASSUME s.state = "udp", NEW b \in Bound(s), b.state = "udp",
             socket' = [socket EXCEPT ![i] = Queued(b, n)]
      PROVE  SInv'
  <2>1. Kept(b) /\ b \in Sock /\ b.fd = s.fd /\ b.ok_for_io = s.ok_for_io
    BY <1>1, <1>4, BoundSends
  <2> DEFINE t == Queued(b, n)
  <2>2. /\ Kept(t) /\ t.fd = s.fd /\ t.ok_for_io = s.ok_for_io
        /\ t.state = "udp" /\ t.write_pending
    BY <1>1, <1>3, <1>4, <2>1, QueuedIs, QueuedSends DEF Kept
  <2> HIDE DEF t
  <2> QED BY <1>1, <1>4, <2>2, KeptAims DEF t
<1>5. ASSUME s.state = "udp", NEW b \in Bound(s), b.state = "closed",
             socket' = [socket EXCEPT ![i] = [b EXCEPT !.tx_wr = Advanced(@, n)]]
      PROVE  SInv'
  <2>1. /\ b \in Sock /\ b.fd = s.fd /\ b.ok_for_io = s.ok_for_io
        /\ b.write_pending = s.write_pending
    BY <1>1, <1>5, BoundSends
  <2> DEFINE t == [b EXCEPT !.tx_wr = Advanced(@, n)]
  <2>2. /\ t.fd = s.fd /\ t.ok_for_io = s.ok_for_io /\ t.state = "closed"
        /\ t.write_pending = s.write_pending
    BY <1>5, <2>1 DEF Sock
  <2> HIDE DEF t
  <2>3. Kept(t)
    BY <1>1, <1>5, <2>2 DEF Kept, Sends
  <2> QED BY <1>1, <1>5, <2>2, <2>3, KeptAims DEF t
<1>6. ASSUME s.state = "established", ~s.write_pending,
             socket' = [socket EXCEPT ![i] =
               [s EXCEPT !.tx_wr = Advanced(@, n), !.write_pending = TRUE]]
      PROVE  SInv'
  <2> DEFINE t == [s EXCEPT !.tx_wr = Advanced(@, n), !.write_pending = TRUE]
  <2>1. /\ t.fd = s.fd /\ t.ok_for_io = s.ok_for_io /\ t.state = "established"
        /\ t.write_pending = TRUE /\ t.tx_rr = s.tx_rr /\ t.tx_wr = Advanced(s.tx_wr, n)
    BY <1>1, <1>6 DEF Sock
  <2>2. s.fd # Invalid /\ (ClosesWhileSending = FALSE => s.tx_rr # Advanced(s.tx_wr, n))
    BY <1>1, <1>6, StartedSends DEF Kept
  <2>3. socket' = [socket EXCEPT ![i] = t]
    BY <1>6
  <2> HIDE DEF t
  <2>4. Kept(t)
    BY <2>1, <2>2 DEF Kept, Sends
  <2> QED BY <1>1, <1>6, <2>1, <2>3, <2>4, KeptAims
<1> QED BY <1>2, <1>4, <1>5, <1>6, Zenon

\* What arrives makes a descriptor readable, never the opposite.
LEMMA ArriveAims ==
  ASSUME IInv, SInv, NEW fd \in Fds, Arrive(fd) \/ PeerCloses(fd)  PROVE SInv'
<1>1. Table(kernel) /\ UNCHANGED <<socket, io>> /\ MaxInput \in Nat
  BY Constants DEF IInv, Tables, Arrive, PeerCloses
<1>2. ASSUME NEW other \in Fds, Ready(kernel, other)  PROVE Ready(kernel', other)
  <2>1. kernel[fd] \in Descriptor /\ kernel[fd].input \in Nat /\ DOMAIN kernel = Fds
    BY <1>1 DEF Table, Descriptor
  <2>2. CASE Arrive(fd)
    <3>1. kernel' = [kernel EXCEPT ![fd].input = @ + 1]
      BY <2>2 DEF Arrive
    <3>2. kernel'[other].kind = kernel[other].kind /\ kernel'[other].eof = kernel[other].eof
      BY <2>1, <3>1 DEF Descriptor
    <3>3. other # fd => kernel'[other].input = kernel[other].input
      BY <2>1, <3>1
    <3>4. other = fd => kernel'[other].input > 0
      BY <2>1, <3>1 DEF Descriptor
    <3> QED BY <1>2, <3>2, <3>3, <3>4 DEF Ready
  <2>3. CASE PeerCloses(fd)
    <3>1. kernel' = [kernel EXCEPT ![fd].eof = TRUE]
      BY <2>3 DEF PeerCloses
    <3>2. kernel'[other].kind = kernel[other].kind /\ kernel'[other].input = kernel[other].input
      BY <2>1, <3>1 DEF Descriptor
    <3>3. other # fd => kernel'[other].eof = kernel[other].eof
      BY <2>1, <3>1
    <3>4. other = fd => kernel'[other].eof
      BY <2>1, <3>1 DEF Descriptor
    <3> QED BY <1>2, <3>2, <3>3, <3>4 DEF Ready
  <2> QED BY <2>2, <2>3
<1>3. io.readfds \subseteq Fds
  BY DEF IInv, IoTyped
<1>4. ASSUME NEW i \in 1 .. N  PROVE Aimed(i)' /\ Unlisted(i)'
  <2>1. Looked(i)' <=> Looked(i)
    BY <1>1 DEF Looked
  <2> QED BY <1>1, <1>2, <1>3, <2>1 DEF SInv, Aimed, Unlisted
<1> QED BY <1>1, <1>4 DEF SInv, Empty

LEMMA FreeAims == ASSUME SInv, Free  PROVE SInv'
<1>1. UNCHANGED <<socket, io, kernel>>
  BY DEF Free, free
<1> QED BY <1>1 DEF SInv, Empty, Unlisted, Aimed, Looked

LEMMA EndAims == ASSUME IInv, SInv, End  PROVE SInv'
<1>1. /\ io.pc = "ended" /\ UNCHANGED io
      /\ socket' = [i \in 1 .. N |-> clean([socket[i] EXCEPT !.state = "closed"])]
  BY DEF End
<1>2. ASSUME NEW i \in 1 .. N  PROVE Kept(socket'[i])
  <2> DEFINE s == socket[i]
             c == [s EXCEPT !.state = "closed"]
             t == clean(c)
  <2>1. Socket(s) /\ s \in Sock /\ Kept(s)
    BY SocketFacts DEF IInv, SInv
  <2>2. Socket(c) /\ Kept(c)
    <3>1. /\ Socket(c) /\ c.state = "closed" /\ c.fd = s.fd
          /\ c.write_pending = s.write_pending
      BY <2>1 DEF Socket, Sock, States, Fresh
    <3> QED BY <2>1, <3>1 DEF Kept, Sends
  <2> HIDE DEF c
  <2>3. t.write_pending \in BOOLEAN
    BY <2>2, CleanIs DEF Socket, Sock
  <2>4. Kept(t)
    BY <2>2, <2>3, CleanSends, EmptySends DEF Kept
  <2> HIDE DEF t
  <2>5. socket'[i] = t
    BY <1>1 DEF t, c
  <2> QED BY <2>4, <2>5
<1>3. ASSUME NEW i \in 1 .. N  PROVE Aimed(i)' /\ Unlisted(i)'
  BY <1>1 DEF Aimed, Unlisted, Looked
<1> QED BY <1>1, <1>2, <1>3 DEF SInv, Empty

LEMMA LoopAims == ASSUME SInv, IoLoop \/ SelectStarts  PROVE SInv'
<1>1. UNCHANGED <<socket, kernel>>
  BY DEF IoLoop, SelectStarts
<1>2. CASE IoLoop
  <2>1. /\ io'.pc \in {"ended", "add"} /\ io'.at = 1
        /\ io'.readfds = {} /\ io'.writefds = {}
    BY <1>2 DEF IoLoop
  <2> QED BY <1>1, <2>1 DEF SInv, Empty, Unlisted, Aimed
<1>3. CASE SelectStarts
  <2> DEFINE pc == IF \E fd \in io.readfds \union io.writefds : kernel[fd].kind = "free"
                   THEN "loop" ELSE "wait"
  <2>1. io.pc = "select" /\ io' = [io EXCEPT !.pc = pc] /\ pc \in {"loop", "wait"}
    BY <1>3 DEF SelectStarts
  <2> HIDE DEF pc
  <2>2. ASSUME NEW i \in 1 .. N  PROVE Aimed(i)' /\ Unlisted(i)'
    <3>1. Aimed(i) /\ Looked(i)
      BY <2>1 DEF SInv, Looked
    <3>2. io'.pc \notin {"add", "process"}
      BY <2>1 DEF IInv, IoTyped
    <3>3. io'.readfds = io.readfds /\ io'.writefds = io.writefds
      BY <2>1
    <3> QED BY <1>1, <3>1, <3>2, <3>3 DEF Aimed, Unlisted
  <2> QED BY <1>1, <2>1, <2>2 DEF SInv, Empty
<1> QED BY <1>2, <1>3

LEMMA ReturnsAims == ASSUME IInv, SInv, SelectReturns  PROVE SInv'
<1>1. /\ io.pc = "wait" /\ UNCHANGED <<socket, kernel>>
      /\ io' = [io EXCEPT !.pc = "process",
                          !.readfds = {fd \in io.readfds : Readable(fd)},
                          !.writefds = {fd \in io.writefds : Writable(fd)}]
  BY DEF SelectReturns
<1>2. /\ io'.pc = "process"
      /\ io'.readfds = {fd \in io.readfds : Readable(fd)}
      /\ io'.writefds = {fd \in io.writefds : Writable(fd)}
  BY <1>1 DEF IInv, IoTyped
<1>3. ASSUME NEW i \in 1 .. N  PROVE Aimed(i)' /\ Unlisted(i)'
  <2>1. Aimed(i) /\ Looked(i)
    BY <1>1 DEF SInv, Looked
  <2> QED BY <1>1, <1>2, <2>1 DEF Aimed, Unlisted, Readable, Ready
<1> QED BY <1>1, <1>2, <1>3 DEF SInv, Empty

\* A socket is put in the sets for what it waits for, and its descriptor is no
\* other's.
LEMMA AddAims == ASSUME IInv, SInv, add_to_sets  PROVE SInv'
<1> DEFINE a == io.at
           s == socket[a]
           t == [s EXCEPT !.ok_for_io = TRUE]
           reads == udp_read(s) \/ tcp_read(s) \/ tcp_listen(s)
<1>1. /\ io.pc = "add" /\ a \in 1 .. N /\ a \in Nat /\ N \in Nat \ {0}
      /\ io \in [pc : {"loop", "add", "select", "wait", "process", "blocked", "ended"},
                 at : 1 .. N, readfds : SUBSET Fds, writefds : SUBSET Fds]
      /\ UNCHANGED kernel /\ Invalid \notin Fds /\ DOMAIN socket = 1 .. N
  BY Constants, FdsFacts DEF add_to_sets, IInv, IoTyped, Tables
<1>2. s \in Sock /\ Kept(s) /\ s.fd \in Fds \union {Invalid}
  BY <1>1, SocketFacts DEF IInv, SInv
<1>3. /\ io'.pc = IF a = N THEN "select" ELSE "add"
      /\ io'.at = IF a = N THEN 1 ELSE a + 1
      /\ io'.readfds \subseteq io.readfds \union {s.fd}
      /\ io'.writefds \subseteq io.writefds \union {s.fd}
      /\ s.fd \in io'.readfds /\ s.fd \notin io.readfds => reads
      /\ s.fd \in io'.writefds /\ s.fd \notin io.writefds => s.write_pending
      /\ s.fd = Invalid => io'.readfds = io.readfds /\ io'.writefds = io.writefds
  <2> HIDE DEF reads
  <2>1. CASE s.fd = Invalid
    <3>1. io' = Onwards("add", "select")
      BY <2>1 DEF add_to_sets
    <3> QED BY <1>1, <2>1, <3>1 DEF Onwards
  <2>2. CASE s.fd # Invalid
    <3>1. io' = [Onwards("add", "select") EXCEPT
                  !.readfds = IF reads THEN @ \union {s.fd} ELSE @,
                  !.writefds = IF s.write_pending THEN @ \union {s.fd} ELSE @]
      BY <2>2 DEF add_to_sets, reads
    <3> QED BY <1>1, <2>2, <3>1 DEF Onwards
  <2> QED BY <2>1, <2>2
<1>4. /\ t.fd = s.fd /\ t.state = s.state /\ t.write_pending = s.write_pending
      /\ t.tx_rr = s.tx_rr /\ t.tx_wr = s.tx_wr /\ t.last_send = s.last_send
      /\ t.datagrams = s.datagrams
  BY <1>2 DEF Sock
<1>5. /\ socket'[a] \in {s, t}
      /\ \A i \in 1 .. N : i # a => socket'[i] = socket[i]
      /\ s.fd = Invalid => socket'[a] = s
  <2> HIDE DEF t
  <2>1. socket' = socket \/ (s.fd # Invalid /\ socket' = [socket EXCEPT ![a].ok_for_io = TRUE])
    BY DEF add_to_sets
  <2>2. [socket EXCEPT ![a].ok_for_io = TRUE] = [socket EXCEPT ![a] = t]
    BY DEF t
  <2> QED BY <1>1, <2>1, <2>2
<1>6. \A i \in 1 .. N : i # a /\ s.fd # Invalid => socket[i].fd # s.fd
  BY <1>1 DEF IInv, Tables, Owned
<1>7. s.fd \notin io.readfds /\ s.fd \notin io.writefds
  <2>1. Unlisted(a)
    BY <1>1 DEF SInv
  <2> QED BY <1>1, <2>1 DEF Unlisted
<1>8. reads => s.state # "init"
  BY DEF udp_read, tcp_read, tcp_listen
<1> HIDE DEF t, reads
<1>9. Kept(t)
  BY <1>2, <1>4 DEF Kept, Sends
<1>10. ASSUME NEW i \in 1 .. N  PROVE Kept(socket'[i])
  BY <1>2, <1>5, <1>9 DEF SInv
<1>11. ASSUME NEW i \in 1 .. N  PROVE Unlisted(i)'
  <2> SUFFICES ASSUME io'.pc = "add", i >= io'.at
               PROVE  socket'[i].fd \notin io'.readfds /\ socket'[i].fd \notin io'.writefds
    BY DEF Unlisted
  <2>1. i >= a /\ i # a
    BY <1>1, <1>3
  <2>2. socket[i].fd \notin io.readfds /\ socket[i].fd \notin io.writefds
    BY <1>1, <2>1 DEF SInv, Unlisted
  <2> QED BY <1>3, <1>5, <1>6, <2>1, <2>2
<1>12. ASSUME NEW i \in 1 .. N  PROVE Aimed(i)'
  <2> SUFFICES ASSUME Looked(i)', socket'[i].ok_for_io
               PROVE  /\ socket'[i].fd \in io'.readfds => socket'[i].state # "init"
                      /\ ClosesWhileSending = FALSE /\ socket'[i].fd \in io'.writefds
                           => socket'[i].write_pending
    BY <1>3 DEF Aimed
  <2>1. i <= a
    BY <1>1, <1>3 DEF Looked
  <2>2. CASE i = a
    BY <1>3, <1>4, <1>5, <1>7, <1>8, <2>2
  <2>3. CASE i < a
    <3>1. Looked(i) /\ Aimed(i) /\ i # a
      BY <1>1, <2>3 DEF SInv, Looked
    <3>2. socket'[i] = socket[i]
      BY <1>5, <3>1
    <3> QED BY <1>3, <1>6, <3>1, <3>2 DEF Aimed
  <2>4. i = a \/ i < a
    BY <1>1, <2>1
  <2> QED BY <2>2, <2>3, <2>4
<1>13. io'.pc # "blocked" /\ Empty'
  <2>1. a # N => a + 1 # 1
    BY <1>1
  <2> QED BY <1>3, <2>1 DEF Empty
<1> QED BY <1>10, <1>11, <1>12, <1>13 DEF SInv

\* What is left when the first of the lengths is taken away.
LEMMA LeftIs ==
  ASSUME NEW n \in Nat \ {0}, NEW last \in Int, NEW rr \in Int, NEW length \in Int,
         NEW left \in Int, NEW p \in Int,
         Same(n, length + left, last - rr), Same(n, p, rr + length)
  PROVE  Same(n, left, last - p)
<1>1. PICK q \in Int : length + left = n * q + (last - rr)
  BY DEF Same
<1>2. PICK u \in Int : p = n * u + (rr + length)
  BY DEF Same
<1> DEFINE sum == q + u
           nq == n * q
           nu == n * u
<1>3. n * sum = nq + nu /\ nq \in Int /\ nu \in Int /\ sum \in Int
  <2>1. n * (q + u) = n * q + n * u
    OBVIOUS
  <2>2. n * q \in Int /\ n * u \in Int
    OBVIOUS
  <2> QED BY <2>1, <2>2
<1>4. length + left = nq + (last - rr) /\ p = nu + (rr + length)
  BY <1>1, <1>2
<1> HIDE DEF sum, nq, nu
<1>5. left = n * sum + (last - p)
  BY <1>3, <1>4
<1> QED BY <1>3, <1>5 DEF Same

\* A datagram that is sent leaves the queue, and the read pointer its bytes.
LEMMA UdpWriteSends ==
  ASSUME NEW s, s \in Sock, Sends(s), s.state = "udp", s.fd # Invalid, s.write_pending,
         NEW t \in process_udp_write(s), t # s
  PROVE  Sends(t)
<1> DEFINE q == s.datagrams
           length == Head(q)
           rest == Tail(q)
           p == Advanced(s.tx_rr, length)
<1>1. q # << >> /\ Total(q) % W = (s.last_send - s.tx_rr) % W
  BY DEF Sends
<1>2. /\ s.tx_rr \in Int /\ s.last_send \in Int /\ W \in Nat \ {0} /\ q \in Seq(Nat)
  <2>1. 0 .. W - 1 \subseteq Nat /\ 0 .. W - 1 \subseteq Int
    BY Constants
  <2>2. q \in Seq(0 .. W - 1)
    BY DEF Sock
  <2>3. q \in Seq(Nat)
    <3> HIDE DEF q
    <3> QED BY <2>1, <2>2, SeqMonotonic
  <2> QED BY <2>1, <2>3, Constants DEF Sock
<1>3. /\ length \in Nat /\ rest \in Seq(Nat) /\ Total(q) = length + Total(rest)
      /\ Total(rest) \in Nat
  <2> HIDE DEF q
  <2> QED BY <1>1, <1>2, TotalTail, TotalType
<1>4. rest # << >> <=> Len(q) # 1
  <2> HIDE DEF q
  <2>1. Len(rest) = Len(q) - 1 /\ Len(q) \in Nat
    BY <1>1, <1>2, HeadTailProperties, LenProperties
  <2>2. rest = << >> <=> Len(rest) = 0
    BY <1>3, EmptySeq
  <2> QED BY <2>1, <2>2
<1>5. PICK l \in {length} :
        t = [s EXCEPT !.tx_rr = Advanced(@, l),
                      !.datagrams = IF @ = << >> THEN @ ELSE Tail(@),
                      !.write_pending = Len(s.datagrams) # 1]
  BY <1>1 DEF process_udp_write
<1>6. /\ t.state = "udp" /\ t.fd = s.fd /\ t.last_send = s.last_send
      /\ t.tx_rr = p /\ t.datagrams = rest
      /\ t.write_pending <=> rest # << >>
  BY <1>1, <1>4, <1>5 DEF Sock
<1> DEFINE last == s.last_send
           rr == s.tx_rr
           left == Total(rest)
           sum == rr + length
<1>7. /\ last \in Int /\ rr \in Int /\ length \in Int /\ left \in Int
      /\ last - rr \in Int /\ sum \in Int /\ length + left \in Int
  BY <1>2, <1>3
<1>8. p % W = sum % W /\ p \in Int /\ last - p \in Int
  <2>1. p = sum % W
    BY DEF Advanced
  <2> HIDE DEF sum, p
  <2>2. sum % W \in 0 .. W - 1 /\ (sum % W) % W = sum % W
    BY <1>2, <1>7, ModOfMod
  <2> QED BY <1>2, <1>7, <2>1, <2>2
<1>9. (length + left) % W = (last - rr) % W
  BY <1>1, <1>3
<1> HIDE DEF p, left, length, last, rr
<1>10. Same(W, length + left, last - rr) /\ Same(W, p, rr + length)
  <2>1. Same(W, p, sum)
    <3> HIDE DEF sum
    <3> QED BY <1>2, <1>7, <1>8, SameIs
  <2> QED BY <1>2, <1>7, <1>9, <2>1, SameIs
<1>11. Same(W, left, last - p)
  BY <1>2, <1>7, <1>8, <1>10, LeftIs
<1>14. left % W = (last - p) % W
  BY <1>2, <1>7, <1>8, <1>11, SameIs
<1>15. Total(rest) % W = (s.last_send - p) % W
  BY <1>14 DEF left, last
<1> HIDE DEF rest
<1> QED BY <1>6, <1>15 DEF Sends

LEMMA TcpWriteSends ==
  ASSUME NEW s, s \in Sock, s.state = "established", s.fd # Invalid,
         NEW t \in process_tcp_write(s), t # s
  PROVE  Sends(t)
<1> DEFINE all == (s.tx_wr - s.tx_rr) % W
           to_end == BUF - (s.tx_rr % BUF)
           length == IF all < to_end THEN all ELSE to_end
<1>1. PICK n \in (IF length = 0 THEN {0} ELSE 1 .. length) :
        t = [s EXCEPT !.tx_rr = Advanced(@, n),
                      !.write_pending = Advanced(s.tx_rr, n) # s.tx_wr]
  BY DEF process_tcp_write
<1> HIDE DEF length
<1>2. /\ t.state = "established" /\ t.fd = s.fd /\ t.tx_wr = s.tx_wr
      /\ t.tx_rr = Advanced(s.tx_rr, n)
      /\ t.write_pending <=> Advanced(s.tx_rr, n) # s.tx_wr
  BY <1>1 DEF Sock
<1> QED BY <1>2 DEF Sends

\* What the I/O thread reads was ready when select returned, and is still.
LEMMA NothingBlocks ==
  ASSUME IInv, SInv, io.pc = "process"  PROVE ~Blocks(socket[io.at])
<1>1. io.at \in 1 .. N /\ Looked(io.at)
  <2>1. io.at \in 1 .. N
    BY DEF IInv, IoTyped
  <2>2. io.at >= io.at
    BY <2>1, Constants
  <2> QED BY <2>1, <2>2 DEF Looked
<1>2. Aimed(io.at)
  BY <1>1 DEF SInv
<1> QED BY <1>1, <1>2 DEF Aimed, Blocks, Reads, MayProcess, Readable, Ready

LEMMA ProcessAims == ASSUME IInv, IInv', SInv, process_io  PROVE SInv'
<1> DEFINE a == io.at
           s == socket[a]
<1>1. /\ io.pc = "process" /\ a \in 1 .. N /\ a \in Nat /\ N \in Nat
      /\ DOMAIN socket = 1 .. N /\ ~Blocks(s)
  BY Constants, NothingBlocks DEF process_io, IInv, IoTyped, Tables, SInv
<1>2. /\ Socket(s) /\ s \in Sock /\ Kept(s) /\ Aimed(a)
      /\ s.fd \in Fds \union {Invalid}
      /\ s.fd # Invalid => kernel[s.fd].kind # "free"
  BY <1>1, SocketFacts DEF IInv, SInv
<1>3. io' = Onwards("process", "loop")
  BY <1>1 DEF process_io
<1>4. PICK r \in IF ~Reads(s) THEN {NothingRead(s)}
                 ELSE IF s.state = "listen" THEN process_accept(s)
                 ELSE process_read(s) :
             /\ kernel' = r.k
             /\ \E t \in (IF MayProcess(s) THEN Writing(r.s) ELSE {s}) :
                  socket' = [socket EXCEPT ![a] = t]
  BY <1>1 DEF process_io
<1>5. PICK t \in (IF MayProcess(s) THEN Writing(r.s) ELSE {s}) :
             socket' = [socket EXCEPT ![a] = t]
  BY <1>4
\* What was read.
<1>6. Replaces(s, r.s, kernel, r.k)
  <2>1. CASE ~Reads(s)
    <3>1. r.s = s /\ r.k = kernel
      BY <1>4, <2>1 DEF NothingRead
    <3>2. Opened(s, kernel) /\ Table(kernel)
      BY <1>1, SocketFacts DEF IInv
    <3> QED BY <1>2, <3>1, <3>2, SameFd
  <2>2. CASE Reads(s) /\ s.state = "listen"
    <3>1. r \in process_accept(s) /\ s.ok_for_io
      BY <1>4, <2>2 DEF Reads, MayProcess
    <3> QED BY <1>1, <2>2, <3>1, AcceptKeeps
  <2>3. CASE Reads(s) /\ s.state # "listen"
    <3>1. r \in process_read(s) /\ s.ok_for_io /\ s.fd # Invalid /\ Readable(s.fd)
      BY <1>1, <1>4, <2>3 DEF Reads, MayProcess, Blocks
    <3> QED BY <1>1, <2>3, <3>1, ReadKeeps
  <2> QED BY <2>1, <2>2, <2>3
<1>7. /\ r.s \in Sock /\ Kept(r.s)
      /\ r.s.state = "udp" => r.s.fd = s.fd /\ s.state = "udp" /\ r.s.write_pending = s.write_pending
      /\ r.s.state \in {"udp", "established"} => r.s.fd # Invalid
      /\ ~Reads(s) => r.s = s
  <2>1. Socket(r.s) /\ r.s \in Sock /\ Opened(r.s, r.k)
    BY <1>6 DEF Replaces, Socket
  <2>2. r.s.state \in {"udp", "established"} => r.s.fd # Invalid
    BY <2>1 DEF Opened, Is
  <2>3. CASE r.s = s
    BY <1>2, <2>1, <2>2, <2>3
  <2>4. CASE Reads(s) /\ s.state = "listen" /\ r.s # s
    <3> DEFINE fd == LowestFree(kernel)
    <3>1. r.s = [s EXCEPT !.fd = fd, !.state = "established"]
      BY <1>4, <2>4 DEF process_accept, NothingRead
    <3> HIDE DEF fd
    <3>2. /\ r.s.state = "established" /\ r.s.write_pending = s.write_pending
          /\ r.s.tx_rr = s.tx_rr /\ r.s.tx_wr = s.tx_wr
      BY <1>2, <3>1 DEF Sock
    <3>3. Kept(r.s)
      BY <1>2, <2>2, <2>4, <3>2 DEF Kept, Sends
    <3> QED BY <2>1, <2>2, <2>4, <3>2, <3>3
  <2>5. CASE Reads(s) /\ s.state # "listen" /\ r.s # s
    <3>1. r \in process_read(s) /\ s.fd # Invalid
      BY <1>4, <2>5 DEF Reads, MayProcess
    <3>2. \/ r.s = s
          \/ \E n \in Int : r.s = [s EXCEPT !.rx_rsr = n]
          \/ r.s = [s EXCEPT !.state = "close_wait"]
      <4> DEFINE f == kernel[s.fd]
                 n == IF f.input < Room(s) THEN f.input ELSE Room(s)
      <4>1. /\ s.rx_rsr \in Int /\ Room(s) \in Int /\ HEADER \in Int
            /\ f.input \in Int
        <5>1. s.fd \in Fds /\ Table(kernel)
          BY <1>1, <1>2, <3>1, SocketFacts DEF IInv
        <5>2. f.input \in Int
          BY <5>1, Constants DEF Table, Descriptor
        <5> QED BY <1>2, <5>2, Constants DEF Sock, Room
      <4>2. CASE f.kind = "udp"
        <5>1. PICK size \in 0 .. (Room(s) - HEADER) :
                r.s = [s EXCEPT !.rx_rsr = s.rx_rsr + HEADER + size]
          BY <2>5, <3>1, <4>2 DEF process_read, NothingRead
        <5>2. s.rx_rsr + HEADER + size \in Int
          BY <4>1
        <5> QED BY <5>1, <5>2
      <4>3. CASE f.kind = "connected" /\ n > 0
        <5>1. r.s = [s EXCEPT !.rx_rsr = s.rx_rsr + n]
          BY <2>5, <3>1, <4>3 DEF process_read, NothingRead
        <5>2. s.rx_rsr + n \in Int
          BY <4>1
        <5> QED BY <5>1, <5>2
      <4>4. CASE f.kind = "connected" /\ n = 0
        BY <2>5, <3>1, <4>4 DEF process_read, NothingRead
      <4>5. CASE f.kind # "udp" /\ ~(f.kind = "connected" /\ n > 0)
                 /\ ~(f.kind = "connected" /\ n = 0)
        BY <2>5, <3>1, <4>5 DEF process_read, NothingRead
      <4> QED BY <4>2, <4>3, <4>4, <4>5
    <3>3. /\ r.s.fd = s.fd /\ r.s.state \in {s.state, "close_wait"}
          /\ r.s.write_pending = s.write_pending
          /\ r.s.tx_rr = s.tx_rr /\ r.s.tx_wr = s.tx_wr
          /\ r.s.last_send = s.last_send /\ r.s.datagrams = s.datagrams
      BY <1>2, <3>2 DEF Sock
    <3>4. Kept(r.s)
      BY <1>2, <3>1, <3>3 DEF Kept, Sends
    <3> QED BY <2>1, <2>2, <2>5, <3>3, <3>4
  <2>6. ~Reads(s) => r.s = s
    BY <1>4 DEF NothingRead
  <2> QED BY <2>3, <2>4, <2>5, <2>6
\* What was written.
<1>8. Kept(t)
  <2>1. CASE ~MayProcess(s) \/ t = r.s
    BY <1>2, <1>5, <1>7, <2>1
  <2>2. CASE MayProcess(s) /\ t # r.s
    <3>1. /\ r.s.fd \in io.writefds
          /\ \/ r.s.state = "udp" /\ t \in process_udp_write(r.s)
             \/ r.s.state = "established" /\ t \in process_tcp_write(r.s)
      BY <1>5, <2>2 DEF Writing
    <3>2. CASE r.s.state = "udp" /\ t \in process_udp_write(r.s) /\ t # r.s
      <4>1. ClosesWhileSending = FALSE => s.write_pending
        <5>1. a >= a
          BY <1>1
        <5> QED BY <1>1, <1>2, <1>7, <2>2, <3>1, <3>2, <5>1 DEF Aimed, Looked, MayProcess
      <4> QED BY <1>7, <3>2, <4>1, UdpWriteSends DEF Kept
    <3>3. CASE r.s.state = "established" /\ t \in process_tcp_write(r.s) /\ t # r.s
      BY <1>7, <3>3, TcpWriteSends DEF Kept
    <3> QED BY <2>2, <3>1, <3>2, <3>3
  <2> QED BY <2>1, <2>2
\* The sockets still to come.
<1>9. /\ io'.pc = IF a = N THEN "loop" ELSE "process"
      /\ io'.at = IF a = N THEN 1 ELSE a + 1
      /\ io'.readfds = io.readfds /\ io'.writefds = io.writefds
  BY <1>1, <1>3 DEF Onwards, IInv, IoTyped
<1>10. socket'[a] = t /\ \A i \in 1 .. N : i # a => socket'[i] = socket[i]
  BY <1>1, <1>5
<1>11. ASSUME NEW i \in 1 .. N  PROVE Kept(socket'[i])
  BY <1>8, <1>10 DEF SInv
<1>12. ASSUME NEW i \in 1 .. N  PROVE Unlisted(i)'
  BY <1>9 DEF Unlisted
<1>13. ASSUME NEW i \in 1 .. N  PROVE Aimed(i)'
  <2>1. Looked(i)' => io'.pc = "process" /\ i > a
    BY <1>1, <1>9 DEF Looked
  <2>2. CASE i > a
    <3>1. Looked(i) /\ Aimed(i) /\ i # a
      BY <1>1, <2>2 DEF Looked, SInv
    <3>2. socket'[i] = socket[i]
      BY <1>10, <3>1
    <3>3. socket[i].fd \in io.readfds => kernel'[socket[i].fd] = kernel[socket[i].fd]
      <4> SUFFICES ASSUME socket[i].fd \in io.readfds
                   PROVE  kernel'[socket[i].fd] = kernel[socket[i].fd]
        OBVIOUS
      <4>1. socket[i].fd \in Fds /\ socket[i].fd # Invalid
        BY FdsFacts DEF IInv, IoTyped
      <4>2. socket[i].fd # s.fd /\ kernel[socket[i].fd].kind # "free"
        BY <1>1, <3>1, <4>1 DEF IInv, Tables, Owned
      <4>3. socket[i].fd # r.s.fd
        BY <1>6, <4>1, <4>2 DEF Replaces
      <4> QED BY <1>4, <1>6, <4>1, <4>2, <4>3 DEF Replaces
    <3> QED BY <1>1, <1>9, <2>1, <3>1, <3>2, <3>3 DEF Aimed, Ready
  <2>3. CASE ~(i > a)
    BY <2>1, <2>3 DEF Aimed
  <2> QED BY <2>2, <2>3
<1>14. io'.pc # "blocked" /\ Empty'
  BY <1>9 DEF Empty
<1> QED BY <1>11, <1>12, <1>13, <1>14 DEF SInv

LEMMA AimInit == Init => SInv
<1> SUFFICES ASSUME Init  PROVE SInv
  OBVIOUS
<1>1. io.pc = "loop" /\ \A i \in 1 .. N : /\ socket[i].state = "closed"
                                         /\ socket[i].write_pending = FALSE
  BY DEF Init
<1> QED BY <1>1 DEF SInv, Empty, Kept, Sends, Unlisted, Aimed, Looked

LEMMA AimNext == ASSUME Timely  PROVE IInv /\ SInv /\ [Next]_vars => (IInv /\ SInv)'
<1> SUFFICES ASSUME IInv, SInv, [Next]_vars  PROVE IInv' /\ SInv'
  OBVIOUS
<1>1. IInv'
  BY InvNext
<1>2. ASSUME NEW i \in 1 .. N,
             \/ reset(i) \/ open(i) \/ listen(i) \/ connect(i) \/ discon(i)
             \/ close(i) \/ send(i) \/ recv(i) \/ write_port(i)
      PROVE  SInv'
  BY <1>1, <1>2, ResetAims, OpenAims, ListenAims, ConnectAims, DisconAims, CloseAims,
     SendAims, RecvAims, PortAims
<1>3. CASE Free
  BY <1>1, <1>3, FreeAims
<1>4. CASE End
  BY <1>1, <1>4, EndAims
<1>5. CASE IoLoop \/ SelectStarts
  BY <1>1, <1>5, LoopAims
<1>6. CASE add_to_sets
  BY <1>1, <1>6, AddAims
<1>7. CASE SelectReturns
  BY <1>1, <1>7, ReturnsAims
<1>8. CASE process_io
  BY <1>1, <1>8, ProcessAims
<1>9. ASSUME NEW fd \in Fds, Arrive(fd) \/ PeerCloses(fd)  PROVE SInv'
  BY <1>9, ArriveAims
<1>10. CASE UNCHANGED vars
  BY <1>1, <1>10 DEF vars, SInv, Empty, Unlisted, Aimed, Looked
<1> QED BY <1>1, <1>2, <1>3, <1>4, <1>5, <1>6, <1>7, <1>8, <1>9, <1>10 DEF Next

LEMMA AimAlways == ASSUME Timely  PROVE Spec => []SInv
<1>1. Init => IInv /\ SInv
  BY InvInit, AimInit
<1>2. IInv /\ SInv /\ [Next]_vars => (IInv /\ SInv)'
  BY AimNext
<1> QED BY <1>1, <1>2, PTL DEF Spec

\* If the program closes only what has been sent, and select is called before a
\* descriptor it is to be given is closed and opened by another socket, the
\* lengths in a socket's queue are those of the bytes that are still to be sent,
\* also where the pointers have come round and while datagrams are added by one
\* thread and sent by the other.
THEOREM QueueKept == ASSUME Orderly  PROVE Spec => []QueueAgrees
<1>1. SInv => QueueAgrees
  BY DEF Orderly, SInv, Kept, Sends, QueueAgrees
<1>2. Timely
  BY DEF Orderly
<1>3. Spec => []SInv
  BY <1>2, AimAlways
<1> QED BY <1>1, <1>3, PTL

\* Under the same condition write_pending, which the I/O thread clears and the
\* program waits for, is set for as long as there is something to send.
THEOREM PendingKept == ASSUME Orderly  PROVE Spec => []PendingAgrees
<1>1. SInv => PendingAgrees
  BY DEF Orderly, SInv, Kept, Sends, PendingAgrees
<1>2. Timely
  BY DEF Orderly
<1>3. Spec => []SInv
  BY <1>2, AimAlways
<1> QED BY <1>1, <1>3, PTL

\* The I/O thread never waits in accept() or a read with a socket's lock held, however
\* the program closes: a socket that was closed and opened while select waited is
\* left out, and one that was not is still as readable as select found it.
THEOREM NeverWaits == ASSUME Timely  PROVE Spec => []NeverBlocks
<1>1. SInv => NeverBlocks
  BY DEF SInv, NeverBlocks
<1> QED BY <1>1, AimAlways, PTL

-----------------------------------------------------------------------------
(* What the I/O thread does not sleep over.                                *)

\* The sets that select() is given, or is about to be, have been at socket i.
InSets(i) == (io.pc = "add" /\ i < io.at) \/ io.pc \in {"select", "wait"}

\* What may come for a socket, and there is room for.
Takes(s) == (udp_read(s) /\ s.socket_bound = TRUE) \/ tcp_read(s) \/ tcp_listen(s)

\* Without a descriptor nothing waits; nothing comes for a datagram socket that is
\* not bound.
Settled(s, k) ==
  /\ s.fd = Invalid => /\ s.socket_bound = FALSE
                       /\ ClosesWhileSending = FALSE => s.write_pending = FALSE
  /\ s.state = "udp" /\ s.socket_bound = FALSE => k[s.fd].input = 0

\* The sets know what a socket waits for, or there is a byte in the pipe.
Known(i) ==
  InSets(i) /\ selfpipe = 0 /\ socket[i].fd # Invalid =>
    /\ Connects = FALSE /\ Takes(socket[i]) => socket[i].fd \in io.readfds
    /\ ClosesWhileSending = FALSE /\ socket[i].write_pending = TRUE =>
         socket[i].fd \in io.writefds

\* The thread that is to stop has passed the head of its loop: so with the flag.
Told == stop_io_thread = TRUE /\ io.pc \in {"add", "select", "wait"} => selfpipe > 0

WInv ==
  /\ Told
  /\ \A i \in 1 .. N : Settled(socket[i], kernel)
  /\ \A i \in 1 .. N : Known(i)

\* A socket waits for no more than before, on the descriptor it had.
NoMore(s, t) ==
  /\ Connects = FALSE /\ Takes(t) => t.fd = s.fd /\ Takes(s)
  /\ ClosesWhileSending = FALSE /\ t.write_pending = TRUE =>
       t.fd = s.fd /\ s.write_pending = TRUE

\* What happens to one socket does not disturb what nothing waits for elsewhere.
LEMMA AllSettled ==
  ASSUME IInv, IInv', WInv, NEW i \in 1 .. N, NEW t,
         socket' = [socket EXCEPT ![i] = t],
         \A fd \in Fds : fd # socket[i].fd /\ fd # t.fd => kernel'[fd] = kernel[fd],
         Settled(t, kernel')
  PROVE  \A j \in 1 .. N : Settled(socket'[j], kernel')
<1>1. socket'[i] = t /\ \A j \in 1 .. N : j # i => socket'[j] = socket[j]
  BY DEF IInv, Tables
<1> SUFFICES ASSUME NEW j \in 1 .. N, j # i  PROVE Settled(socket'[j], kernel')
  BY <1>1
<1>2. socket'[j] = socket[j] /\ Settled(socket[j], kernel)
  BY <1>1 DEF WInv
<1>3. ASSUME socket[j].state = "udp"  PROVE kernel'[socket[j].fd] = kernel[socket[j].fd]
  <2>1. socket[j].fd \in Fds /\ socket[j].fd # Invalid
    BY <1>3, SocketFacts DEF IInv, Opened, Is
  <2>2. socket[j].fd # socket[i].fd
    BY <2>1 DEF IInv, Tables, Owned
  <2>3. socket'[j].fd # socket'[i].fd
    BY <1>2, <2>1 DEF IInv, Tables, Owned
  <2> QED BY <1>1, <1>2, <2>1, <2>2, <2>3
<1> QED BY <1>2, <1>3 DEF Settled

\* The emulator's thread gives a socket more to wait for only with a byte for the pipe.
LEMMA WakeStep ==
  ASSUME IInv, IInv', WInv, NEW i \in 1 .. N, NEW t,
         socket' = [socket EXCEPT ![i] = t], UNCHANGED <<stop_io_thread, io>>,
         Wake \/ (UNCHANGED selfpipe /\ NoMore(socket[i], t)),
         \A fd \in Fds : fd # socket[i].fd /\ fd # t.fd => kernel'[fd] = kernel[fd],
         Settled(t, kernel')
  PROVE  WInv'
<1>1. DOMAIN socket = 1 .. N /\ selfpipe \in Nat
  BY DEF IInv, Tables, Pipe
<1>2. socket'[i] = t /\ \A j \in 1 .. N : j # i => socket'[j] = socket[j]
  BY <1>1
<1>3. io' = io /\ io'.pc = io.pc /\ stop_io_thread' = stop_io_thread
  OBVIOUS
<1>4. (selfpipe' = selfpipe /\ NoMore(socket[i], t)) \/ selfpipe' > 0
  BY <1>1 DEF Wake
<1>5. Told'
  BY <1>1, <1>3, <1>4 DEF WInv, Told
<1>6. \A j \in 1 .. N : Settled(socket'[j], kernel')
  BY AllSettled
<1>7. ASSUME NEW j \in 1 .. N  PROVE Known(j)'
  <2>1. InSets(j)' <=> InSets(j)
    BY <1>3 DEF InSets
  <2>2. Known(j) /\ Known(i)
    BY DEF WInv
  <2>3. CASE j # i
    BY <1>2, <1>3, <1>4, <2>1, <2>2, <2>3 DEF Known
  <2>4. CASE j = i
    BY <1>2, <1>3, <1>4, <2>1, <2>2, <2>4 DEF Known, NoMore
  <2> QED BY <2>3, <2>4
<1> QED BY <1>5, <1>6, <1>7 DEF WInv

\* What clean leaves of a closed socket.
LEMMA CleanSettled ==
  ASSUME NEW s, NEW k, Socket(s), Settled(s, k), s.state = "closed"
  PROVE  /\ clean(s).fd = Invalid /\ clean(s).state = "closed" /\ clean(s) \in Sock
         /\ clean(s).socket_bound = FALSE
         /\ ClosesWhileSending = FALSE => clean(s).write_pending = FALSE
<1>1. Socket(clean(s)) /\ clean(s).fd = Invalid /\ clean(s).state = s.state
  BY CleanIs
<1> DEFINE wiped == [s EXCEPT !.tx_rr = 0, !.tx_wr = 0, !.rx_rsr = 0, !.last_send = 0,
                              !.datagrams = << >>]
<1>2. /\ wiped.socket_bound = s.socket_bound /\ wiped.write_pending = s.write_pending
      /\ wiped.fd = s.fd
  BY DEF Socket, Sock
<1>3. clean(s) = IF s.fd = Invalid THEN wiped ELSE init_common(wiped)
  BY DEF clean
<1> HIDE DEF wiped
<1>4. CASE s.fd = Invalid
  BY <1>1, <1>2, <1>3, <1>4 DEF Settled, Socket
<1>5. CASE s.fd # Invalid
  <2>1. DOMAIN wiped = DOMAIN s /\ {"socket_bound", "write_pending"} \subseteq DOMAIN s
    BY DEF wiped, Socket, Sock
  <2> QED BY <1>1, <1>3, <1>5, <2>1 DEF init_common, Socket
<1> QED BY <1>4, <1>5

\* A closed socket waits for nothing to come.
LEMMA ClosedTakes ==
  ASSUME NEW s, s.state \notin {"udp", "established", "listen"}  PROVE ~Takes(s)
BY DEF Takes, udp_read, tcp_read, tcp_listen

LEMMA ResetWakes == ASSUME IInv, IInv', WInv, NEW i \in 1 .. N, reset(i)  PROVE WInv'
<1> DEFINE s == socket[i]
           c == [s EXCEPT !.state = "closed"]
           t == clean(c)
<1>1. /\ Socket(s) /\ s \in Sock /\ Table(kernel) /\ s.fd \in Fds \union {Invalid}
      /\ Settled(s, kernel)
  BY SocketFacts DEF IInv, WInv
<1>2. Socket(c) /\ c.state = "closed" /\ Settled(c, kernel)
  BY <1>1 DEF Socket, Sock, States, Fresh, Settled
<1>3. /\ kernel' = Closed(kernel, s.fd) /\ socket' = [socket EXCEPT ![i] = t]
      /\ UNCHANGED <<stop_io_thread, io, selfpipe>>
  BY DEF reset
<1>4. \A fd \in Fds : fd # s.fd => kernel'[fd] = kernel[fd]
  BY <1>1, <1>3, ClosedIs
<1> HIDE DEF c
<1>5. /\ t.fd = Invalid /\ t.state = "closed" /\ t.socket_bound = FALSE
      /\ ClosesWhileSending = FALSE => t.write_pending = FALSE
  BY <1>2, CleanSettled
<1> HIDE DEF t
<1>6. NoMore(s, t) /\ Settled(t, kernel')
  BY <1>5, ClosedTakes DEF NoMore, Settled
<1> QED BY <1>3, <1>4, <1>6, WakeStep

LEMMA OpenWakes == ASSUME IInv, IInv', WInv, NEW i \in 1 .. N, open(i)  PROVE WInv'
<1> DEFINE s == socket[i]
           k == Closed(kernel, s.fd)
           fd == LowestFree(k)
           c == clean(s)
<1>1. /\ Socket(s) /\ Table(kernel) /\ s.fd \in Fds \union {Invalid} /\ s.state = "closed"
      /\ Settled(s, kernel) /\ Opened(s, kernel) /\ Tables(socket, kernel)
  BY SocketFacts DEF IInv, WInv, open
<1>2. /\ c.fd = Invalid /\ c.state = "closed" /\ c \in Sock /\ c.socket_bound = FALSE
      /\ ClosesWhileSending = FALSE => c.write_pending = FALSE
  BY <1>1, CleanSettled
<1>3. \A other \in Fds : other # s.fd => k[other] = kernel[other]
  BY <1>1, ClosedIs
<1>4. UNCHANGED <<stop_io_thread, io, selfpipe>>
  BY DEF open
<1>5. ASSUME NEW tcp \in BOOLEAN,
             kernel' = [k EXCEPT ![fd] = File(IF tcp THEN "stream" ELSE "udp")],
             socket' = [socket EXCEPT ![i] =
                  [c EXCEPT !.fd = fd, !.state = IF tcp THEN "init" ELSE "udp"]]
      PROVE  WInv'
  <2> DEFINE t == [c EXCEPT !.fd = fd, !.state = IF tcp THEN "init" ELSE "udp"]
  <2>0. fd \in Fds /\ DOMAIN k = Fds
    <3>1. /\ Table(k)
          /\ s.fd # Invalid => k[s.fd].kind = "free"
          /\ \E other \in Fds : kernel[other].kind = "free"
      BY <1>1, ClosedIs, OneFree
    <3> HIDE DEF k
    <3>2. \E other \in Fds : k[other].kind = "free"
      BY <1>1, <1>3, <3>1, FdsFacts
    <3> QED BY <3>1, <3>2, LowestIsFree DEF Table
  <2> HIDE DEF c, k, fd
  <2>1. /\ t.fd = fd /\ t.socket_bound = FALSE /\ t.state \in {"init", "udp"}
        /\ ClosesWhileSending = FALSE => t.write_pending = FALSE
    BY <1>2 DEF Sock
  <2>2. socket' = [socket EXCEPT ![i] = t]
    BY <1>5
  <2> HIDE DEF t
  <2>3. NoMore(s, t)
    BY <2>1 DEF NoMore, Takes, udp_read, tcp_read, tcp_listen
  <2>4. \A other \in Fds : other # s.fd /\ other # t.fd => kernel'[other] = kernel[other]
    BY <1>3, <1>5, <2>1
  <2>5. kernel'[fd].input = 0
    BY <1>5, <2>0 DEF File
  <2>6. Settled(t, kernel')
    BY <2>0, <2>1, <2>5, FdsFacts DEF Settled
  <2> QED BY <1>4, <2>2, <2>3, <2>4, <2>6, WakeStep
<1>6. ASSUME kernel' = k, socket' = [socket EXCEPT ![i] = c]  PROVE WInv'
  <2> HIDE DEF k, c
  <2>1. NoMore(s, c) /\ Settled(c, kernel')
    BY <1>2, ClosedTakes DEF NoMore, Settled
  <2> QED BY <1>2, <1>3, <1>4, <1>6, <2>1, WakeStep
<1> QED BY <1>5, <1>6 DEF open

\* A bind that fails closes the socket; else it is bound.
LEMMA BoundSettled ==
  ASSUME NEW s, Socket(s), s.fd # Invalid, NEW b \in Bound(s)
  PROVE  /\ b \in Sock /\ b.fd = s.fd /\ b.write_pending = s.write_pending
         /\ b.rx_rsr = s.rx_rsr
         /\ (b.state = s.state /\ b.socket_bound = TRUE) \/ b.state = "closed"
<1>1. \/ b = s /\ s.socket_bound = TRUE
      \/ b = [s EXCEPT !.socket_bound = TRUE]
      \/ b = [s EXCEPT !.state = "closed"]
  BY DEF Bound, Socket, Sock
<1> QED BY <1>1 DEF Socket, Sock, States

LEMMA ListenWakes == ASSUME IInv, IInv', WInv, NEW i \in 1 .. N, listen(i)  PROVE WInv'
<1> DEFINE s == socket[i]
<1>1. /\ Socket(s) /\ s.state = "init" /\ s.fd \in Fds /\ s.fd # Invalid /\ DOMAIN kernel = Fds
      /\ UNCHANGED <<stop_io_thread, io>>
  BY SocketFacts DEF IInv, Opened, Is, listen, Table
<1>2. PICK b \in Bound(s) :
        \/ /\ b.state = "init"
           /\ socket' = [socket EXCEPT ![i] = [b EXCEPT !.state = "listen"]]
           /\ kernel' = [kernel EXCEPT ![b.fd] = File("listening")]
           /\ Wake
        \/ /\ socket' = [socket EXCEPT ![i] = b]
           /\ UNCHANGED <<selfpipe, kernel>>
  BY DEF listen
<1>3. /\ b \in Sock /\ b.fd = s.fd /\ b.write_pending = s.write_pending
      /\ b.state \in {"init", "closed"}
  BY <1>1, BoundSettled
<1>4. CASE /\ socket' = [socket EXCEPT ![i] = [b EXCEPT !.state = "listen"]]
           /\ kernel' = [kernel EXCEPT ![b.fd] = File("listening")]
           /\ Wake
  <2> DEFINE t == [b EXCEPT !.state = "listen"]
  <2>1. t.fd = s.fd /\ t.state = "listen"
    BY <1>3 DEF Sock
  <2>2. \A fd \in Fds : fd # s.fd => kernel'[fd] = kernel[fd]
    BY <1>3, <1>4
  <2> HIDE DEF t
  <2>3. Settled(t, kernel')
    BY <1>1, <2>1 DEF Settled
  <2>4. socket' = [socket EXCEPT ![i] = t]
    BY <1>4 DEF t
  <2> QED BY <1>1, <1>4, <2>1, <2>2, <2>3, <2>4, WakeStep
<1>5. CASE socket' = [socket EXCEPT ![i] = b] /\ UNCHANGED <<selfpipe, kernel>>
  <2>1. NoMore(s, b) /\ Settled(b, kernel')
    BY <1>1, <1>3, ClosedTakes DEF NoMore, Settled
  <2> QED BY <1>1, <1>5, <2>1, WakeStep
<1> QED BY <1>2, <1>4, <1>5

LEMMA ConnectWakes == ASSUME IInv, IInv', WInv, NEW i \in 1 .. N, connect(i)  PROVE WInv'
<1> DEFINE s == socket[i]
<1>1. /\ Socket(s) /\ s.state = "init" /\ s.fd \in Fds /\ s.fd # Invalid /\ DOMAIN kernel = Fds
      /\ UNCHANGED <<stop_io_thread, io, selfpipe>> /\ Connects
  BY SocketFacts DEF IInv, Opened, Is, connect, Table
<1>2. PICK b \in Bound(s) :
        \/ /\ b.state = "init"
           /\ socket' = [socket EXCEPT ![i] = [b EXCEPT !.state = "established"]]
           /\ kernel' = [kernel EXCEPT ![b.fd] = File("connected")]
        \/ /\ socket' = [socket EXCEPT ![i] = [b EXCEPT !.state = "closed"]]
           /\ UNCHANGED kernel
  BY DEF connect
<1>3. b \in Sock /\ b.fd = s.fd /\ b.write_pending = s.write_pending
  BY <1>1, BoundSettled
<1>4. ASSUME NEW state \in {"established", "closed"},
             socket' = [socket EXCEPT ![i] = [b EXCEPT !.state = state]],
             \A fd \in Fds : fd # s.fd => kernel'[fd] = kernel[fd]
      PROVE  WInv'
  <2> DEFINE t == [b EXCEPT !.state = state]
  <2>1. t.fd = s.fd /\ t.state = state /\ t.write_pending = s.write_pending
    BY <1>3 DEF Sock
  <2> HIDE DEF t
  <2>2. Settled(t, kernel')
    BY <1>1, <1>4, <2>1 DEF Settled
  <2>3. NoMore(s, t)
    BY <1>1, <2>1 DEF NoMore
  <2>4. socket' = [socket EXCEPT ![i] = t]
    BY <1>4 DEF t
  <2> QED BY <1>1, <1>4, <2>1, <2>2, <2>3, <2>4, WakeStep
<1>5. CASE /\ socket' = [socket EXCEPT ![i] = [b EXCEPT !.state = "established"]]
           /\ kernel' = [kernel EXCEPT ![b.fd] = File("connected")]
  BY <1>3, <1>4, <1>5
<1>6. CASE /\ socket' = [socket EXCEPT ![i] = [b EXCEPT !.state = "closed"]]
           /\ UNCHANGED kernel
  BY <1>4, <1>6
<1> QED BY <1>2, <1>5, <1>6

LEMMA DisconWakes == ASSUME IInv, IInv', WInv, NEW i \in 1 .. N, discon(i)  PROVE WInv'
<1> DEFINE s == socket[i]
           t == [s EXCEPT !.state = "closed"]
<1>1. s \in Sock /\ s.fd # Invalid /\ s.state \in {"established", "close_wait"}
  BY SocketFacts DEF IInv, Opened, Is, discon
<1>2. t.fd = s.fd /\ t.state = "closed"
  BY <1>1 DEF Sock
<1>3. /\ socket' = [socket EXCEPT ![i] = t] /\ Wake /\ UNCHANGED <<stop_io_thread, io>>
      /\ \A fd \in Fds : kernel'[fd] = kernel[fd]
  BY DEF discon
<1> HIDE DEF t
<1>4. Settled(t, kernel')
  BY <1>1, <1>2 DEF Settled
<1> QED BY <1>3, <1>4, WakeStep

LEMMA CloseWakes == ASSUME IInv, IInv', WInv, NEW i \in 1 .. N, close(i)  PROVE WInv'
<1> DEFINE s == socket[i]
           t == [s EXCEPT !.fd = Invalid, !.socket_bound = FALSE, !.ok_for_io = FALSE,
                          !.state = "closed"]
<1>1. s \in Sock /\ s.fd \in Fds \union {Invalid} /\ Table(kernel)
  BY SocketFacts DEF IInv
<1>2. /\ socket' = [socket EXCEPT ![i] = t] /\ kernel' = Closed(kernel, s.fd)
      /\ Wake /\ UNCHANGED <<stop_io_thread, io>>
      /\ ClosesWhileSending = FALSE => s.write_pending = FALSE
  BY <1>1 DEF close, Sock
<1>3. /\ t.fd = Invalid /\ t.state = "closed" /\ t.socket_bound = FALSE
      /\ t.write_pending = s.write_pending
  BY <1>1 DEF Sock
<1>4. \A fd \in Fds : fd # s.fd => kernel'[fd] = kernel[fd]
  BY <1>1, <1>2, ClosedIs
<1> HIDE DEF t
<1>5. Settled(t, kernel')
  BY <1>2, <1>3 DEF Settled
<1> QED BY <1>2, <1>4, <1>5, WakeStep

LEMMA SendWakes == ASSUME IInv, IInv', WInv, NEW i \in 1 .. N, send(i)  PROVE WInv'
<1> DEFINE s == socket[i]
<1>1. /\ Socket(s) /\ s \in Sock /\ s.state \in {"udp", "established"} /\ s.fd # Invalid
      /\ UNCHANGED <<stop_io_thread, io, kernel>>
  BY SocketFacts DEF IInv, send, Opened, Is
<1>2. PICK n \in Outgoing(s) :
       \/ /\ s.state = "udp"
          /\ \E b \in Bound(s) :
               \/ /\ b.state = "udp"
                  /\ socket' = [socket EXCEPT ![i] = Queued(b, n)]
                  /\ Wake
               \/ /\ b.state = "closed"
                  /\ socket' = [socket EXCEPT ![i] = [b EXCEPT !.tx_wr = Advanced(@, n)]]
                  /\ UNCHANGED selfpipe
       \/ /\ s.state = "established"
          /\ socket' = [socket EXCEPT ![i] =
               [s EXCEPT !.tx_wr = Advanced(@, n), !.write_pending = TRUE]]
          /\ Wake
  BY DEF send
<1>3. ASSUME NEW t, socket' = [socket EXCEPT ![i] = t], t.fd = s.fd,
             t.state = "udp" => t.socket_bound = TRUE,
             Wake \/ (UNCHANGED selfpipe /\ NoMore(s, t))
      PROVE  WInv'
  <2>1. Settled(t, kernel')
    BY <1>1, <1>3 DEF Settled
  <2> QED BY <1>1, <1>3, <2>1, WakeStep
<1>4. ASSUME NEW b \in Bound(s), b.state = "udp", Wake,
             socket' = [socket EXCEPT ![i] = Queued(b, n)]
      PROVE  WInv'
  <2>1. b \in Sock /\ b.fd = s.fd /\ b.socket_bound = TRUE
    BY <1>1, <1>4, BoundSettled
  <2>2. Queued(b, n).fd = s.fd /\ Queued(b, n).socket_bound = TRUE
    BY <2>1 DEF Queued, Sock
  <2> QED BY <1>3, <1>4, <2>2
<1>5. ASSUME NEW b \in Bound(s), b.state = "closed", UNCHANGED selfpipe,
             socket' = [socket EXCEPT ![i] = [b EXCEPT !.tx_wr = Advanced(@, n)]]
      PROVE  WInv'
  <2> DEFINE t == [b EXCEPT !.tx_wr = Advanced(@, n)]
  <2>1. b \in Sock /\ b.fd = s.fd /\ b.write_pending = s.write_pending
    BY <1>1, <1>5, BoundSettled
  <2>2. t.fd = s.fd /\ t.state = "closed" /\ t.write_pending = s.write_pending
    BY <1>5, <2>1 DEF Sock
  <2>3. socket' = [socket EXCEPT ![i] = t]
    BY <1>5
  <2> HIDE DEF t
  <2>4. NoMore(s, t)
    BY <2>2, ClosedTakes DEF NoMore
  <2> QED BY <1>3, <1>5, <2>2, <2>3, <2>4
<1>6. CASE /\ s.state = "established" /\ Wake
           /\ socket' = [socket EXCEPT ![i] =
                [s EXCEPT !.tx_wr = Advanced(@, n), !.write_pending = TRUE]]
  <2> DEFINE t == [s EXCEPT !.tx_wr = Advanced(@, n), !.write_pending = TRUE]
  <2>1. t.fd = s.fd /\ t.state = "established"
    BY <1>1, <1>6 DEF Sock
  <2>2. socket' = [socket EXCEPT ![i] = t]
    BY <1>6
  <2> HIDE DEF t
  <2> QED BY <1>3, <1>6, <2>1, <2>2
<1> QED BY <1>2, <1>4, <1>5, <1>6, Zenon

LEMMA RecvWakes == ASSUME IInv, IInv', WInv, NEW i \in 1 .. N, recv(i)  PROVE WInv'
<1> DEFINE s == socket[i]
<1>1. s \in Sock /\ s.fd # Invalid /\ Settled(s, kernel)
  BY SocketFacts DEF IInv, Opened, Is, recv, WInv
<1>2. PICK n \in 1 .. s.rx_rsr : socket' = [socket EXCEPT ![i].rx_rsr = @ - n]
  BY DEF recv
<1> DEFINE t == [s EXCEPT !.rx_rsr = s.rx_rsr - n]
<1>3. socket' = [socket EXCEPT ![i] = t] /\ Wake /\ UNCHANGED <<stop_io_thread, io, kernel>>
  BY <1>2 DEF recv
<1>4. t.fd = s.fd /\ t.state = s.state /\ t.socket_bound = s.socket_bound
  BY <1>1 DEF Sock
<1> HIDE DEF t
<1>5. Settled(t, kernel')
  BY <1>1, <1>3, <1>4 DEF Settled
<1> QED BY <1>3, <1>5, WakeStep

LEMMA PortWakes == ASSUME IInv, IInv', WInv, NEW i \in 1 .. N, write_port(i)  PROVE WInv'
<1> DEFINE s == socket[i]
<1>1. /\ Socket(s) /\ s \in Sock /\ s.fd # Invalid /\ s.socket_bound = FALSE
      /\ UNCHANGED <<stop_io_thread, io, kernel>>
  BY SocketFacts DEF IInv, Opened, Is, write_port, Sock
<1>2. PICK b \in Bound(s) : /\ socket' = [socket EXCEPT ![i] = b]
                            /\ IF b.socket_bound THEN Wake ELSE UNCHANGED selfpipe
  BY DEF write_port
<1>3. /\ b \in Sock /\ b.fd = s.fd /\ b.write_pending = s.write_pending
      /\ b.socket_bound = TRUE \/ b.state = "closed"
  BY <1>1, BoundSettled
<1>4. Settled(b, kernel')
  BY <1>1, <1>3 DEF Settled
<1>5. Wake \/ (UNCHANGED selfpipe /\ NoMore(s, b))
  BY <1>2, <1>3, ClosedTakes DEF NoMore
<1> QED BY <1>1, <1>2, <1>4, <1>5, WakeStep

-----------------------------------------------------------------------------
(* The user, the network and the I/O thread.                               *)

LEMMA FreeWakes == ASSUME IInv, WInv, Free  PROVE WInv'
<1>1. selfpipe' = selfpipe + 1 /\ selfpipe \in Nat /\ UNCHANGED <<socket, io, kernel>>
  BY DEF Free, free, IInv, Pipe
<1>2. selfpipe' > 0 /\ selfpipe' # 0
  BY <1>1
<1>3. Told' /\ \A i \in 1 .. N : Known(i)'
  BY <1>2 DEF Told, Known
<1> QED BY <1>1, <1>3 DEF WInv

LEMMA EndWakes == ASSUME IInv, WInv, End  PROVE WInv'
<1> DEFINE t(i) == clean([socket[i] EXCEPT !.state = "closed"])
<1>1. /\ io.pc = "ended" /\ UNCHANGED <<stop_io_thread, io, selfpipe>>
      /\ socket' = [i \in 1 .. N |-> t(i)]
  BY DEF End
<1>2. ASSUME NEW i \in 1 .. N  PROVE Settled(t(i), kernel')
  <2> DEFINE s == socket[i]
             c == [s EXCEPT !.state = "closed"]
  <2>1. Socket(s) /\ s \in Sock /\ Settled(s, kernel)
    BY SocketFacts DEF IInv, WInv
  <2>2. Socket(c) /\ c.state = "closed" /\ Settled(c, kernel)
    BY <2>1 DEF Socket, Sock, States, Fresh, Settled
  <2> HIDE DEF c
  <2>3. Settled(clean(c), kernel')
    BY <2>2, CleanSettled DEF Settled
  <2> QED BY <2>3 DEF c
<1> HIDE DEF t
<1>3. Told' /\ \A i \in 1 .. N : Known(i)' /\ Settled(socket'[i], kernel')
  BY <1>1, <1>2 DEF Told, Known, InSets
<1> QED BY <1>3 DEF WInv

LEMMA ArriveWakes ==
  ASSUME IInv, WInv, NEW fd \in Fds, Arrive(fd) \/ PeerCloses(fd)  PROVE WInv'
<1>1. UNCHANGED <<socket, stop_io_thread, io, selfpipe>> /\ Table(kernel)
  BY DEF Arrive, PeerCloses, IInv, Tables
<1>2. ASSUME NEW i \in 1 .. N  PROVE Settled(socket[i], kernel')
  <2> SUFFICES ASSUME socket[i].state = "udp", socket[i].socket_bound = FALSE
               PROVE  kernel'[socket[i].fd].input = 0
    BY DEF WInv, Settled
  <2>1. /\ socket[i].fd \in Fds /\ socket[i].fd # Invalid
        /\ kernel[socket[i].fd].kind = "udp" /\ kernel[socket[i].fd].input = 0
    BY SocketFacts DEF IInv, Opened, Is, WInv, Settled
  <2>2. CASE PeerCloses(fd)
    BY <1>1, <2>1, <2>2 DEF PeerCloses, Table, Descriptor
  <2>3. CASE Arrive(fd)
    <3>1. fd # socket[i].fd
      BY <2>1, <2>3 DEF Arrive, IInv, Tables, Owned
    <3>2. kernel' = [kernel EXCEPT ![fd].input = @ + 1] /\ DOMAIN kernel = Fds
      BY <1>1, <2>3 DEF Arrive, Table
    <3> QED BY <2>1, <3>1, <3>2
  <2> QED BY <2>2, <2>3
<1>3. Told' /\ \A i \in 1 .. N : Known(i)'
  BY <1>1 DEF WInv, Told, Known, InSets
<1> QED BY <1>1, <1>2, <1>3 DEF WInv

LEMMA LoopWakes ==
  ASSUME IInv, WInv, IoLoop \/ SelectStarts \/ SelectReturns  PROVE WInv'
<1>1. UNCHANGED <<socket, stop_io_thread, kernel>> /\ DOMAIN io = {"pc", "at", "readfds", "writefds"}
  BY DEF IoLoop, SelectStarts, SelectReturns, IInv, IoTyped
<1>2. CASE IoLoop
  <2>1. /\ io'.pc = IF stop_io_thread THEN "ended" ELSE "add"
        /\ io'.at = 1 /\ stop_io_thread \in BOOLEAN
    BY <1>2 DEF IoLoop, IInv, Pipe
  <2>2. Told'
    BY <1>1, <2>1 DEF Told
  <2>3. ASSUME NEW i \in 1 .. N  PROVE ~InSets(i)'
    BY <2>1 DEF InSets
  <2> QED BY <1>1, <2>2, <2>3 DEF WInv, Known
<1>3. CASE SelectStarts
  <2>1. /\ io.pc = "select" /\ io'.pc \in {"loop", "wait"} /\ selfpipe' = selfpipe
        /\ io'.readfds = io.readfds /\ io'.writefds = io.writefds
    BY <1>1, <1>3 DEF SelectStarts
  <2>2. Told'
    BY <1>1, <2>1 DEF WInv, Told
  <2>3. ASSUME NEW i \in 1 .. N  PROVE Known(i)'
    BY <1>1, <2>1 DEF WInv, Known, InSets
  <2> QED BY <1>1, <2>2, <2>3 DEF WInv
<1>4. CASE SelectReturns
  <2>1. io'.pc = "process"
    BY <1>1, <1>4 DEF SelectReturns
  <2> QED BY <1>1, <2>1 DEF WInv, Told, Known, InSets
<1> QED BY <1>2, <1>3, <1>4

LEMMA AddWakes == ASSUME IInv, WInv, add_to_sets  PROVE WInv'
<1> DEFINE a == io.at
           s == socket[a]
<1>1. /\ io.pc = "add" /\ a \in 1 .. N /\ a \in Nat /\ N \in Nat /\ s \in Sock
      /\ UNCHANGED <<stop_io_thread, selfpipe, kernel>> /\ DOMAIN socket = 1 .. N
      /\ DOMAIN io = {"pc", "at", "readfds", "writefds"}
  BY Constants, SocketFacts DEF add_to_sets, IInv, IoTyped, Tables
<1>2. /\ Onwards("add", "select").pc = IF a = N THEN "select" ELSE "add"
      /\ Onwards("add", "select").at = IF a = N THEN 1 ELSE a + 1
      /\ Onwards("add", "select").readfds = io.readfds
      /\ Onwards("add", "select").writefds = io.writefds
      /\ DOMAIN Onwards("add", "select") = {"pc", "at", "readfds", "writefds"}
  BY <1>1 DEF Onwards
<1>3. /\ \/ s.fd = Invalid /\ UNCHANGED socket
         \/ socket' = [socket EXCEPT ![a].ok_for_io = TRUE]
      /\ io'.pc = IF a = N THEN "select" ELSE "add"
      /\ io'.at = IF a = N THEN 1 ELSE a + 1
      /\ io.readfds \subseteq io'.readfds /\ io.writefds \subseteq io'.writefds
      /\ s.fd # Invalid => /\ udp_read(s) \/ tcp_read(s) \/ tcp_listen(s) => s.fd \in io'.readfds
                           /\ s.write_pending = TRUE => s.fd \in io'.writefds
  <2>1. CASE s.fd = Invalid
    BY <1>2, <2>1 DEF add_to_sets
  <2>2. CASE s.fd # Invalid
    <3>1. io' = [Onwards("add", "select") EXCEPT
                  !.readfds = IF udp_read(s) \/ tcp_read(s) \/ tcp_listen(s)
                              THEN @ \union {s.fd} ELSE @,
                  !.writefds = IF s.write_pending THEN @ \union {s.fd} ELSE @]
      BY <2>2 DEF add_to_sets
    <3>2. /\ io'.pc = Onwards("add", "select").pc /\ io'.at = Onwards("add", "select").at
          /\ io'.readfds = IF udp_read(s) \/ tcp_read(s) \/ tcp_listen(s)
                           THEN io.readfds \union {s.fd} ELSE io.readfds
          /\ io'.writefds = IF s.write_pending THEN io.writefds \union {s.fd} ELSE io.writefds
      BY <1>2, <3>1
    <3>3. socket' = [socket EXCEPT ![a].ok_for_io = TRUE]
      BY <2>2 DEF add_to_sets
    <3>4. io.readfds \subseteq io'.readfds /\ io.writefds \subseteq io'.writefds
      BY <3>2
    <3>5. udp_read(s) \/ tcp_read(s) \/ tcp_listen(s) => s.fd \in io'.readfds
      BY <3>2
    <3>6. s.write_pending = TRUE => s.fd \in io'.writefds
      BY <3>2
    <3> QED BY <1>2, <3>2, <3>3, <3>4, <3>5, <3>6
  <2> QED BY <2>1, <2>2
<1>4. ASSUME NEW i \in 1 .. N
      PROVE  /\ i # a => socket'[i] = socket[i]
             /\ socket'[i].fd = socket[i].fd /\ socket'[i].state = socket[i].state
             /\ socket'[i].socket_bound = socket[i].socket_bound
             /\ socket'[i].write_pending = socket[i].write_pending
             /\ socket'[i].rx_rsr = socket[i].rx_rsr
  BY <1>1, <1>3 DEF Sock
<1>5. ASSUME NEW i \in 1 .. N  PROVE Settled(socket'[i], kernel')
  BY <1>1, <1>4 DEF WInv, Settled
<1>6. ASSUME NEW i \in 1 .. N  PROVE Known(i)'
  <2>1. Takes(socket'[i]) <=> Takes(socket[i])
    BY <1>4 DEF Takes, udp_read, tcp_read, tcp_listen, Room
  <2>2. InSets(i)' => i < a \/ i = a
    BY <1>1, <1>3 DEF InSets
  <2>3. CASE i < a
    <3>1. Known(i) /\ InSets(i)
      BY <1>1, <2>3 DEF WInv, InSets
    <3> QED BY <1>1, <1>3, <1>4, <2>1, <3>1 DEF Known
  <2>4. CASE i = a
    BY <1>1, <1>3, <1>4, <2>1, <2>4 DEF Known, Takes
  <2> QED BY <2>2, <2>3, <2>4 DEF Known
<1>7. Told'
  BY <1>1, <1>3 DEF WInv, Told
<1> QED BY <1>5, <1>6, <1>7 DEF WInv

\* What the I/O thread does to a socket neither binds it nor makes it another.
LEMMA WritingBound ==
  ASSUME NEW s, Socket(s), NEW t \in Writing(s)
  PROVE  t.fd = s.fd /\ t.state = s.state /\ t.socket_bound = s.socket_bound
<1>1. s \in Sock /\ t.fd = s.fd /\ t.state = s.state
  BY WritingKeeps DEF Socket
<1>2. CASE t = s
  BY <1>2
<1>3. CASE t \in process_udp_write(s) /\ t # s
  BY <1>1, <1>3 DEF process_udp_write, Sock
<1>4. CASE t \in process_tcp_write(s) /\ t # s
  BY <1>1, <1>4 DEF process_tcp_write, Sock
<1> QED BY <1>1, <1>2, <1>3, <1>4 DEF Writing

LEMMA ReadBound ==
  ASSUME NEW s \in Sock, NEW r \in process_read(s)
  PROVE  /\ r.s.fd = s.fd /\ r.s.socket_bound = s.socket_bound
         /\ r.s.state \in {s.state, "close_wait"}
<1> DEFINE k == kernel[s.fd]
           n == IF k.input < Room(s) THEN k.input ELSE Room(s)
<1>0. CASE r = NothingRead(s)
  BY <1>0 DEF NothingRead
<1> SUFFICES ASSUME r # NothingRead(s)
             PROVE  /\ r.s.fd = s.fd /\ r.s.socket_bound = s.socket_bound
                    /\ r.s.state \in {s.state, "close_wait"}
  BY <1>0
<1>1. CASE k.kind = "udp"
  <2>1. PICK size \in 0 .. (Room(s) - HEADER) :
          r = [s |-> [s EXCEPT !.rx_rsr = @ + HEADER + size],
               k |-> [kernel EXCEPT ![s.fd].input = @ - 1]]
    BY <1>1 DEF process_read
  <2>2. r.s = [s EXCEPT !.rx_rsr = @ + HEADER + size]
    BY <2>1
  <2> QED BY <2>2 DEF Sock
<1>2. CASE k.kind = "connected" /\ n > 0
  <2>1. r = [s |-> [s EXCEPT !.rx_rsr = @ + n], k |-> [kernel EXCEPT ![s.fd].input = @ - n]]
    BY <1>2 DEF process_read
  <2> HIDE DEF n
  <2>2. r.s = [s EXCEPT !.rx_rsr = @ + n]
    BY <2>1
  <2> QED BY <2>2 DEF Sock
<1>3. CASE k.kind = "connected" /\ n = 0
  BY <1>3 DEF process_read, Sock
<1>4. CASE k.kind # "udp" /\ ~(k.kind = "connected" /\ (n > 0 \/ n = 0))
  BY <1>4 DEF process_read
<1> QED BY <1>1, <1>2, <1>3, <1>4

LEMMA ProcessWakes == ASSUME IInv, IInv', WInv, process_io  PROVE WInv'
<1> DEFINE a == io.at
           s == socket[a]
<1>1. /\ io.pc \in {"process", "blocked"} /\ a \in 1 .. N
      /\ DOMAIN io = {"pc", "at", "readfds", "writefds"}
      /\ UNCHANGED <<stop_io_thread, selfpipe>>
  BY DEF process_io, IInv, IoTyped
<1>2. /\ Socket(s) /\ s \in Sock /\ Opened(s, kernel) /\ Table(kernel) /\ Settled(s, kernel)
      /\ s.fd # Invalid => s.fd \in Fds
  BY <1>1, SocketFacts DEF IInv, WInv
<1>3. io'.pc \in {"process", "loop", "blocked"}
  BY <1>1 DEF process_io, Onwards
<1>4. Told' /\ \A i \in 1 .. N : Known(i)'
  BY <1>3 DEF Told, Known, InSets
<1>5. CASE UNCHANGED <<socket, kernel>>
  BY <1>4, <1>5 DEF WInv
<1>6. CASE /\ ~Blocks(s)
           /\ \E r \in IF ~Reads(s) THEN {NothingRead(s)}
                      ELSE IF s.state = "listen" THEN process_accept(s)
                      ELSE process_read(s) :
                /\ kernel' = r.k
                /\ \E t \in (IF MayProcess(s) THEN Writing(r.s) ELSE {s}) :
                     socket' = [socket EXCEPT ![io.at] = t]
  <2>1. PICK r \in IF ~Reads(s) THEN {NothingRead(s)}
                   ELSE IF s.state = "listen" THEN process_accept(s)
                   ELSE process_read(s) :
               /\ kernel' = r.k
               /\ \E t \in (IF MayProcess(s) THEN Writing(r.s) ELSE {s}) :
                    socket' = [socket EXCEPT ![a] = t]
    BY <1>6
  <2>2. PICK t \in (IF MayProcess(s) THEN Writing(r.s) ELSE {s}) :
               socket' = [socket EXCEPT ![a] = t]
    BY <2>1
  <2>3. CASE ~Reads(s)
    <3>1. r.s = s /\ kernel' = kernel
      BY <2>1, <2>3 DEF NothingRead
    <3>2. t.fd = s.fd /\ t.state = s.state /\ t.socket_bound = s.socket_bound
      BY <1>2, <2>2, <3>1, WritingBound
    <3>3. t.fd = Invalid => t = s
      BY <2>2, <3>2 DEF MayProcess
    <3>4. Settled(t, kernel')
      BY <1>2, <3>1, <3>2, <3>3 DEF Settled
    <3> QED BY <1>1, <1>4, <2>2, <3>1, <3>4, AllSettled DEF WInv
  <2>4. CASE Reads(s)
    <3>1. /\ MayProcess(s) /\ s.fd # Invalid /\ s.ok_for_io /\ Readable(s.fd) /\ t \in Writing(r.s)
      BY <1>6, <2>2, <2>4 DEF Reads, MayProcess, Blocks
    <3>2. Replaces(s, r.s, kernel, kernel')
      <4>1. CASE s.state = "listen"
        BY <1>1, <2>1, <2>4, <3>1, <4>1, AcceptKeeps
      <4>2. CASE s.state # "listen"
        BY <1>1, <2>1, <2>4, <3>1, <4>2, ReadKeeps
      <4> QED BY <4>1, <4>2
    <3>3. /\ t.fd = r.s.fd /\ t.state = r.s.state /\ t.socket_bound = r.s.socket_bound
          /\ \A fd \in Fds : fd # s.fd /\ fd # t.fd => kernel'[fd] = kernel[fd]
      BY <3>1, <3>2, WritingBound DEF Replaces
    <3>4. t.fd # Invalid /\ (t.state = "udp" => s.state = "udp" /\ t.socket_bound = s.socket_bound)
      <4>0. CASE r.s = s
        BY <1>2, <3>1, <3>3, <4>0
      <4>1. CASE s.state = "listen" /\ r.s # s
        <5>1. r.s = [s EXCEPT !.fd = LowestFree(kernel), !.state = "established"]
          BY <2>1, <2>4, <4>1 DEF process_accept, NothingRead
        <5>2. LowestFree(kernel) \in Fds
          BY OneFree, LowestIsFree DEF IInv
        <5> QED BY <1>2, <3>3, <5>1, <5>2, FdsFacts DEF Sock
      <4>2. CASE s.state # "listen"
        BY <1>2, <2>1, <2>4, <3>1, <3>3, <4>2, ReadBound
      <4> QED BY <4>0, <4>1, <4>2
    <3>5. ~(s.state = "udp" /\ s.socket_bound = FALSE)
      BY <1>2, <3>1 DEF Settled, Readable, Opened, Is, Table
    <3>6. Settled(t, kernel')
      BY <3>4, <3>5 DEF Settled
    <3> QED BY <1>1, <1>4, <2>2, <3>3, <3>6, AllSettled DEF WInv
  <2> QED BY <2>3, <2>4
<1> QED BY <1>5, <1>6 DEF process_io

-----------------------------------------------------------------------------
(* What is heard.                                                          *)

LEMMA WakeInit == Init => WInv
<1> SUFFICES ASSUME Init  PROVE WInv
  OBVIOUS
<1>1. io.pc = "loop" /\ stop_io_thread = FALSE
  BY DEF Init
<1>2. ASSUME NEW i \in 1 .. N  PROVE Settled(socket[i], kernel)
  BY DEF Init, Settled
<1> QED BY <1>1, <1>2 DEF WInv, Told, Known, InSets

LEMMA WakeNext == IInv /\ IInv' /\ WInv /\ [Next]_vars => WInv'
<1> SUFFICES ASSUME IInv, IInv', WInv, [Next]_vars  PROVE WInv'
  OBVIOUS
<1>1. CASE UNCHANGED vars
  BY <1>1 DEF vars, WInv, Told, Known, InSets
<1>2. CASE \E i \in 1 .. N : \/ reset(i) \/ open(i) \/ listen(i) \/ connect(i) \/ discon(i)
                              \/ close(i) \/ send(i) \/ recv(i) \/ write_port(i)
  BY <1>2, ResetWakes, OpenWakes, ListenWakes, ConnectWakes, DisconWakes, CloseWakes, SendWakes,
     RecvWakes, PortWakes
<1>3. CASE Free \/ End
  BY <1>3, FreeWakes, EndWakes
<1>4. CASE IoLoop \/ add_to_sets \/ SelectStarts \/ SelectReturns \/ process_io
  BY <1>4, LoopWakes, AddWakes, ProcessWakes
<1>5. CASE \E fd \in Fds : Arrive(fd) \/ PeerCloses(fd)
  BY <1>5, ArriveWakes
<1> QED BY <1>1, <1>2, <1>3, <1>4, <1>5 DEF Next

LEMMA WakeAlways == Spec => [](IInv /\ WInv)
<1>1. Init => IInv /\ WInv
  BY InvInit, WakeInit
<1>2. IInv /\ WInv /\ [Next]_vars => (IInv /\ WInv)'
  BY InvNext, WakeNext
<1> QED BY <1>1, <1>2, PTL DEF Spec

\* The I/O thread is in select(), and nothing that has happened so far will end
\* the call.
Asleep ==
  /\ io.pc = "wait" /\ selfpipe = 0
  /\ \A fd \in io.readfds : ~Readable(fd)
  /\ \A fd \in io.writefds : ~Writable(fd)

StopHeard == Asleep => ~stop_io_thread
ReceiveHeard == Asleep => \A i \in 1 .. N : ~Waiting(i)
SendHeard == Asleep => \A i \in 1 .. N : \A p \in 0 .. (W - 1) : ~Sending(i, p)

(***************************************************************************)
(* nic_w5100_free, which joins the I/O thread, finds it awake, or about to *)
(* be: no setting of the flag is lost between the head of the loop and     *)
(* select().                                                               *)
(***************************************************************************)
THEOREM StopIsHeard == Spec => []StopHeard
<1>1. IInv /\ WInv => StopHeard
  BY DEF IInv, Pipe, WInv, Told, StopHeard, Asleep
<1> QED BY <1>1, WakeAlways, PTL

(***************************************************************************)
(* The I/O thread does not sleep while there is input, or a caller, that a *)
(* socket has room for, wherever the commands have come between the making *)
(* of the sets and select(), if the program does not use CONNECT, which    *)
(* does not wake it.                                                       *)
(***************************************************************************)
THEOREM InputIsHeard == ASSUME Connects = FALSE  PROVE Spec => []ReceiveHeard
<1>1. ASSUME IInv, WInv  PROVE ReceiveHeard
  <2> SUFFICES ASSUME Asleep, NEW i \in 1 .. N, Waiting(i)  PROVE FALSE
    BY DEF ReceiveHeard
  <2> DEFINE s == socket[i]
  <2>1. /\ s \in Sock /\ s.fd # Invalid /\ kernel[s.fd].input > 0 /\ Settled(s, kernel) /\ Known(i)
        /\ udp_read(s) \/ tcp_read(s) \/ tcp_listen(s)
    BY <1>1, SocketFacts DEF IInv, WInv, Waiting
  <2>2. kernel[s.fd].input # 0
    BY <2>1
  <2>3. Takes(s)
    BY <2>1, <2>2 DEF Settled, Takes, udp_read, Sock
  <2>4. s.fd \in io.readfds
    BY <2>1, <2>3 DEF Known, InSets, Asleep
  <2> QED BY <2>1, <2>4 DEF Asleep, Readable
<1> QED BY <1>1, WakeAlways, PTL

(***************************************************************************)
(* Nor does it sleep while a socket that the host can take more from has   *)
(* something to send, if the program closes only what has been sent.       *)
(***************************************************************************)
THEOREM SendIsHeard == ASSUME ClosesWhileSending = FALSE  PROVE Spec => []SendHeard
<1>1. ASSUME IInv, WInv  PROVE SendHeard
  <2> SUFFICES ASSUME Asleep, NEW i \in 1 .. N, NEW p \in 0 .. W - 1, Sending(i, p)  PROVE FALSE
    BY DEF SendHeard
  <2> DEFINE s == socket[i]
  <2>1. /\ s \in Sock /\ Opened(s, kernel) /\ Known(i)
        /\ s.state \in {"udp", "established"} /\ s.write_pending = TRUE
    <3>1. s \in Sock /\ Opened(s, kernel)
      BY <1>1, SocketFacts DEF IInv
    <3> QED BY <1>1, <3>1 DEF WInv, Sending, Sock
  <2>2. s.fd # Invalid /\ kernel[s.fd].kind \in {"udp", "connected"}
    BY <2>1 DEF Opened, Is
  <2>3. s.fd \in io.writefds
    BY <2>1, <2>2 DEF Known, InSets, Asleep
  <2> QED BY <2>2, <2>3 DEF Asleep, Writable
<1> QED BY <1>1, WakeAlways, PTL

=============================================================================
