-------------------------------- MODULE Adb ---------------------------------
(***************************************************************************)
(* minadbd, the adb daemon of the sideload: the thread that opens the USB  *)
(* device, the input and output thread of each transport, the event loop   *)
(* with its pending list, local and remote sockets, and the sideload       *)
(* service thread.  The host at the other end of the cable is external: it *)
(* follows the protocol (one unacknowledged WRTE per stream), and may      *)
(* reconnect, close its stream or be unplugged at any time.                *)
(***************************************************************************)
EXTENDS Naturals, Sequences

CONSTANTS
  MaxSess,      \* USB sessions of a behaviour
  MaxSocks,     \* local sockets ever created
  MaxData,      \* WRTE packets of a stream
  FdBuf,        \* packets a socketpair to a service holds
  MaxCnxn,      \* CNXN packets the host sends in a session
  MaxHost       \* packets hosts send in a behaviour

ASSUME AdbAssumption ==
  /\ MaxSess \in Nat /\ MaxSocks \in Nat /\ MaxData \in Nat \ {0}
  /\ FdBuf \in Nat \ {0} /\ MaxCnxn \in Nat /\ MaxHost \in Nat

VARIABLES
  usbFd,        \* session usb_handle.fd belongs to, 0 when it is -1
  nsess,        \* sessions opened so far
  opener,       \* usb_adb_open_thread
  reg,          \* registration socketpair: <<transport, action>>
  tr,           \* transports, one per session
  up, down,     \* socketpair of a transport, to and from the event loop
  sk,           \* local sockets by id, with the remote socket each is joined to
  pend,         \* list_pending: 0 for the registration, k for transport k;
                \* a socket is on it while it has events
  host, gone,   \* the host of each session; whether it is unplugged
  sent,         \* packets sent by hosts
  exit          \* "none", "sleep" before exit(0), or "exited"

Sess  == 1..MaxSess
Socks == 1..MaxSocks
loopVars == <<reg, up, down, sk, pend>>
adbVars  == <<usbFd, nsess, opener, reg, tr, up, down, sk, pend, host, gone, sent>>
daemonVars == <<adbVars, exit>>

NoTransport == [st |-> "none", conn |-> "offline", ref |-> 0, kicked |-> FALSE,
                out |-> "none", inp |-> "none", active |-> FALSE]
NoSocket == [st |-> "none", peer |-> 0, rid |-> 0, q |-> <<>>, want |-> {},
             ev |-> {}, fd |-> <<>>, back |-> 0, svc |-> "none", got |-> <<>>,
             wrtes |-> 0, okays |-> 0]
NoHost == [cnxn |-> 0, online |-> FALSE, strm |-> "none", rid |-> 0, lid |-> 0,
           wait |-> FALSE, sent |-> 0, owed |-> FALSE]

Pkt(c, a0, a1, d) == [cmd |-> c, a0 |-> a0, a1 |-> a1, data |-> d]

AdbInit ==
  /\ usbFd = 0 /\ nsess = 0 /\ opener = "wait" /\ reg = <<>>
  /\ tr = [k \in Sess |-> NoTransport]
  /\ up = [k \in Sess |-> <<>>] /\ down = [k \in Sess |-> <<>>]
  /\ sk = [i \in Socks |-> NoSocket] /\ pend = {}
  /\ host = [k \in Sess |-> NoHost] /\ gone = [k \in Sess |-> FALSE]
  /\ sent = 0

-----------------------------------------------------------------------------
(* usb_linux_client.c: the device is opened whenever its handle is closed, *)
(* and registered as a new transport.                                      *)

UsbOpen ==
  /\ opener = "wait" /\ usbFd = 0 /\ nsess < MaxSess
  /\ nsess' = nsess + 1 /\ usbFd' = nsess + 1 /\ opener' = "register"
  /\ UNCHANGED <<loopVars, tr, host, gone, sent>>

RegisterUsbTransport ==
  /\ opener = "register"
  /\ opener' = "wait"
  /\ tr' = [tr EXCEPT ![nsess].st = "queued"]
  /\ reg' = Append(reg, <<nsess, 1>>)
  /\ UNCHANGED <<usbFd, nsess, up, down, sk, pend, host, gone, sent>>

(* The last session of a behaviour stays plugged in (a bound).             *)
Unplug(k) ==
  /\ usbFd = k /\ ~gone[k] /\ k < MaxSess
  /\ gone' = [gone EXCEPT ![k] = TRUE]
  /\ UNCHANGED <<loopVars, usbFd, nsess, opener, tr, host, sent>>

(* transport_unref: the last thread asks for the removal.                  *)
Unref(k, th) ==
  /\ tr' = [tr EXCEPT ![k].ref = @ - 1, ![k][th] = "exited"]
  /\ reg' = IF tr[k].ref = 1 THEN Append(reg, <<k, 0>>) ELSE reg

-----------------------------------------------------------------------------
(* transport.c: the output thread reads from the cable.                    *)

(* What a host may send next.  It numbers its streams through all          *)
(* sessions, as one adb server does.                                       *)
HostSends(k, p, h) ==
  up' = [up EXCEPT ![k] = Append(@, p)] /\ host' = [host EXCEPT ![k] = h]

HostConnects(k) ==
  /\ host[k].cnxn < MaxCnxn
  /\ HostSends(k, Pkt("CNXN", 0, 0, 0), [NoHost EXCEPT !.cnxn = host[k].cnxn + 1])

HostOpens(k) ==
  /\ host[k].online /\ host[k].strm = "none"
  /\ HostSends(k, Pkt("OPEN", sent + 1, 0, 0),
               [host[k] EXCEPT !.strm = "opening", !.rid = sent + 1])

HostWrites(k) ==
  /\ host[k].strm = "open" /\ ~host[k].wait /\ host[k].sent < MaxData
  /\ HostSends(k, Pkt("WRTE", host[k].rid, host[k].lid, host[k].sent + 1),
               [host[k] EXCEPT !.sent = @ + 1, !.wait = TRUE])

HostAcks(k) ==
  /\ host[k].owed
  /\ HostSends(k, Pkt("OKAY", host[k].rid, host[k].lid, 0),
               [host[k] EXCEPT !.owed = FALSE])

HostCloses(k) ==
  /\ host[k].strm = "open"
  /\ HostSends(k, Pkt("CLSE", host[k].rid, host[k].lid, 0),
               [host[k] EXCEPT !.strm = "closed"])

OutputStart(k) ==
  /\ tr[k].out = "start"
  /\ tr' = [tr EXCEPT ![k].out = "read"]
  /\ up' = [up EXCEPT ![k] = Append(@, Pkt("SYNC", 1, 0, 0))]
  /\ UNCHANGED <<usbFd, nsess, opener, reg, down, sk, pend, host, gone, sent>>

OutputRead(k) ==
  /\ tr[k].out = "read" /\ ~gone[k] /\ sent < MaxHost /\ sent' = sent + 1
  /\ \/ HostConnects(k) \/ HostOpens(k) \/ HostWrites(k)
     \/ HostAcks(k) \/ HostCloses(k)
  /\ UNCHANGED <<usbFd, nsess, opener, reg, tr, down, sk, pend, gone>>

(* Mutant: the output thread leaves without SYNC(0, 0).                    *)
OutputLeaves(k) ==
  /\ tr[k].out = "read" /\ gone[k]
  /\ tr' = [tr EXCEPT ![k].out = "kick"]
  /\ UNCHANGED <<usbFd, nsess, opener, reg, up, down, sk, pend, host, gone, sent>>

OutputOffline(k) ==
  /\ tr[k].out = "read" /\ gone[k]
  /\ up' = [up EXCEPT ![k] = Append(@, Pkt("SYNC", 0, 0, 0))]
  /\ tr' = [tr EXCEPT ![k].out = "kick"]
  /\ UNCHANGED <<usbFd, nsess, opener, reg, down, sk, pend, host, gone, sent>>

(* kick_transport: only the first caller closes the handle.                *)
ThreadKick(k, th) ==
  /\ tr[k][th] = "kick"
  /\ tr' = [tr EXCEPT ![k].kicked = TRUE, ![k][th] = "unref"]
  /\ usbFd' = IF tr[k].kicked THEN usbFd ELSE 0
  /\ UNCHANGED <<nsess, opener, reg, up, down, sk, pend, host, gone, sent>>

ThreadUnref(k, th) ==
  /\ tr[k][th] = "unref"
  /\ Unref(k, th)
  /\ UNCHANGED <<usbFd, nsess, opener, up, down, sk, pend, host, gone, sent>>

-----------------------------------------------------------------------------
(* The input thread writes to the cable whatever is plugged in by then.    *)

HostGets(h, p) ==
  CASE p.cmd = "CNXN" -> [h EXCEPT !.online = TRUE]
    [] p.cmd = "OKAY" /\ p.a1 = h.rid /\ h.strm = "opening" ->
         [h EXCEPT !.strm = "open", !.lid = p.a0]
    [] p.cmd = "OKAY" /\ p.a1 = h.rid /\ h.strm = "open" ->
         [h EXCEPT !.wait = FALSE]
    [] p.cmd = "WRTE" /\ p.a1 = h.rid /\ h.strm = "open" ->
         [h EXCEPT !.owed = TRUE]
    [] p.cmd = "CLSE" /\ p.a1 = h.rid -> [h EXCEPT !.strm = "closed"]
    [] OTHER -> h

InputPacket(k) ==
  /\ tr[k].inp = "read" /\ down[k] # <<>>
  /\ LET p == Head(down[k]) IN
     /\ down' = [down EXCEPT ![k] = Tail(@)]
     /\ tr' = [tr EXCEPT
                 ![k].inp = IF p.cmd = "SYNC" /\ p.a0 = 0 THEN "closeall" ELSE @,
                 ![k].active = @ \/ (p.cmd = "SYNC" /\ p.a0 = 1)]
     /\ IF p.cmd # "SYNC" /\ tr[k].active /\ usbFd # 0 /\ ~gone[usbFd]
          THEN host' = [host EXCEPT ![usbFd] = HostGets(@, p)]
          ELSE UNCHANGED host
  /\ UNCHANGED <<usbFd, nsess, opener, reg, up, sk, pend, gone, sent>>

-----------------------------------------------------------------------------
(* fdevent.c and sockets.c, run by the event loop.  X is a local socket    *)
(* with what the call has sent; a call changes no other socket.            *)

Call(i) == [s |-> sk[i], down |-> down]
Return(i, X) == sk' = [sk EXCEPT ![i] = X.s] /\ down' = X.down

Send(X, k, p) == [X EXCEPT !.down[k] = Append(@, p)]

(* What the remote socket that local socket i is joined to sends.          *)
RemoteSocketReady(X, i)   == Send(X, X.s.peer, Pkt("OKAY", i, X.s.rid, 0))
RemoteSocketEnqueue(X, i) == Send(X, X.s.peer, Pkt("WRTE", i, X.s.rid, X.s.back))
RemoteSocketClose(X) ==
  [Send(X, X.s.peer, Pkt("CLSE", 0, X.s.rid, 0)) EXCEPT !.s.peer = 0]

(* fdevent_set.  Of a pending descriptor it clears the events that ARE     *)
(* wanted; select reports them again on the next turn.                     *)
FdeventSet(s, events) ==
  IF s.want = events THEN s
  ELSE [s EXCEPT !.want = events, !.ev = @ \ events]

(* local_socket_destroy: unwritten packets are dropped.                    *)
LocalSocketDestroy(s) ==
  [s EXCEPT !.st = "freed", !.q = <<>>, !.want = {}, !.ev = {}]

(* local_socket_close_locked once the peer is gone.                        *)
CloseAlone(s) ==
  IF s.st = "closing" \/ s.q = <<>> THEN LocalSocketDestroy(s)
  ELSE FdeventSet([s EXCEPT !.st = "closing"], s.want \ {"R"})

(* local_socket_close: the peer first.                                     *)
LocalSocketClose(X) ==
  [(IF X.s.peer = 0 THEN X ELSE RemoteSocketClose(X)) EXCEPT !.s = CloseAlone(@)]

(* remote_socket_disconnect sends nothing.                                 *)
RemoteSocketDisconnect(s) == CloseAlone([s EXCEPT !.peer = 0])

(* Mutant: the remote sockets of a transport that goes offline stay.       *)
KeepSockets(k) == sk

(* run_transport_disconnects: every remote socket of k.                    *)
RunTransportDisconnects(k) ==
  [i \in Socks |-> IF sk[i].peer = k THEN RemoteSocketDisconnect(sk[i]) ELSE sk[i]]

SocketAlive(i) == sk[i].st \in {"open", "closing"}

(* Mutant: a packet that had to be queued is acknowledged at once.         *)
EnqueueAcks(X, i, k, p) ==
  LET s == [X.s EXCEPT !.okays = @ + 1]
      w == [s EXCEPT !.fd = Append(@, p.data)]
      v == [s EXCEPT !.q = Append(@, p.data)]
  IN IF s.q = <<>> /\ s.svc = "closed" THEN LocalSocketClose(X)
     ELSE Send([X EXCEPT !.s = IF s.q = <<>> /\ Len(s.fd) < FdBuf THEN w
                               ELSE FdeventSet(v, s.want \union {"W"})],
               k, Pkt("OKAY", i, p.a0, 0))

(* local_socket_enqueue, and the OKAY handle_packet sends when it returns  *)
(* 0.  A packet is written whole or not: one that fits in part is queued   *)
(* like one that does not, and what has been written of it is not counted. *)
LocalSocketEnqueue(X, i, k, p) ==
  LET s == X.s
      w == [s EXCEPT !.fd = Append(@, p.data), !.okays = @ + 1]
      v == [s EXCEPT !.q = Append(@, p.data)]
  IN IF s.q = <<>> /\ s.svc = "closed" THEN LocalSocketClose(X)
     ELSE IF s.q = <<>> /\ Len(s.fd) < FdBuf
       THEN Send([X EXCEPT !.s = w], k, Pkt("OKAY", i, p.a0, 0))
       ELSE [X EXCEPT !.s = FdeventSet(v, s.want \union {"W"})]

(* find_local_socket: sockets that are closing are on another list.        *)
FindLocalSocket(id) == {i \in Socks : i = id /\ sk[i].st = "open"}

(* create_local_service_socket, joined to a new remote socket and read     *)
(* from at once.                                                           *)
ServiceSocket(k, rid) ==
  [NoSocket EXCEPT !.st = "open", !.peer = k, !.rid = rid, !.want = {"R"},
                   !.svc = "read"]

(* handle_packet, in adb.c: one action for each case of its switch.        *)
HandleSync(k, p) ==
  /\ p.cmd = "SYNC"
  /\ down' = [down EXCEPT ![k] = Append(@, p)]
  /\ IF p.a0 = 1 THEN UNCHANGED <<sk, tr>>
     ELSE /\ sk' = RunTransportDisconnects(k)
          /\ tr' = [tr EXCEPT ![k].conn = "offline"]

HandleConnect(k, p) ==
  /\ p.cmd = "CNXN"
  /\ sk' = IF tr[k].conn = "offline" THEN sk ELSE RunTransportDisconnects(k)
  /\ tr' = [tr EXCEPT ![k].conn = "host"]
  /\ down' = [down EXCEPT ![k] = Append(@, Pkt("CNXN", 0, 0, 0))]

FreeIds == {i \in Socks : sk[i].st = "none"}

HandleOpen(k, p) ==
  /\ p.cmd = "OPEN" /\ tr[k].conn # "offline"
  /\ IF FreeIds = {}                                 \* service_to_fd fails
       THEN /\ down' = [down EXCEPT ![k] = Append(@, Pkt("CLSE", 0, p.a0, 0))]
            /\ UNCHANGED sk
       ELSE \E i \in FreeIds :
              /\ \A j \in FreeIds : i <= j
              /\ Return(i, Send([Call(i) EXCEPT !.s = ServiceSocket(k, p.a0)],
                                k, Pkt("OKAY", i, p.a0, 0)))
  /\ UNCHANGED tr

HandleReady(k, p) ==
  /\ p.cmd = "OKAY" /\ tr[k].conn # "offline"
  /\ \E i \in FindLocalSocket(p.a1) :
       LET s == IF sk[i].peer # 0 THEN sk[i]
                ELSE [sk[i] EXCEPT !.peer = k, !.rid = p.a0]
       IN sk' = [sk EXCEPT ![i] = FdeventSet(s, s.want \union {"R"})]
  /\ UNCHANGED <<down, tr>>

HandleClose(k, p) ==
  /\ p.cmd = "CLSE" /\ tr[k].conn # "offline"
  /\ \E i \in FindLocalSocket(p.a1) : Return(i, LocalSocketClose(Call(i)))
  /\ UNCHANGED tr

HandleWrite(k, p) ==
  /\ p.cmd = "WRTE" /\ tr[k].conn # "offline"
  /\ \E i \in FindLocalSocket(p.a1) :
       Return(i, LocalSocketEnqueue([Call(i) EXCEPT !.s.wrtes = @ + 1], i, k, p))
  /\ UNCHANGED tr

HandleNothing(k, p) ==
  /\ p.cmd \in {"OPEN", "OKAY", "CLSE", "WRTE"}
  /\ tr[k].conn # "offline" => p.cmd # "OPEN" /\ FindLocalSocket(p.a1) = {}
  /\ UNCHANGED <<sk, down, tr>>

HandlePacket(k, p) ==
  \/ HandleSync(k, p) \/ HandleConnect(k, p) \/ HandleOpen(k, p)
  \/ HandleReady(k, p) \/ HandleClose(k, p) \/ HandleWrite(k, p)
  \/ HandleNothing(k, p)

(* Mutant: the peer is not told to go on.                                  *)
WriteEventSilent(X, i) ==
  LET s == X.s
      w == [s EXCEPT !.q = <<>>, !.fd = @ \o s.q]
  IN IF Len(s.fd) >= FdBuf /\ s.svc # "closed" THEN X
     ELSE [X EXCEPT !.s = FdeventSet(w, s.want \ {"W"})]

(* local_socket_event_func, FDE_WRITE: what fits is written; an empty      *)
(* queue ends a closing socket, or tells the peer to go on.                *)
WriteEvent(X, i) ==
  LET s    == X.s
      n    == IF FdBuf - Len(s.fd) < Len(s.q) THEN FdBuf - Len(s.fd) ELSE Len(s.q)
      left == SubSeq(s.q, n + 1, Len(s.q))
      w    == [s EXCEPT !.q = left, !.fd = @ \o SubSeq(s.q, 1, n)]
      v    == [w EXCEPT !.okays = @ + 1]
  IN IF s.q # <<>> /\ s.svc = "closed" THEN LocalSocketClose(X)
     ELSE IF left # <<>> THEN [X EXCEPT !.s = w]
     ELSE IF s.st = "closing" THEN LocalSocketClose([X EXCEPT !.s = w])
     ELSE RemoteSocketReady([X EXCEPT !.s = FdeventSet(v, s.want \ {"W"})], i)

(* FDE_READ: what the service wrote goes to the peer, whose enqueue always *)
(* asks for a pause; at the end of the file the socket closes.             *)
ReadEvent(X, i) ==
  LET s == X.s
      r == [s EXCEPT !.back = 0]
      R == IF s.back = 0 \/ s.peer = 0 THEN [X EXCEPT !.s = r]
           ELSE [RemoteSocketEnqueue(X, i) EXCEPT !.s = FdeventSet(r, s.want \ {"R"})]
  IN IF s.svc = "closed" THEN LocalSocketClose(R) ELSE R

(* FDE_WRITE comes first and may return before FDE_READ.                   *)
SocketEvent(i) ==
  LET ev == sk[i].ev
      X  == [Call(i) EXCEPT !.s.ev = {}]
      W  == IF "W" \in ev THEN WriteEvent(X, i) ELSE X
      returned == "W" \in ev /\ (W.s.st # "open" \/ W.s.q # <<>>)
  IN IF "R" \in ev /\ ~returned THEN ReadEvent(W, i) ELSE W

(* fdevent_process: everything that is ready and wanted becomes pending.   *)
(* The handlers run in the order of the descriptors, which the kernel      *)
(* numbers: any order.                                                     *)
Ready(i) ==
  IF ~SocketAlive(i) THEN {}
  ELSE {e \in sk[i].want :
          \/ e = "R" /\ (sk[i].back > 0 \/ sk[i].svc = "closed")
          \/ e = "W" /\ (Len(sk[i].fd) < FdBuf \/ sk[i].svc = "closed")}

FdeventProcess ==
  /\ pend = {} /\ \A i \in Socks : sk[i].ev = {}
  /\ pend' = {n \in 0..MaxSess :
                IF n = 0 THEN reg # <<>> ELSE tr[n].st = "live" /\ up[n] # <<>>}
  /\ sk' = [i \in Socks |-> [sk[i] EXCEPT !.ev = Ready(i)]]
  /\ pend' # {} \/ \E i \in Socks : Ready(i) # {}
  /\ UNCHANGED <<usbFd, nsess, opener, reg, tr, up, down, host, gone, sent>>

(* transport_registration_func: a new transport starts its two threads,    *)
(* each with a reference.                                                  *)
Registered(k) ==
  /\ tr' = [tr EXCEPT ![k].st = "live", ![k].ref = 2, ![k].out = "start",
                      ![k].inp = "read"]
  /\ pend' = pend \ {0} /\ UNCHANGED sk

(* An old one is taken off the event loop, its remote sockets end, and it  *)
(* is freed.                                                               *)
Removed(k) ==
  /\ pend' = pend \ {0, k}
  /\ sk' = RunTransportDisconnects(k)
  /\ tr' = [tr EXCEPT ![k].st = "freed"]

TransportRegistration ==
  /\ 0 \in pend
  /\ reg' = Tail(reg)
  /\ IF Head(reg)[2] = 0 THEN Removed(Head(reg)[1]) ELSE Registered(Head(reg)[1])
  /\ UNCHANGED <<usbFd, nsess, opener, up, down, host, gone, sent>>

(* transport_socket_events                                                 *)
TransportSocket(k) ==
  /\ k \in pend
  /\ pend' = pend \ {k}
  /\ up' = [up EXCEPT ![k] = Tail(@)]
  /\ HandlePacket(k, Head(up[k]))
  /\ UNCHANGED <<usbFd, nsess, opener, reg, host, gone, sent>>

LocalSocket(i) ==
  /\ sk[i].ev # {}
  /\ Return(i, SocketEvent(i))
  /\ UNCHANGED <<usbFd, nsess, opener, reg, tr, up, pend, host, gone, sent>>

(* close_all_sockets, called by the input thread on its way out: one turn  *)
(* of its loop.                                                            *)
CloseAllSockets(k) ==
  /\ tr[k].inp = "closeall"
  /\ LET left == {i \in Socks : sk[i].peer = k /\ sk[i].st = "open"}
         i    == CHOOSE i \in left : \A j \in left : i <= j
     IN IF left # {} THEN Return(i, LocalSocketClose(Call(i))) /\ UNCHANGED tr
        ELSE tr' = [tr EXCEPT ![k].inp = "kick"] /\ UNCHANGED <<sk, down>>
  /\ UNCHANGED <<usbFd, nsess, opener, reg, up, pend, host, gone, sent>>

-----------------------------------------------------------------------------
(* sideload_service: it reads MaxData packets and answers OKAY, or FAIL    *)
(* when its socket is closed before.                                       *)
ServiceReads(i) ==
  /\ sk[i].svc = "read" /\ sk[i].fd # <<>> /\ Len(sk[i].got) < MaxData
  /\ sk' = [sk EXCEPT ![i].got = Append(@, Head(sk[i].fd)), ![i].fd = Tail(@)]
  /\ UNCHANGED <<usbFd, nsess, opener, reg, tr, up, down, pend, host, gone, sent>>

ServiceAnswers(i) ==
  /\ sk[i].svc = "read"
  /\ Len(sk[i].got) = MaxData \/ (sk[i].fd = <<>> /\ sk[i].st = "freed")
  /\ sk' = [sk EXCEPT ![i].svc = "answered", ![i].back = IF SocketAlive(i) THEN 1 ELSE 0]
  /\ UNCHANGED <<usbFd, nsess, opener, reg, tr, up, down, pend, host, gone, sent>>

(* The file does not take the packet read last: FAIL.                      *)
ServiceFails(i) ==
  /\ sk[i].svc = "read" /\ sk[i].got # <<>>
  /\ sk' = [sk EXCEPT ![i].svc = "failed", ![i].back = IF SocketAlive(i) THEN 1 ELSE 0]
  /\ UNCHANGED <<usbFd, nsess, opener, reg, tr, up, down, pend, host, gone, sent>>

ServiceCloses(i) ==
  /\ sk[i].svc \in {"answered", "failed"}
  /\ sk' = [sk EXCEPT ![i].svc = "closed"]
  /\ UNCHANGED <<usbFd, nsess, opener, reg, tr, up, down, pend, host, gone, sent>>

Threads(k) ==
  \/ OutputStart(k) \/ OutputOffline(k) \/ InputPacket(k) \/ CloseAllSockets(k)
  \/ \E th \in {"out", "inp"} : ThreadKick(k, th) \/ ThreadUnref(k, th)
EventLoop ==
  \/ FdeventProcess \/ TransportRegistration
  \/ \E k \in Sess : TransportSocket(k)
  \/ \E i \in Socks : LocalSocket(i)
Service(i) ==
  \/ ServiceReads(i) \/ ServiceAnswers(i) \/ ServiceFails(i) \/ ServiceCloses(i)
Opener == UsbOpen \/ RegisterUsbTransport

AdbNext ==
  \/ Opener \/ EventLoop
  \/ \E k \in Sess : Unplug(k) \/ OutputRead(k) \/ Threads(k)
  \/ \E i \in Socks : Service(i)

(* The daemon exits a second after a service has closed the socket of a    *)
(* complete sideload, and at once when a service cannot create the file.   *)
Complete(i) == sk[i].svc = "answered" /\ Len(sk[i].got) = MaxData

InProcess(A) ==
  /\ exit # "exited" /\ A
  /\ exit' = IF \E i \in Socks : Complete(i) /\ ServiceCloses(i) THEN "sleep"
             ELSE exit

Exits ==
  /\ exit = "sleep" \/ (exit = "none" /\ \E i \in Socks : sk[i].svc = "read" /\ sk[i].got = <<>>)
  /\ exit' = "exited" /\ UNCHANGED adbVars

DaemonNext == InProcess(AdbNext) \/ Exits
DaemonInit == AdbInit /\ exit = "none"
DaemonSpec == DaemonInit /\ [][DaemonNext]_daemonVars

(* The threads and the loop are scheduled; the host may do nothing.        *)
AdbFairness ==
  /\ WF_daemonVars(InProcess(Opener)) /\ WF_daemonVars(InProcess(EventLoop))
  /\ \A k \in Sess : WF_daemonVars(InProcess(Threads(k)))
  /\ \A i \in Socks : WF_daemonVars(InProcess(Service(i)))

-----------------------------------------------------------------------------
Packets ==
  [cmd : {"SYNC", "CNXN", "OPEN", "OKAY", "CLSE", "WRTE"},
   a0 : Nat, a1 : Nat, data : Nat]
Transports ==
  [st : {"none", "queued", "live", "freed"}, conn : {"offline", "host"},
   ref : 0..2, kicked : BOOLEAN, active : BOOLEAN,
   out : {"none", "start", "read", "kick", "unref", "exited"},
   inp : {"none", "read", "closeall", "kick", "unref", "exited"}]
Sockets ==
  [st : {"none", "open", "closing", "freed"}, peer : 0..MaxSess, rid : Nat,
   q : Seq(Nat), fd : Seq(Nat), got : Seq(Nat), back : {0, 1},
   want : SUBSET {"R", "W"}, ev : SUBSET {"R", "W"},
   svc : {"none", "read", "answered", "failed", "closed"}, wrtes : Nat, okays : Nat]
Hosts ==
  [cnxn : Nat, online : BOOLEAN, strm : {"none", "opening", "open", "closed"},
   rid : Nat, lid : Nat, wait : BOOLEAN, sent : Nat, owed : BOOLEAN]

AdbTypeOK ==
  /\ usbFd \in 0..MaxSess /\ nsess \in 0..MaxSess /\ sent \in Nat
  /\ opener \in {"wait", "register"} /\ reg \in Seq(Sess \X {0, 1})
  /\ tr \in [Sess -> Transports] /\ sk \in [Socks -> Sockets]
  /\ up \in [Sess -> Seq(Packets)] /\ down \in [Sess -> Seq(Packets)]
  /\ pend \in SUBSET (0..MaxSess)
  /\ host \in [Sess -> Hosts] /\ gone \in [Sess -> BOOLEAN]

(* The event loop never calls the handler of a socket or transport that    *)
(* was freed by an earlier handler of the same turn, and no handler blocks *)
(* in its read: what made it pending is still there.                       *)
PendingAlive ==
  /\ \A i \in Socks : sk[i].ev # {} => SocketAlive(i)
  /\ \A k \in pend : IF k = 0 THEN reg # <<>>
                     ELSE tr[k].st = "live" /\ up[k] # <<>>

(* An open local socket has a remote socket, and that one a transport that *)
(* exists and has not been told to stop: s->peer->ready is never called on *)
(* nothing, nothing is sent to a transport whose threads have gone, and    *)
(* close_all_sockets, called outside the event loop, never has a socket    *)
(* left to close and so does not race the loop.                            *)
OpenHasPeer ==
  \A i \in Socks :
    /\ sk[i].st = "open" => sk[i].peer # 0
    /\ sk[i].peer # 0 =>
         /\ sk[i].st = "open" /\ tr[sk[i].peer].st = "live"
         /\ tr[sk[i].peer].inp = "read" /\ tr[sk[i].peer].conn = "host"

(* A transport is freed, and the event loop is asked to, only after both   *)
(* its threads are done with it.                                           *)
FreedAfterThreads ==
  \A k \in Sess :
    tr[k].st = "freed" \/ (\E n \in 1..Len(reg) : reg[n] = <<k, 0>>) =>
      tr[k].out = "exited" /\ tr[k].inp = "exited"

(* A transport that may still be read from or kicked has the device to     *)
(* itself: no thread of an old session reads the packets of a new one, and *)
(* no late kick closes the device under it (kick_transport).               *)
OwnDevice ==
  \A k \in Sess :
    tr[k].st \in {"queued", "live"} /\ (tr[k].out = "read" \/ ~tr[k].kicked)
      => usbFd = k

(* The event loop and the threads never meet a socket or a transport that  *)
(* is gone, whenever the cable is pulled (fdevent.c, sockets.c,            *)
(* transport.c).                                                           *)
SocketInv ==
  /\ AdbTypeOK
  /\ OpenHasPeer
  /\ PendingAlive
  /\ FreedAfterThreads
  /\ OwnDevice

(* Each WRTE the daemon takes is acknowledged once, when its data has left *)
(* the queue: the host is neither stalled nor let ahead, and a socket      *)
(* never has to hold more than one packet.                                 *)
AckOnce ==
  \A i \in Socks :
    /\ sk[i].st = "open" => sk[i].okays + Len(sk[i].q) = sk[i].wrtes
    /\ Len(sk[i].q) <= 1

(* The service gets the packets of its own stream, each once and in order. *)
StreamInOrder ==
  \A i \in Socks :
    LET all == sk[i].got \o sk[i].fd \o sk[i].q
    IN \A n \in 1..Len(all) : all[n] = n

(* The stream of a host and a service is kept: every packet once, in       *)
(* order, and acknowledged once (sockets.c).                               *)
StreamInv == StreamInOrder /\ AckOnce

(* A host that waits for an acknowledgement gets it, or its stream or the  *)
(* session ends, the last by the exit of the daemon too.                   *)
NoStall ==
  \A k \in Sess : (host[k].wait /\ host[k].strm = "open") ~>
    (~host[k].wait \/ host[k].strm # "open" \/ gone[k] \/ exit = "exited")

(* The transport of an unplugged cable is freed, and the device opened     *)
(* again, whatever the threads were doing, unless the daemon exits: and it *)
(* exits only after a sideload that is complete or that has no file.       *)
Reconnects ==
  \A k \in 1..(MaxSess - 1) : gone[k] ~>
    \/ tr[k].st = "freed" /\ tr[k + 1].st = "live"
    \/ /\ exit = "exited"
       /\ \E i \in Socks : Len(sk[i].got) = MaxData \/ (sk[i].svc = "read" /\ sk[i].got = <<>>)

=============================================================================
