----------------------------- MODULE AdbProofs ------------------------------
(***************************************************************************)
(* The adb daemon, for any number of sessions, sockets and packets, and    *)
(* whenever cables are pulled and hosts reconnect: no handler meets a      *)
(* socket or transport that is gone, and no old session touches the device *)
(* of a new one.                                                           *)
(***************************************************************************)
EXTENDS Adb, TLAPS

(* A leaf that names no prover is for Zenon; the ones that need arithmetic *)
(* or the theory of functions and records name SMT.                        *)
USE ZenonT(60)

-----------------------------------------------------------------------------
(* Sequences that lose their head or grow by one entry.                    *)

LEMMA SeqTail ==
  ASSUME NEW S, NEW s \in Seq(S), s # <<>>
  PROVE  /\ Head(s) \in S /\ Head(s) = s[1] /\ Tail(s) \in Seq(S)
         /\ Len(s) \in Nat \ {0} /\ Len(Tail(s)) = Len(s) - 1
         /\ DOMAIN s = 1..Len(s) /\ DOMAIN Tail(s) = 1..(Len(s) - 1)
         /\ \A i \in 1..(Len(s) - 1) : Tail(s)[i] = s[i + 1]
  BY SMTT(60)

LEMMA SeqAppend ==
  ASSUME NEW S, NEW s \in Seq(S), NEW e \in S
  PROVE  /\ Append(s, e) \in Seq(S) /\ Len(s) \in Nat
         /\ Append(s, e) # <<>>
         /\ Len(Append(s, e)) = Len(s) + 1
         /\ DOMAIN s = 1..Len(s) /\ DOMAIN Append(s, e) = 1..(Len(s) + 1)
         /\ \A i \in 1..Len(s) : Append(s, e)[i] = s[i]
         /\ Append(s, e)[Len(s) + 1] = e
  BY SMTT(60)

LEMMA LenType ==
  ASSUME NEW S, NEW s \in Seq(S)
  PROVE  Len(s) \in Nat
  BY SMTT(60)

LEMMA SameElements ==
  ASSUME NEW S, NEW s \in Seq(S), NEW t \in Seq(S), Len(s) = Len(t),
         \A i \in 1..Len(s) : s[i] = t[i]
  PROVE  s = t
  BY SMTT(60)

LEMMA SeqConcat ==
  ASSUME NEW S, NEW s \in Seq(S), NEW t \in Seq(S)
  PROVE  /\ s \o t \in Seq(S) /\ Len(s \o t) = Len(s) + Len(t)
         /\ \A i \in 1..(Len(s) + Len(t)) :
              (s \o t)[i] = IF i <= Len(s) THEN s[i] ELSE t[i - Len(s)]
  BY SMTT(60)

LEMMA ConcatNothing ==
  ASSUME NEW S, NEW s \in Seq(S)
  PROVE  s \o <<>> = s
  BY SMTT(60)

-----------------------------------------------------------------------------
(* What the operations of sockets.c and fdevent.c do to a socket.          *)

Alive(s) == s.st \in {"open", "closing"}

(* A local socket that is open has a peer, and no other has; only one that *)
(* is alive has events; its socketpair holds what it can hold; and it      *)
(* waits to write only while it has something to write.                    *)
Sane(s) ==
  /\ s.peer # 0 <=> s.st = "open"
  /\ s.ev # {} => Alive(s)
  /\ Len(s.fd) <= FdBuf
Sound(s) == Sane(s) /\ ("W" \in s.want \cup s.ev => s.q # <<>>)

(* Nothing is written to the service, and the socket may have closed.      *)
Fades(s, t) ==
  /\ t \in Sockets /\ Sound(t)
  /\ t.rid = s.rid /\ t.got = s.got /\ t.fd = s.fd /\ t.q \in {s.q, <<>>}
  /\ t.st = "none" <=> s.st = "none"
  /\ t.st = "open" => /\ s.st = "open" /\ t.peer = s.peer /\ t.q = s.q
                      /\ t.okays = s.okays /\ t.wrtes = s.wrtes

LEMMA FadesTrans ==
  ASSUME NEW s, NEW t, NEW u, Fades(s, t), Fades(t, u)
  PROVE  Fades(s, u)
  BY DEF Fades

LEMMA FdeventSetFades ==
  ASSUME NEW s \in Sockets, Sane(s), NEW events \in SUBSET {"R", "W"},
         "W" \in events \cup s.ev => s.q # <<>>
  PROVE  /\ Fades(s, FdeventSet(s, events))
         /\ FdeventSet(s, events).st = s.st /\ FdeventSet(s, events).q = s.q
         /\ FdeventSet(s, events).peer = s.peer
         /\ FdeventSet(s, events).okays = s.okays
         /\ FdeventSet(s, events).wrtes = s.wrtes
<1> DEFINE t == [s EXCEPT !.want = events, !.ev = @ \ events]
<1>1. t \in Sockets
  BY DEF Sockets
<1>2. /\ t.st = s.st /\ t.peer = s.peer /\ t.rid = s.rid
      /\ t.q = s.q /\ t.fd = s.fd /\ t.got = s.got
      /\ t.ev = s.ev \ events /\ t.want = events
      /\ t.okays = s.okays /\ t.wrtes = s.wrtes
  BY DEF Sockets
<1>3. (t.ev # {} => s.ev # {}) /\ ("W" \in t.ev => "W" \in s.ev)
  BY <1>2
<1>4. Sound(t)
  BY <1>2, <1>3 DEF Sound, Sane, Alive
<1>5. Fades(s, t)
  BY <1>1, <1>2, <1>4 DEF Fades
<1>6. CASE s.want = events
  <2>1. FdeventSet(s, events) = s
    BY <1>6 DEF FdeventSet
  <2>2. Sound(s)
    BY <1>6 DEF Sound
  <2> QED
    BY <2>1, <2>2 DEF Fades
<1>7. CASE s.want # events
  <2>1. FdeventSet(s, events) = t
    BY <1>7 DEF FdeventSet
  <2> QED
    BY <1>2, <1>5, <2>1
<1> QED
  BY <1>6, <1>7

(* CloseAlone is called once the peer has been taken off.                  *)
LEMMA CloseAloneFades ==
  ASSUME NEW s \in Sockets, Sane(s), s.st # "none"
  PROVE  LET t == CloseAlone([s EXCEPT !.peer = 0])
         IN Fades(s, t) /\ t.peer = 0 /\ t.st # "open"
<1> DEFINE u == [s EXCEPT !.peer = 0]
           c == [u EXCEPT !.st = "closing"]
           d == LocalSocketDestroy(u)
<1>0. 0 \in 0..MaxSess /\ <<>> \in Seq(Nat)
  BY AdbAssumption, SMTT(60)
<1>1. u \in Sockets
  BY <1>0 DEF Sockets
<1>2. /\ u.st = s.st /\ u.peer = 0 /\ u.rid = s.rid /\ u.want = s.want
      /\ u.q = s.q /\ u.fd = s.fd /\ u.got = s.got /\ u.ev = s.ev
  BY DEF Sockets
<1>3. c \in Sockets
  BY <1>1 DEF Sockets
<1>4. /\ c.st = "closing" /\ c.peer = 0 /\ c.rid = s.rid /\ c.want = s.want
      /\ c.q = s.q /\ c.fd = s.fd /\ c.got = s.got /\ c.ev = s.ev
  BY <1>1, <1>2 DEF Sockets
<1>5. d \in Sockets
  BY <1>0, <1>1 DEF Sockets, LocalSocketDestroy
<1>6. /\ d.st = "freed" /\ d.peer = 0 /\ d.rid = s.rid
      /\ d.q = <<>> /\ d.fd = s.fd /\ d.got = s.got /\ d.ev = {} /\ d.want = {}
  BY <1>1, <1>2 DEF Sockets, LocalSocketDestroy
<1>7. "W" \notin d.want \cup d.ev
  BY <1>6
<1>7a. Sound(d)
  BY <1>6, <1>7 DEF Sound, Sane, Alive
<1>7b. Fades(s, d) /\ d.peer = 0 /\ d.st # "open"
  BY <1>5, <1>6, <1>7a DEF Fades
<1>8. u.want \ {"R"} \in SUBSET {"R", "W"}
  BY <1>1 DEF Sockets
<1>9. Sane(c)
  BY <1>4 DEF Sane, Alive
<1> DEFINE e == FdeventSet(c, u.want \ {"R"})
<1>10. ASSUME s.q # <<>>
       PROVE  Fades(s, e) /\ e.peer = 0 /\ e.st # "open"
  <2>1. Fades(c, e) /\ e.st = "closing" /\ e.peer = 0
    BY <1>3, <1>4, <1>8, <1>9, <1>10, FdeventSetFades
  <2> QED
    BY <1>4, <2>1 DEF Fades
<1>11. CloseAlone(u) = d \/ (CloseAlone(u) = e /\ s.q # <<>>)
  BY <1>2 DEF CloseAlone
<1> QED
  BY <1>7b, <1>10, <1>11

-----------------------------------------------------------------------------
(* What a call sends.                                                      *)

Calls == [s : Sockets, down : [Sess -> Seq(Packets)]]

(* d grown to e by packets of N.                                           *)
More(d, e, N) ==
  /\ e \in [Sess -> Seq(Packets)]
  /\ \A k \in Sess :
       /\ Len(d[k]) <= Len(e[k])
       /\ \A n \in 1..Len(e[k]) :
            IF n <= Len(d[k]) THEN e[k][n] = d[k][n] ELSE e[k][n] \in N

LEMMA MoreSame ==
  ASSUME NEW d \in [Sess -> Seq(Packets)], NEW N
  PROVE  More(d, d, N)
  BY SMTT(60) DEF More

LEMMA MoreTrans ==
  ASSUME NEW d \in [Sess -> Seq(Packets)], NEW e, NEW f, NEW N,
         More(d, e, N), More(e, f, N)
  PROVE  More(d, f, N)
<1> SUFFICES ASSUME NEW k \in Sess
             PROVE  /\ Len(d[k]) <= Len(f[k])
                    /\ \A n \in 1..Len(f[k]) :
                         IF n <= Len(d[k]) THEN f[k][n] = d[k][n] ELSE f[k][n] \in N
  BY DEF More
<1>1. Len(d[k]) \in Nat /\ Len(e[k]) \in Nat /\ Len(f[k]) \in Nat
  BY SMTT(60) DEF More
<1>2. Len(d[k]) <= Len(e[k]) /\ Len(e[k]) <= Len(f[k])
  BY DEF More
<1>3. \A n \in 1..Len(e[k]) : IF n <= Len(d[k]) THEN e[k][n] = d[k][n] ELSE e[k][n] \in N
  BY DEF More
<1>4. \A n \in 1..Len(f[k]) : IF n <= Len(e[k]) THEN f[k][n] = e[k][n] ELSE f[k][n] \in N
  BY DEF More
<1> QED
  BY <1>1, <1>2, <1>3, <1>4, SMTT(60)

LEMMA MoreMono ==
  ASSUME NEW d, NEW e, NEW M, NEW N, More(d, e, M), M \subseteq N
  PROVE  More(d, e, N)
  BY DEF More

LEMMA SendMore ==
  ASSUME NEW X \in Calls, NEW k \in Sess, NEW p \in Packets, NEW N, p \in N
  PROVE  /\ Send(X, k, p) \in Calls /\ Send(X, k, p).s = X.s
         /\ More(X.down, Send(X, k, p).down, N)
<1> DEFINE d == X.down
           e == [d EXCEPT ![k] = Append(@, p)]
<1>1. d \in [Sess -> Seq(Packets)]
  BY DEF Calls
<1>2. e \in [Sess -> Seq(Packets)]
  BY <1>1, SeqAppend
<1>3. e[k] = Append(d[k], p) /\ \A l \in Sess : l # k => e[l] = d[l]
  BY <1>1
<1>a. Send(X, k, p) = [X EXCEPT !.down = e]
  BY DEF Send
<1>4. Send(X, k, p) \in Calls
  BY <1>2, <1>a DEF Calls
<1>5. Send(X, k, p).s = X.s /\ Send(X, k, p).down = e
  <2> HIDE DEF e
  <2> QED
    BY <1>a DEF Calls
<1>6. ASSUME NEW l \in Sess
      PROVE  /\ Len(d[l]) <= Len(e[l])
             /\ \A n \in 1..Len(e[l]) :
                  IF n <= Len(d[l]) THEN e[l][n] = d[l][n] ELSE e[l][n] \in N
  <2>1. d[l] \in Seq(Packets)
    BY <1>1
  <2>2. CASE l = k
    <3>1. /\ Len(d[k]) \in Nat /\ Len(e[k]) = Len(d[k]) + 1
          /\ \A n \in 1..Len(d[k]) : e[k][n] = d[k][n]
          /\ e[k][Len(d[k]) + 1] = p
      BY <1>3, <2>1, <2>2, SeqAppend, SMTT(60)
    <3> QED
      BY <2>2, <3>1, SMTT(60)
  <2>3. CASE l # k
    BY <1>3, <2>1, <2>3, SMTT(60)
  <2> QED
    BY <2>2, <2>3
<1> QED
  BY <1>2, <1>4, <1>5, <1>6 DEF More

(* What a socket sends of stream r besides OKAY.                           *)
Notes(r) == {p \in Packets : p.cmd \in {"CLSE", "WRTE"} /\ p.a1 = r}

LEMMA PktType ==
  ASSUME NEW c \in {"SYNC", "CNXN", "OPEN", "OKAY", "CLSE", "WRTE"},
         NEW a \in Nat, NEW b \in Nat, NEW d \in Nat
  PROVE  /\ Pkt(c, a, b, d) \in Packets /\ Pkt(c, a, b, d).cmd = c
         /\ Pkt(c, a, b, d).a0 = a /\ Pkt(c, a, b, d).a1 = b
         /\ Pkt(c, a, b, d).data = d
  BY DEF Pkt, Packets

LEMMA SocketType ==
  ASSUME NEW s \in Sockets
  PROVE  /\ s.st \in {"none", "open", "closing", "freed"} /\ s.peer \in 0..MaxSess
         /\ s.rid \in Nat /\ s.q \in Seq(Nat) /\ s.fd \in Seq(Nat)
         /\ s.got \in Seq(Nat) /\ s.back \in {0, 1}
         /\ s.want \in SUBSET {"R", "W"} /\ s.ev \in SUBSET {"R", "W"}
         /\ s.wrtes \in Nat /\ s.okays \in Nat
  BY DEF Sockets

LEMMA CallType ==
  ASSUME NEW X \in Calls
  PROVE  X.s \in Sockets /\ X.down \in [Sess -> Seq(Packets)]
  BY DEF Calls

LEMMA CallExcept ==
  ASSUME NEW X \in Calls, NEW t \in Sockets
  PROVE  /\ [X EXCEPT !.s = t] \in Calls /\ [X EXCEPT !.s = t].s = t
         /\ [X EXCEPT !.s = t].down = X.down
  BY DEF Calls

(* local_socket_close leaves the socket without a peer, and tells the peer *)
(* it had.                                                                 *)
LEMMA CloseFades ==
  ASSUME NEW X \in Calls, Sane(X.s), X.s.st # "none"
  PROVE  LET Y == LocalSocketClose(X)
         IN /\ Y \in Calls /\ Fades(X.s, Y.s) /\ Y.s.peer = 0 /\ Y.s.st # "open"
            /\ More(X.down, Y.down, Notes(X.s.rid))
<1> DEFINE s == X.s
           u == [s EXCEPT !.peer = 0]
           N == Notes(s.rid)
           k == s.peer
           p == Pkt("CLSE", 0, s.rid, 0)
           Y == LocalSocketClose(X)
<1>1. s \in Sockets /\ X.down \in [Sess -> Seq(Packets)]
  BY CallType
<1>2. u \in Sockets
  <2>1. 0 \in 0..MaxSess
    BY AdbAssumption, SMTT(60)
  <2> QED
    BY <1>1, <2>1 DEF Sockets
<1>3. Fades(s, CloseAlone(u)) /\ CloseAlone(u).peer = 0 /\ CloseAlone(u).st # "open"
  BY <1>1, CloseAloneFades
<1>4. CloseAlone(u) \in Sockets
  BY <1>3 DEF Fades
<1>5. CASE k = 0
  <2>1. u = s
    BY <1>1, <1>5 DEF Sockets
  <2>2. Y = [X EXCEPT !.s = CloseAlone(s)]
    BY <1>5 DEF LocalSocketClose
  <2>3. Y \in Calls /\ Y.s = CloseAlone(u) /\ Y.down = X.down
    <3> HIDE DEF u, Y
    <3> QED
      BY <1>4, <2>1, <2>2, CallExcept
  <2> QED
    BY <1>1, <1>3, <2>3, MoreSame
<1>6. CASE k # 0
  <2>1. k \in Sess /\ s.rid \in Nat
    BY <1>1, <1>6, SocketType, AdbAssumption, SMTT(60) DEF Sess
  <2>2. p \in Packets /\ p \in N
    BY <2>1, PktType, SMTT(60) DEF Notes
  <2> DEFINE S == Send(X, k, p)
             C == RemoteSocketClose(X)
  <2>3. S \in Calls /\ S.s = s /\ More(X.down, S.down, N)
    <3> HIDE DEF p, N
    <3> QED
      BY <2>1, <2>2, SendMore
  <2>4. C = [S EXCEPT !.s = u]
    <3>1. C = [S EXCEPT !.s = [S.s EXCEPT !.peer = 0]]
      BY DEF RemoteSocketClose
    <3> QED
      BY <2>3, <3>1
  <2>5. C \in Calls /\ C.s = u /\ C.down = S.down
    <3> HIDE DEF S, C, u
    <3> QED
      BY <1>2, <2>3, <2>4, CallExcept
  <2>6. Y = [C EXCEPT !.s = CloseAlone(C.s)]
    BY <1>6 DEF LocalSocketClose
  <2>7. Y \in Calls /\ Y.s = CloseAlone(u) /\ Y.down = S.down
    <3> HIDE DEF S, C, u, Y
    <3> QED
      BY <1>4, <2>5, <2>6, CallExcept
  <2> QED
    BY <1>3, <2>3, <2>7
<1> QED
  BY <1>5, <1>6

(* The FDE_READ half of local_socket_event_func.                           *)
LEMMA ReadEventFades ==
  ASSUME NEW X \in Calls, NEW i \in Socks, Sound(X.s), X.s.st # "none"
  PROVE  LET Y == ReadEvent(X, i)
         IN Y \in Calls /\ Fades(X.s, Y.s) /\ More(X.down, Y.down, Notes(X.s.rid))
<1> DEFINE s == X.s
           r == [s EXCEPT !.back = 0]
           N == Notes(s.rid)
           Q == RemoteSocketEnqueue(X, i)
           f == FdeventSet(r, s.want \ {"R"})
           R == IF s.back = 0 \/ s.peer = 0 THEN [X EXCEPT !.s = r]
                ELSE [Q EXCEPT !.s = f]
<1>1. s \in Sockets /\ X.down \in [Sess -> Seq(Packets)]
  BY CallType
<1>2. r \in Sockets
  BY <1>1 DEF Sockets
<1>3. /\ r.st = s.st /\ r.peer = s.peer /\ r.rid = s.rid /\ r.want = s.want
      /\ r.q = s.q /\ r.fd = s.fd /\ r.got = s.got /\ r.ev = s.ev
      /\ r.okays = s.okays /\ r.wrtes = s.wrtes
  BY <1>1 DEF Sockets
<1>4. Sound(r) /\ Fades(s, r)
  BY <1>2, <1>3 DEF Fades, Sound, Sane, Alive
<1>5. R \in Calls /\ Fades(s, R.s) /\ More(X.down, R.down, N)
  <2>1. CASE s.back = 0 \/ s.peer = 0
    <3>1. R \in Calls /\ R.s = r /\ R.down = X.down
      <4>1. R = [X EXCEPT !.s = r]
        BY <2>1
      <4> HIDE DEF R, r
      <4> QED
        BY <1>2, <4>1, CallExcept
    <3> QED
      BY <1>1, <1>4, <3>1, MoreSame
  <2>2. CASE ~(s.back = 0 \/ s.peer = 0)
    <3> DEFINE k == s.peer
               p == Pkt("WRTE", i, s.rid, s.back)
    <3>1. k \in Sess /\ s.rid \in Nat /\ s.back \in Nat /\ i \in Nat
      <4>1. s.peer \in 0..MaxSess /\ s.rid \in Nat /\ s.back \in {0, 1}
        BY <1>1, SocketType
      <4> QED
        BY <2>2, <4>1, AdbAssumption, SMTT(60) DEF Sess, Socks
    <3>2. p \in Packets /\ p \in N
      <4>1. p \in Packets /\ p.cmd = "WRTE" /\ p.a1 = s.rid
        <5> HIDE DEF s
        <5> QED
          BY <3>1 DEF Pkt, Packets
      <4> HIDE DEF p
      <4> QED
        BY <4>1 DEF Notes
    <3>3. Q \in Calls /\ Q.s = s /\ More(X.down, Q.down, N)
      <4>1. Q = Send(X, k, p)
        BY DEF RemoteSocketEnqueue
      <4> HIDE DEF Q, p, N
      <4> QED
        BY <3>1, <3>2, <4>1, SendMore
    <3>4. /\ s.want \ {"R"} \in SUBSET {"R", "W"}
          /\ "W" \in (s.want \ {"R"}) \cup s.ev => s.q # <<>>
      BY <1>1, SocketType DEF Sound
    <3>5. Fades(r, f)
      <4> HIDE DEF r
      <4> QED
        BY <1>2, <1>3, <1>4, <3>4, FdeventSetFades DEF Sound
    <3>6. f \in Sockets /\ Fades(s, f)
      BY <1>4, <3>5, FadesTrans DEF Fades
    <3>7. R = [Q EXCEPT !.s = f]
      BY <2>2
    <3>8. R \in Calls /\ R.s = f /\ R.down = Q.down
      <4> HIDE DEF R, Q, f
      <4> QED
        BY <3>3, <3>6, <3>7, CallExcept
    <3> QED
      BY <3>3, <3>6, <3>8
  <2> QED
    BY <2>1, <2>2
<1>6. Sound(R.s) /\ R.s.st # "none" /\ R.s.rid = s.rid
  BY <1>5 DEF Fades
<1> DEFINE C == LocalSocketClose(R)
<1>7. C \in Calls /\ Fades(s, C.s) /\ More(X.down, C.down, N)
  <2>1. C \in Calls /\ Fades(R.s, C.s) /\ More(R.down, C.down, Notes(R.s.rid))
    <3> HIDE DEF R
    <3> QED
      BY <1>5, <1>6, CloseFades DEF Sound
  <2> HIDE DEF R, C, N
  <2>2. Notes(R.s.rid) = N
    BY <1>6 DEF N
  <2> QED
    BY <1>1, <1>5, <2>1, <2>2, FadesTrans, MoreTrans
<1>8. ReadEvent(X, i) = IF s.svc = "closed" THEN C ELSE R
  BY DEF ReadEvent
<1> QED
  <2> HIDE DEF R, C
  <2> QED
    BY <1>5, <1>7, <1>8

LEMMA Room ==
  ASSUME NEW a \in Nat, NEW b \in Nat, NEW c \in Nat, b <= c
  PROVE  LET n == IF c - b < a THEN c - b ELSE a
         IN n \in Nat /\ n <= a /\ b + n <= c
  BY SMTT(60)

(* A queue q of which the first n entries are appended to f.               *)
LEMMA SubSeqSplit ==
  ASSUME NEW q \in Seq(Nat), NEW n \in 0..Len(q)
  PROVE  LET h == SubSeq(q, 1, n)
             l == SubSeq(q, n + 1, Len(q))
         IN /\ h \in Seq(Nat) /\ Len(h) = n /\ \A i \in 1..n : h[i] = q[i]
            /\ l \in Seq(Nat) /\ Len(l) = Len(q) - n
            /\ \A i \in 1..(Len(q) - n) : l[i] = q[i + n]
<1> DEFINE h == SubSeq(q, 1, n)
           l == SubSeq(q, n + 1, Len(q))
<1>1. h \in Seq(Nat)
  BY SMTT(60)
<1>2. Len(h) = n
  BY SMTT(60)
<1>3. \A i \in 1..n : h[i] = q[i]
  BY SMTT(60)
<1>4. l \in Seq(Nat)
  BY SMTT(60)
<1>5. Len(l) = Len(q) - n
  BY SMTT(60)
<1>6. \A i \in 1..(Len(q) - n) : l[i] = q[i + n]
  BY SMTT(60)
<1> QED
  BY <1>1, <1>2, <1>3, <1>4, <1>5, <1>6

LEMMA SplitQueue ==
  ASSUME NEW q \in Seq(Nat), NEW f \in Seq(Nat), NEW n \in 0..Len(q),
         Len(f) + n <= FdBuf
  PROVE  LET h == SubSeq(q, 1, n)
             l == SubSeq(q, n + 1, Len(q))
         IN /\ l \in Seq(Nat) /\ f \o h \in Seq(Nat) /\ Len(f \o h) <= FdBuf
            /\ l = <<>> => f \o h = f \o q
            /\ l # <<>> /\ Len(q) <= 1 => l = q /\ f \o h = f
<1> DEFINE l == SubSeq(q, n + 1, Len(q))
           h == SubSeq(q, 1, n)
<1>1. /\ h \in Seq(Nat) /\ Len(h) = n /\ \A i \in 1..n : h[i] = q[i]
      /\ l \in Seq(Nat) /\ Len(l) = Len(q) - n
      /\ \A i \in 1..(Len(q) - n) : l[i] = q[i + n]
  BY SubSeqSplit
<1> SUFFICES /\ l \in Seq(Nat) /\ f \o h \in Seq(Nat) /\ Len(f \o h) <= FdBuf
             /\ l = <<>> => f \o h = f \o q
             /\ l # <<>> /\ Len(q) <= 1 => l = q /\ f \o h = f
  OBVIOUS
<1> HIDE DEF l, h
<1>2. f \o h \in Seq(Nat) /\ Len(f \o h) = Len(f) + Len(h)
  BY <1>1, SeqConcat
<1>3. Len(f \o h) <= FdBuf
  BY <1>1, <1>2
<1>4. ASSUME l = <<>> PROVE h = q
  <2>1. Len(h) = Len(q)
    BY <1>1, <1>4, SMTT(60)
  <2> QED
    BY <1>1, <2>1, SameElements
<1>5. ASSUME l # <<>>, Len(q) <= 1 PROVE l = q /\ h = <<>>
  <2>1. n = 0
    BY <1>1, <1>5, SMTT(60)
  <2>2. h = <<>>
    BY <1>1, <2>1, SMTT(60)
  <2>3. l = q
    BY <1>1, <2>1, SameElements, SMTT(60)
  <2> QED
    BY <2>2, <2>3
<1>6. f \o <<>> = f
  BY ConcatNothing
<1> QED
  BY <1>1, <1>2, <1>3, <1>4, <1>5, <1>6

(* The queue of the socket is written to the service.                      *)
Moves(s, t) ==
  /\ t \in Sockets /\ Sound(t)
  /\ t.rid = s.rid /\ t.got = s.got /\ t.fd = s.fd \o s.q /\ t.q = <<>>
  /\ t.st = "none" <=> s.st = "none"
  /\ t.st = "open" => /\ s.st = "open" /\ t.peer = s.peer
                      /\ t.okays = s.okays + 1 /\ t.wrtes = s.wrtes

(* What the event loop relies on.                                          *)
Keeps(s, t) ==
  /\ t \in Sockets /\ Sound(t) /\ t.rid = s.rid /\ t.peer \in {0, s.peer}
  /\ t.st = "none" <=> s.st = "none"

LEMMA FadesKeeps ==
  ASSUME NEW s, NEW t, Fades(s, t) \/ Moves(s, t)
  PROVE  Keeps(s, t)
  BY DEF Fades, Moves, Keeps, Sound, Sane

(* The OKAY for the peer of local socket i.                                *)
Okay(s, i) == Pkt("OKAY", i, s.rid, 0)
Acked(d, s, i) == [d EXCEPT ![s.peer] = Append(@, Okay(s, i))]

(* The FDE_WRITE half of local_socket_event_func.                          *)
LEMMA WriteEventDoes ==
  ASSUME NEW X \in Calls, NEW i \in Socks, Sane(X.s), Alive(X.s), X.s.ev = {},
         X.s.q # <<>>
  PROVE  LET Y == WriteEvent(X, i)
         IN /\ Y \in Calls
            /\ \/ Fades(X.s, Y.s) /\ More(X.down, Y.down, Notes(X.s.rid))
               \/ /\ Moves(X.s, Y.s) /\ Y.s.st # "open"
                  /\ More(X.down, Y.down, Notes(X.s.rid))
               \/ /\ Moves(X.s, Y.s) /\ Y.s.st = "open"
                  /\ Y.down = Acked(X.down, X.s, i)
               \/ Len(X.s.q) > 1 /\ Keeps(X.s, Y.s) /\ Y.down = X.down
<1> DEFINE s == X.s
           n == IF FdBuf - Len(s.fd) < Len(s.q) THEN FdBuf - Len(s.fd) ELSE Len(s.q)
           left == SubSeq(s.q, n + 1, Len(s.q))
           fd == s.fd \o SubSeq(s.q, 1, n)
           w == [s EXCEPT !.q = left, !.fd = fd]
           v == [w EXCEPT !.okays = @ + 1]
           f == FdeventSet(v, s.want \ {"W"})
           Y == WriteEvent(X, i)
<1>1. s \in Sockets /\ X.down \in [Sess -> Seq(Packets)]
  BY CallType
<1>2. /\ left \in Seq(Nat) /\ fd \in Seq(Nat) /\ Len(fd) <= FdBuf
      /\ left = <<>> => fd = s.fd \o s.q
      /\ left # <<>> /\ Len(s.q) <= 1 => left = s.q /\ fd = s.fd
  <2>1. s.q \in Seq(Nat) /\ s.fd \in Seq(Nat) /\ Len(s.fd) <= FdBuf
    BY <1>1, SocketType DEF Sane
  <2>2. n = IF FdBuf - Len(s.fd) < Len(s.q) THEN FdBuf - Len(s.fd) ELSE Len(s.q)
    OBVIOUS
  <2> HIDE DEF s, n
  <2>3. n \in 0..Len(s.q) /\ Len(s.fd) + n <= FdBuf
    <3>1. Len(s.q) \in Nat /\ Len(s.fd) \in Nat /\ FdBuf \in Nat
      BY <2>1, LenType, AdbAssumption
    <3>2. n \in Nat /\ n <= Len(s.q) /\ Len(s.fd) + n <= FdBuf
      BY <2>1, <2>2, <3>1, Room
    <3> QED
      BY <3>1, <3>2, SMTT(60)
  <2> QED
    BY <2>1, <2>3, SplitQueue
<1>3. Y = IF s.svc = "closed" THEN LocalSocketClose(X)
          ELSE IF left # <<>> THEN [X EXCEPT !.s = w]
          ELSE IF s.st = "closing" THEN LocalSocketClose([X EXCEPT !.s = w])
          ELSE RemoteSocketReady([X EXCEPT !.s = f], i)
  <2>1. Y = IF s.q # <<>> /\ s.svc = "closed" THEN LocalSocketClose(X)
          ELSE IF left # <<>> THEN [X EXCEPT !.s = w]
          ELSE IF s.st = "closing" THEN LocalSocketClose([X EXCEPT !.s = w])
          ELSE RemoteSocketReady([X EXCEPT !.s = f], i)
    BY DEF WriteEvent
  <2> HIDE DEF Y, w, left, f
  <2> QED
    BY <2>1
<1> SUFFICES
       /\ Y \in Calls
       /\ \/ Fades(s, Y.s) /\ More(X.down, Y.down, Notes(s.rid))
          \/ Moves(s, Y.s) /\ Y.s.st # "open" /\ More(X.down, Y.down, Notes(s.rid))
          \/ Moves(s, Y.s) /\ Y.s.st = "open" /\ Y.down = Acked(X.down, s, i)
          \/ Len(s.q) > 1 /\ Keeps(s, Y.s) /\ Y.down = X.down
  OBVIOUS
<1> HIDE DEF n, left, fd, Y
<1>4. w \in Sockets
  BY <1>1, <1>2 DEF Sockets
<1>5. /\ w.st = s.st /\ w.peer = s.peer /\ w.rid = s.rid /\ w.want = s.want
      /\ w.q = left /\ w.fd = fd /\ w.got = s.got /\ w.ev = s.ev
      /\ w.okays = s.okays /\ w.wrtes = s.wrtes
  BY <1>1 DEF Sockets
<1>6. Sane(w) /\ w.st # "none"
  BY <1>2, <1>5 DEF Sane, Alive
<1> HIDE DEF w
<1>7. CASE s.svc = "closed"
  <2>1. Y = LocalSocketClose(X)
    BY <1>3, <1>7
  <2>2. s.st # "none"
    BY DEF Alive
  <2> QED
    BY <2>1, <2>2, CloseFades
<1>8. CASE s.svc # "closed" /\ left # <<>>
  <2>1. Y = [X EXCEPT !.s = w]
    BY <1>3, <1>8
  <2>2. Y \in Calls /\ Y.s = w /\ Y.down = X.down
    BY <1>4, <2>1, CallExcept
  <2>3. Sound(w)
    BY <1>5, <1>6, <1>8 DEF Sound
  <2>4. CASE Len(s.q) <= 1
    <3>1. left = s.q /\ fd = s.fd
      BY <1>2, <1>8, <2>4
    <3>2. Fades(s, w)
      BY <1>4, <1>5, <2>3, <3>1 DEF Fades
    <3> QED
      BY <1>1, <2>2, <3>2, MoreSame
  <2>5. CASE ~(Len(s.q) <= 1)
    <3>1. Len(s.q) > 1
      <4>1. s.q \in Seq(Nat)
        BY <1>1, SocketType
      <4> HIDE DEF s
      <4> QED
        BY <2>5, <4>1, SMTT(60)
    <3>2. Keeps(s, w)
      BY <1>4, <1>5, <2>3 DEF Keeps
    <3> QED
      BY <2>2, <3>1, <3>2
  <2> QED
    BY <2>4, <2>5
<1>9. CASE s.svc # "closed" /\ left = <<>> /\ s.st = "closing"
  <2> DEFINE Z == [X EXCEPT !.s = w]
  <2>1. Y = LocalSocketClose(Z)
    BY <1>3, <1>9
  <2>2. Z \in Calls /\ Z.s = w /\ Z.down = X.down
    BY <1>4, CallExcept
  <2> HIDE DEF Z
  <2>3. /\ Y \in Calls /\ Fades(w, Y.s) /\ Y.s.peer = 0 /\ Y.s.st # "open"
        /\ More(X.down, Y.down, Notes(s.rid))
    <3>1. /\ Y \in Calls /\ Fades(Z.s, Y.s) /\ Y.s.peer = 0 /\ Y.s.st # "open"
          /\ More(Z.down, Y.down, Notes(Z.s.rid))
      BY <1>6, <2>1, <2>2, CloseFades
    <3> QED
      BY <1>5, <2>2, <3>1
  <2>4. Moves(s, Y.s)
    <3>1. w.q = <<>> /\ w.fd = s.fd \o s.q
      BY <1>2, <1>5, <1>9
    <3> QED
      BY <1>5, <2>3, <3>1 DEF Moves, Fades
  <2> QED
    BY <2>3, <2>4
<1>10. CASE s.svc # "closed" /\ left = <<>> /\ s.st # "closing"
  <2>1. Y = RemoteSocketReady([X EXCEPT !.s = f], i)
    BY <1>3, <1>10
  <2>2. s.okays + 1 \in Nat
    <3>1. s.okays \in Nat
      BY <1>1, SocketType
    <3> QED
      BY <3>1, SMTT(60)
  <2>3. v \in Sockets
    BY <1>4, <1>5, <2>2 DEF Sockets
  <2>4. /\ v.st = s.st /\ v.peer = s.peer /\ v.rid = s.rid
        /\ v.q = left /\ v.fd = fd /\ v.got = s.got /\ v.ev = s.ev
        /\ v.okays = s.okays + 1 /\ v.wrtes = s.wrtes
    BY <1>4, <1>5 DEF Sockets
  <2>5. Sane(v) /\ v.st = "open" /\ v.q = <<>> /\ v.fd = s.fd \o s.q
    BY <1>2, <1>10, <2>4 DEF Sane, Alive
  <2>6. /\ s.want \ {"W"} \in SUBSET {"R", "W"}
        /\ "W" \notin (s.want \ {"W"}) \cup v.ev
    BY <1>1, <2>4, SocketType
  <2> HIDE DEF v
  <2>7. Fades(v, f) /\ f.st = "open" /\ f.peer = s.peer /\ f.okays = v.okays /\ f.wrtes = v.wrtes
    BY <2>3, <2>4, <2>5, <2>6, FdeventSetFades
  <2> HIDE DEF f
  <2>8. Moves(s, f) /\ f \in Sockets /\ f.rid = s.rid
    BY <1>10, <2>4, <2>5, <2>7 DEF Moves, Fades, Alive
  <2> DEFINE Z == [X EXCEPT !.s = f]
  <2>9. Z \in Calls /\ Z.s = f /\ Z.down = X.down
    BY <2>8, CallExcept
  <2>10. Y = [Z EXCEPT !.down[s.peer] = Append(@, Okay(s, i))]
    <3>1. Y = [Z EXCEPT !.down[Z.s.peer] = Append(@, Pkt("OKAY", i, Z.s.rid, 0))]
      BY <2>1 DEF RemoteSocketReady, Send
    <3> HIDE DEF Z
    <3> QED
      BY <2>7, <2>8, <2>9, <3>1 DEF Okay
  <2> HIDE DEF Z
  <2>11. s.peer \in Sess /\ s.rid \in Nat /\ i \in Nat
    <3>1. s.peer \in 0..MaxSess /\ s.rid \in Nat /\ s.peer # 0
      BY <1>1, <2>4, <2>5, SocketType DEF Sane
    <3> QED
      BY <3>1, AdbAssumption, SMTT(60) DEF Sess, Socks
  <2>12. Okay(s, i) \in Packets
    <3> HIDE DEF s
    <3> QED
      BY <2>11 DEF Okay, Pkt, Packets
  <2>13. Acked(X.down, s, i) \in [Sess -> Seq(Packets)]
    BY <1>1, <2>11, <2>12, SeqAppend DEF Acked
  <2>14. Y = [Z EXCEPT !.down = Acked(X.down, s, i)]
    BY <2>9, <2>10 DEF Acked
  <2>15. Y \in Calls /\ Y.s = f /\ Y.down = Acked(X.down, s, i)
    BY <2>9, <2>13, <2>14 DEF Calls
  <2> QED
    BY <2>7, <2>8, <2>15
<1> QED
  BY <1>7, <1>8, <1>9, <1>10

(* local_socket_event_func on local socket i, which was s: what it leaves  *)
(* in Y.                                                                   *)
EventOutcome(s, i, Y) ==
  \/ Fades(s, Y.s) /\ More(down, Y.down, Notes(s.rid))
  \/ Moves(s, Y.s) /\ Y.s.st # "open" /\ More(down, Y.down, Notes(s.rid))
  \/ /\ Moves(s, Y.s) /\ s.st = "open" /\ s.q # <<>>
     /\ More(Acked(down, s, i), Y.down, Notes(s.rid))
  \/ Len(s.q) > 1 /\ Keeps(s, Y.s) /\ More(down, Y.down, Notes(s.rid))

LEMMA SocketEventDoes ==
  ASSUME NEW i \in Socks, sk[i] \in Sockets, down \in [Sess -> Seq(Packets)],
         Sound(sk[i]), sk[i].ev # {}
  PROVE  SocketEvent(i) \in Calls /\ EventOutcome(sk[i], i, SocketEvent(i))
<1> DEFINE s == sk[i]
           x == [s EXCEPT !.ev = {}]
           X == [Call(i) EXCEPT !.s.ev = {}]
           W == IF "W" \in s.ev THEN WriteEvent(X, i) ELSE X
           Y == SocketEvent(i)
<1>1. x \in Sockets
  BY DEF Sockets
<1>2. /\ x.st = s.st /\ x.peer = s.peer /\ x.rid = s.rid /\ x.want = s.want
      /\ x.q = s.q /\ x.fd = s.fd /\ x.got = s.got /\ x.ev = {}
      /\ x.okays = s.okays /\ x.wrtes = s.wrtes
  BY DEF Sockets
<1>3. Call(i) \in Calls /\ Call(i).s = s /\ Call(i).down = down
  BY DEF Call, Calls
<1>4. X \in Calls /\ X.s = x /\ X.down = down
  <2>1. X = [Call(i) EXCEPT !.s = [Call(i).s EXCEPT !.ev = {}]]
    OBVIOUS
  <2>2. X = [Call(i) EXCEPT !.s = x]
    BY <1>3, <2>1
  <2> HIDE DEF x, X
  <2> QED
    BY <1>1, <1>3, <2>2, CallExcept
<1>5. Sane(x) /\ Sound(x) /\ Alive(x) /\ x.st # "none"
  <2>1. Sane(x) /\ Alive(x) /\ x.st # "none"
    BY <1>2 DEF Sound, Sane, Alive
  <2>2. "W" \in x.want \cup x.ev => "W" \in s.want \cup s.ev
    BY <1>2
  <2> QED
    BY <1>2, <2>1, <2>2 DEF Sound
<1>6. "W" \in s.ev => s.q # <<>>
  <2>1. "W" \in s.ev => "W" \in s.want \cup s.ev
    OBVIOUS
  <2> QED
    BY <2>1 DEF Sound
<1>7. ASSUME NEW t
      PROVE  /\ Fades(x, t) => Fades(s, t)
             /\ Moves(x, t) => Moves(s, t)
             /\ Keeps(x, t) => Keeps(s, t)
  BY <1>2 DEF Fades, Moves, Keeps
<1>8. W \in Calls /\ \/ Fades(x, W.s) /\ More(down, W.down, Notes(s.rid))
                     \/ /\ Moves(x, W.s) /\ W.s.st # "open"
                        /\ More(down, W.down, Notes(s.rid))
                     \/ /\ Moves(x, W.s) /\ W.s.st = "open" /\ s.q # <<>>
                        /\ W.down = Acked(down, s, i)
                     \/ Len(s.q) > 1 /\ Keeps(x, W.s) /\ W.down = down
  <2>1. CASE "W" \in s.ev
    <3>1. W = WriteEvent(X, i)
      BY <2>1
    <3>2. Acked(down, x, i) = Acked(down, s, i)
      BY <1>2 DEF Acked, Okay
    <3> HIDE DEF W, X, x
    <3>3. Sane(X.s) /\ Alive(X.s) /\ X.s.ev = {} /\ X.s.q # <<>>
      BY <1>2, <1>4, <1>5, <1>6, <2>1
    <3>4. W \in Calls /\ \/ Fades(X.s, W.s) /\ More(X.down, W.down, Notes(X.s.rid))
                         \/ /\ Moves(X.s, W.s) /\ W.s.st # "open"
                            /\ More(X.down, W.down, Notes(X.s.rid))
                         \/ /\ Moves(X.s, W.s) /\ W.s.st = "open"
                            /\ W.down = Acked(X.down, X.s, i)
                         \/ Len(X.s.q) > 1 /\ Keeps(X.s, W.s) /\ W.down = X.down
      BY <1>4, <3>1, <3>3, WriteEventDoes
    <3> QED
      BY <1>2, <1>4, <1>6, <2>1, <3>2, <3>4
  <2>2. CASE "W" \notin s.ev
    <3>1. W = X
      BY <2>2
    <3>2. Fades(x, x)
      BY <1>1, <1>5 DEF Fades
    <3> HIDE DEF W, X, x
    <3> QED
      BY <1>4, <3>1, <3>2, MoreSame
  <2> QED
    BY <2>1, <2>2
<1>9. Y = IF "R" \in s.ev /\ ~("W" \in s.ev /\ (W.s.st # "open" \/ W.s.q # <<>>))
          THEN ReadEvent(W, i) ELSE W
  BY DEF SocketEvent
<1> SUFFICES Y \in Calls /\ EventOutcome(s, i, Y)
  OBVIOUS
<1> HIDE DEF Y, X, x, W
<1>10. CASE Y = W
  <2>1. Keeps(x, W.s) /\ W.down = down => More(down, W.down, Notes(s.rid))
    BY MoreSame
  <2>2. W.down = Acked(down, s, i) => More(Acked(down, s, i), W.down, Notes(s.rid))
    <3>1. W.down \in [Sess -> Seq(Packets)]
      BY <1>8, CallType
    <3> QED
      BY <3>1, MoreSame
  <2>3. Moves(x, W.s) /\ W.s.st = "open" => s.st = "open"
    BY <1>2 DEF Moves
  <2> QED
    BY <1>7, <1>8, <1>10, <2>1, <2>2, <2>3 DEF EventOutcome
<1>11. CASE Y # W
  <2>1. Y = ReadEvent(W, i) /\ ("W" \in s.ev => W.s.st = "open")
    BY <1>9, <1>11
  <2>2. Keeps(x, W.s)
    BY <1>8, FadesKeeps
  <2>3. Sound(W.s) /\ W.s.st # "none" /\ W.s.rid = s.rid
    BY <1>2, <1>5, <2>2 DEF Keeps
  <2>4. Y \in Calls /\ Fades(W.s, Y.s) /\ More(W.down, Y.down, Notes(s.rid))
    BY <1>8, <2>1, <2>3, ReadEventFades
  <2>5. CASE Fades(x, W.s) /\ More(down, W.down, Notes(s.rid))
    <3>1. Fades(x, Y.s) /\ More(down, Y.down, Notes(s.rid))
      BY <2>4, <2>5, FadesTrans, MoreTrans
    <3> QED
      BY <1>7, <2>4, <3>1 DEF EventOutcome
  <2>6. CASE Moves(x, W.s) /\ W.s.st # "open" /\ More(down, W.down, Notes(s.rid))
    <3>1. Moves(x, Y.s) /\ Y.s.st # "open"
      BY <2>4, <2>6 DEF Moves, Fades
    <3>2. More(down, Y.down, Notes(s.rid))
      BY <2>4, <2>6, MoreTrans
    <3> QED
      BY <1>7, <2>4, <3>1, <3>2 DEF EventOutcome
  <2>7. CASE /\ Moves(x, W.s) /\ W.s.st = "open" /\ s.q # <<>>
             /\ W.down = Acked(down, s, i)
    <3>1. Moves(x, Y.s) /\ s.st = "open"
      BY <1>2, <2>4, <2>7 DEF Moves, Fades
    <3> QED
      BY <1>7, <2>4, <2>7, <3>1 DEF EventOutcome
  <2>8. CASE Len(s.q) > 1 /\ Keeps(x, W.s) /\ W.down = down
    <3>1. Keeps(W.s, Y.s)
      BY <2>4, FadesKeeps
    <3>2. Keeps(x, Y.s)
      BY <2>8, <3>1 DEF Keeps
    <3> QED
      BY <1>7, <2>4, <2>8, <3>2 DEF EventOutcome
  <2> QED
    BY <1>8, <2>5, <2>6, <2>7, <2>8
<1> QED
  BY <1>10, <1>11

-----------------------------------------------------------------------------
(* The life of a transport, from the opener to its last thread.            *)

Left == {"kick", "unref", "exited"}
Running(th) == IF th = "exited" THEN 0 ELSE 1

LifeOf(t) ==
  /\ t.st \in {"none", "queued"} =>
       /\ t.out = "none" /\ t.inp = "none" /\ t.conn = "offline" /\ ~t.kicked
  /\ t.st \in {"live", "freed"} => t.out # "none" /\ t.inp # "none"
  /\ t.st = "live" => t.ref = Running(t.out) + Running(t.inp)
  /\ t.st = "freed" => t.out = "exited" /\ t.inp = "exited"
  /\ t.out \in {"unref", "exited"} \/ t.inp \in {"unref", "exited"} => t.kicked
  /\ t.kicked => t.out \in Left

LifeInv ==
  /\ opener = "register" =>
       nsess \in Sess /\ tr[nsess].st = "none" /\ usbFd = nsess
  /\ \A k \in Sess :
       /\ LifeOf(tr[k])
       /\ k > nsess => tr[k].st = "none"
       /\ tr[k].st \in {"none", "queued"} => up[k] = <<>>

(* What is in the registration socketpair: new transports, and old ones    *)
(* that both threads have left; each transport at most once.               *)
RegInv ==
  /\ \A n \in 1..Len(reg) :
       IF reg[n][2] = 1 THEN tr[reg[n][1]].st = "queued"
       ELSE /\ tr[reg[n][1]].st = "live"
            /\ tr[reg[n][1]].out = "exited" /\ tr[reg[n][1]].inp = "exited"
  /\ \A m, n \in 1..Len(reg) : reg[m][1] = reg[n][1] => m = n

(* SYNC(0, 0) is the last packet of the output thread; once it is on its   *)
(* way to the input thread the transport is offline for good.              *)
IsStop(p) == p.cmd = "SYNC" /\ p.a0 # 1
Stopping(k) ==
  \/ tr[k].inp \in {"closeall"} \cup Left
  \/ \E n \in 1..Len(down[k]) : IsStop(down[k][n])

StopOf(k) ==
  /\ \A n \in 1..Len(up[k]) :
       IsStop(up[k][n]) => n = Len(up[k]) /\ tr[k].out \in Left
  /\ Stopping(k) => tr[k].out \in Left /\ up[k] = <<>> /\ tr[k].conn = "offline"
StopInv == \A k \in Sess : StopOf(k)

(* Sockets are sound, and joined to transports that can carry them.        *)
Carries(t) == t.st = "live" /\ t.inp = "read" /\ t.conn = "host"
SoundInv ==
  \A i \in Socks : Sound(sk[i]) /\ (sk[i].peer # 0 => Carries(tr[sk[i].peer]))

PendInv ==
  \A k \in pend : IF k = 0 THEN reg # <<>> ELSE tr[k].st = "live" /\ up[k] # <<>>

LoopInv ==
  /\ AdbTypeOK /\ LifeInv /\ RegInv /\ StopInv
  /\ SoundInv /\ PendInv /\ OwnDevice

(* The registration socketpair grows only where a transport begins or      *)
(* ends; every other step is steady, for each transport.                   *)
Steady(k) ==
  LET t == tr[k]
      u == tr'[k]
  IN \/ u = t /\ up'[k] = up[k]
     \/ /\ t.st = "live" /\ u.st = "live" /\ u.ref = t.ref /\ u.kicked = t.kicked
        /\ \/ u.inp = t.inp
           \/ t.inp \in {"read", "closeall"} /\ u.inp \in {"closeall", "kick"}
        /\ \/ u.out = t.out
           \/ /\ t.out \in {"start", "read"} /\ u.out \in {"read", "kick"}
              /\ u.out = "read" => usbFd = k

LEMMA SteadyStep ==
  ASSUME LoopInv, UNCHANGED <<usbFd, nsess, opener, reg>>, \A k \in Sess : Steady(k)
  PROVE  LifeInv' /\ RegInv' /\ OwnDevice'
<1>1. ASSUME NEW k \in Sess
      PROVE  /\ tr'[k].st = tr[k].st
             /\ LifeOf(tr'[k])
             /\ tr[k].st \in {"none", "queued"} => up'[k] = up[k]
             /\ tr[k].out = "exited" /\ tr[k].inp = "exited" =>
                  tr'[k].out = "exited" /\ tr'[k].inp = "exited"
             /\ tr'[k].out = "read" \/ ~tr'[k].kicked =>
                  tr[k].out = "read" \/ ~tr[k].kicked \/ usbFd = k
  <2>1. LifeOf(tr[k])
    BY DEF LoopInv, LifeInv
  <2>2. CASE tr'[k] = tr[k] /\ up'[k] = up[k]
    <3>1. LifeOf(tr'[k])
      BY <2>1, <2>2 DEF LifeOf
    <3> QED
      BY <2>2, <3>1, SMTT(60)
  <2>3. CASE ~(tr'[k] = tr[k] /\ up'[k] = up[k])
    <3>1. Steady(k)
      OBVIOUS
    <3>2. Running(tr'[k].out) = Running(tr[k].out) /\ Running(tr'[k].inp) = Running(tr[k].inp)
      BY <2>3, <3>1 DEF Steady, Running
    <3> QED
      BY <2>1, <2>3, <3>1, <3>2 DEF Steady, LifeOf, Left
  <2> QED
    BY <2>2, <2>3
<1>2. LifeInv'
  BY <1>1 DEF LoopInv, LifeInv
<1>3. \A n \in 1..Len(reg) : reg[n][1] \in Sess
  <2>1. reg \in Seq(Sess \X {0, 1})
    BY DEF LoopInv, AdbTypeOK
  <2> QED
    BY <2>1, SMTT(60)
<1>4. RegInv'
  <2>1. ASSUME NEW n \in 1..Len(reg)
        PROVE  IF reg[n][2] = 1 THEN tr'[reg[n][1]].st = "queued"
               ELSE /\ tr'[reg[n][1]].st = "live"
                    /\ tr'[reg[n][1]].out = "exited" /\ tr'[reg[n][1]].inp = "exited"
    <3>1. IF reg[n][2] = 1 THEN tr[reg[n][1]].st = "queued"
          ELSE /\ tr[reg[n][1]].st = "live"
               /\ tr[reg[n][1]].out = "exited" /\ tr[reg[n][1]].inp = "exited"
      BY DEF LoopInv, RegInv
    <3> QED
      BY <1>1, <1>3, <3>1
  <2> QED
    BY <2>1 DEF LoopInv, RegInv
<1>5. OwnDevice'
  BY <1>1 DEF LoopInv, OwnDevice
<1> QED
  BY <1>2, <1>4, <1>5

-----------------------------------------------------------------------------
(* Frames: what a step leaves of each part of the invariant.               *)

LEMMA StateTypes ==
  ASSUME AdbTypeOK
  PROVE  /\ \A k \in Sess : /\ tr[k] \in Transports /\ host[k] \in Hosts
                            /\ up[k] \in Seq(Packets) /\ down[k] \in Seq(Packets)
         /\ \A i \in Socks : sk[i] \in Sockets
         /\ \A n \in 1..Len(reg) : reg[n][1] \in Sess /\ reg[n][2] \in {0, 1}
<1>1. reg \in Seq(Sess \X {0, 1})
  BY DEF AdbTypeOK
<1>2. \A n \in 1..Len(reg) : reg[n][1] \in Sess /\ reg[n][2] \in {0, 1}
  BY <1>1, SMTT(60)
<1> QED
  BY <1>2 DEF AdbTypeOK

LEMMA TransportType ==
  ASSUME NEW t \in Transports
  PROVE  /\ t.st \in {"none", "queued", "live", "freed"}
         /\ t.conn \in {"offline", "host"} /\ t.ref \in 0..2
         /\ t.kicked \in BOOLEAN /\ t.active \in BOOLEAN
         /\ t.out \in {"none", "start", "read", "kick", "unref", "exited"}
         /\ t.inp \in {"none", "read", "closeall", "kick", "unref", "exited"}
  BY DEF Transports

(* One transport is replaced.                                              *)
LEMMA OneTransport ==
  ASSUME AdbTypeOK, NEW k \in Sess, NEW u \in Transports, tr' = [tr EXCEPT ![k] = u]
  PROVE  /\ tr' \in [Sess -> Transports] /\ tr'[k] = u
         /\ \A l \in Sess : l # k => tr'[l] = tr[l]
  BY DEF AdbTypeOK

(* One of the socketpairs gets a packet, or loses its first one.           *)
LEMMA PairAppend ==
  ASSUME NEW d \in [Sess -> Seq(Packets)], NEW k \in Sess, NEW p \in Packets,
         NEW e, e = [d EXCEPT ![k] = Append(@, p)]
  PROVE  /\ e \in [Sess -> Seq(Packets)] /\ \A l \in Sess : l # k => e[l] = d[l]
         /\ Len(d[k]) \in Nat /\ Len(e[k]) = Len(d[k]) + 1 /\ e[k] # <<>>
         /\ \A n \in 1..Len(d[k]) : e[k][n] = d[k][n]
         /\ e[k][Len(d[k]) + 1] = p
<1>1. d[k] \in Seq(Packets)
  OBVIOUS
<1>2. e[k] = Append(d[k], p) /\ \A l \in Sess : l # k => e[l] = d[l]
  OBVIOUS
<1>3. e \in [Sess -> Seq(Packets)]
  BY <1>1, SeqAppend
<1>4. /\ Len(d[k]) \in Nat /\ Append(d[k], p) # <<>>
      /\ Len(Append(d[k], p)) = Len(d[k]) + 1
      /\ \A n \in 1..Len(d[k]) : Append(d[k], p)[n] = d[k][n]
      /\ Append(d[k], p)[Len(d[k]) + 1] = p
  BY <1>1, SeqAppend, SMTT(60)
<1> QED
  BY <1>2, <1>3, <1>4

LEMMA PairTail ==
  ASSUME NEW d \in [Sess -> Seq(Packets)], NEW k \in Sess, d[k] # <<>>,
         NEW e, e = [d EXCEPT ![k] = Tail(@)]
  PROVE  /\ e \in [Sess -> Seq(Packets)] /\ \A l \in Sess : l # k => e[l] = d[l]
         /\ Len(d[k]) \in Nat \ {0} /\ Len(e[k]) = Len(d[k]) - 1
         /\ \A n \in 1..Len(e[k]) : e[k][n] = d[k][n + 1]
         /\ Head(d[k]) = d[k][1] /\ Head(d[k]) \in Packets
<1>1. d[k] \in Seq(Packets)
  OBVIOUS
<1>2. e[k] = Tail(d[k]) /\ \A l \in Sess : l # k => e[l] = d[l]
  OBVIOUS
<1>3. e \in [Sess -> Seq(Packets)]
  BY <1>1, SeqTail
<1>4. /\ Head(d[k]) \in Packets /\ Head(d[k]) = d[k][1]
      /\ Len(d[k]) \in Nat \ {0} /\ Len(Tail(d[k])) = Len(d[k]) - 1
      /\ \A n \in 1..(Len(d[k]) - 1) : Tail(d[k])[n] = d[k][n + 1]
  BY <1>1, SeqTail
<1> QED
  BY <1>2, <1>3, <1>4

LEMMA StopSame ==
  ASSUME NEW k \in Sess, StopOf(k), up'[k] = up[k], down'[k] = down[k],
         tr'[k].out = tr[k].out \/ tr'[k].out \in Left,
         tr'[k].inp = tr[k].inp \/ Stopping(k), tr'[k].conn = tr[k].conn
  PROVE  StopOf(k)'
<1>1. Stopping(k)' => Stopping(k)
  BY DEF Stopping
<1> QED
  BY <1>1 DEF StopOf

(* A packet of the output thread.                                          *)
LEMMA StopGrows ==
  ASSUME AdbTypeOK, StopInv, NEW k \in Sess, NEW p \in Packets, tr[k].out \notin Left,
         up' = [up EXCEPT ![k] = Append(@, p)], down' = down,
         IsStop(p) => tr'[k].out \in Left, tr'[k].inp = tr[k].inp,
         \A l \in Sess : l # k => tr'[l] = tr[l]
  PROVE  StopInv'
<1>0. up \in [Sess -> Seq(Packets)]
  BY DEF AdbTypeOK
<1>1. /\ \A l \in Sess : l # k => up'[l] = up[l]
      /\ Len(up[k]) \in Nat /\ Len(up'[k]) = Len(up[k]) + 1 /\ up'[k] # <<>>
      /\ \A n \in 1..Len(up[k]) : up'[k][n] = up[k][n]
      /\ up'[k][Len(up[k]) + 1] = p
  BY <1>0, PairAppend, SMTT(60)
<1>2. StopOf(k)'
  <2>1. ASSUME NEW n \in 1..Len(up'[k]), IsStop(up'[k][n])
        PROVE  n = Len(up'[k]) /\ tr'[k].out \in Left
    <3>1. n \in 1..Len(up[k]) \/ n = Len(up[k]) + 1
      BY <1>1, SMTT(60)
    <3>2. n \notin 1..Len(up[k])
      BY <1>1, <2>1 DEF StopInv, StopOf
    <3> QED
      BY <1>1, <2>1, <3>1, <3>2
  <2>2. ~Stopping(k)
    BY DEF StopInv, StopOf
  <2>3. ~Stopping(k)'
    BY <2>2 DEF Stopping
  <2> QED
    BY <2>1, <2>3 DEF StopOf
<1>3. \A l \in Sess : l # k => StopOf(l)'
  BY <1>1, StopSame DEF StopInv
<1> QED
  BY <1>2, <1>3 DEF StopInv

LEMMA SoundSame ==
  ASSUME SoundInv, AdbTypeOK, sk' = sk,
         \A k \in Sess : Carries(tr[k]) => Carries(tr'[k])
  PROVE  SoundInv'
<1>1. \A i \in Socks : sk[i].peer # 0 => sk[i].peer \in Sess
  <2> TAKE i \in Socks
  <2>1. sk[i].peer \in 0..MaxSess
    BY SocketType DEF AdbTypeOK
  <2> QED
    BY <2>1, AdbAssumption, SMTT(60) DEF Sess
<1> QED
  BY <1>1 DEF SoundInv

LEMMA PendSame ==
  ASSUME PendInv, AdbTypeOK, pend' \subseteq pend,
         0 \in pend' => reg' = reg \/ reg' # <<>>,
         \A k \in Sess \cap pend' :
           (tr[k].st = "live" => tr'[k].st = "live") /\ (up'[k] = up[k] \/ up'[k] # <<>>)
  PROVE  PendInv'
<1>1. \A k \in pend : k # 0 => k \in Sess
  BY AdbAssumption, SMTT(60) DEF AdbTypeOK, Sess
<1> SUFFICES ASSUME NEW k \in pend'
             PROVE  IF k = 0 THEN reg' # <<>> ELSE tr'[k].st = "live" /\ up'[k] # <<>>
  BY DEF PendInv
<1>2. IF k = 0 THEN reg # <<>> ELSE tr[k].st = "live" /\ up[k] # <<>>
  BY DEF PendInv
<1> QED
  BY <1>1, <1>2

LEMMA Unmoved ==
  ASSUME RegInv, StopInv, SoundInv, PendInv, UNCHANGED <<tr, loopVars>>
  PROVE  RegInv' /\ StopInv' /\ SoundInv' /\ PendInv'
<1>0. UNCHANGED <<tr, reg, up, down, sk, pend>>
  BY DEF loopVars
<1>1. RegInv'
  BY <1>0 DEF RegInv
<1>2. StopInv'
  BY <1>0 DEF StopInv, StopOf, Stopping
<1>3. SoundInv'
  BY <1>0 DEF SoundInv
<1>4. PendInv'
  BY <1>0 DEF PendInv
<1> QED
  BY <1>1, <1>2, <1>3, <1>4

-----------------------------------------------------------------------------
(* usb_linux_client.c                                                      *)

LEMMA UsbOpenStep ==
  ASSUME LoopInv, UsbOpen
  PROVE  LoopInv'
<1>0. AdbTypeOK /\ LifeInv /\ OwnDevice
  BY DEF LoopInv
<1>1. /\ nsess + 1 \in 0..MaxSess /\ nsess + 1 \in Sess
      /\ \A k \in Sess : k # 0 /\ (k >= nsess + 1 => k > nsess) /\ ~(nsess + 1 > nsess + 1)
      /\ \A k \in Sess : k > nsess + 1 => k > nsess
  <2>1. nsess \in 0..MaxSess /\ nsess < MaxSess
    BY <1>0 DEF AdbTypeOK, UsbOpen
  <2> QED
    BY <2>1, AdbAssumption, SMTT(60) DEF Sess
<1>2. nsess + 1 > nsess
  <2>1. nsess \in 0..MaxSess
    BY <1>0 DEF AdbTypeOK
  <2> QED
    BY <2>1, AdbAssumption, SMTT(60)
<1>3. AdbTypeOK'
  BY <1>0, <1>1 DEF AdbTypeOK, UsbOpen, loopVars
<1>4. LifeInv'
  BY <1>0, <1>1, <1>2 DEF LifeInv, UsbOpen, loopVars
<1>5. OwnDevice'
  BY <1>0, <1>1 DEF OwnDevice, UsbOpen, loopVars
<1> QED
  BY <1>3, <1>4, <1>5, Unmoved DEF LoopInv, UsbOpen

LEMMA RegisterStep ==
  ASSUME LoopInv, RegisterUsbTransport
  PROVE  LoopInv'
<1> DEFINE k == nsess
           u == [tr[k] EXCEPT !.st = "queued"]
<1>0. AdbTypeOK /\ LifeInv /\ RegInv /\ StopInv /\ SoundInv /\ PendInv /\ OwnDevice
  BY DEF LoopInv
<1>1. k \in Sess /\ tr[k].st = "none" /\ usbFd = k /\ LifeOf(tr[k]) /\ up[k] = <<>>
  BY <1>0 DEF LifeInv, RegisterUsbTransport
<1>2. tr[k] \in Transports
  BY <1>0, <1>1, StateTypes
<1>3. u \in Transports
  BY <1>2 DEF Transports
<1>4. /\ u.st = "queued" /\ u.conn = tr[k].conn /\ u.ref = tr[k].ref
      /\ u.kicked = tr[k].kicked /\ u.out = tr[k].out /\ u.inp = tr[k].inp
  BY <1>2, SMTT(60) DEF Transports
<1>5. tr' \in [Sess -> Transports] /\ tr'[k] = u /\ \A l \in Sess : l # k => tr'[l] = tr[l]
  <2>1. tr' = [tr EXCEPT ![k] = u]
    BY DEF RegisterUsbTransport
  <2> HIDE DEF u, k
  <2> QED
    BY <1>0, <1>1, <1>3, <2>1, OneTransport
<1> HIDE DEF u, k
<1>6. /\ reg' \in Seq(Sess \X {0, 1}) /\ Len(reg) \in Nat
      /\ Len(reg') = Len(reg) + 1 /\ reg' # <<>> /\ reg'[Len(reg) + 1] = <<k, 1>>
      /\ \A n \in 1..Len(reg) : reg'[n] = reg[n]
  <2>1. reg \in Seq(Sess \X {0, 1}) /\ <<k, 1>> \in Sess \X {0, 1}
    BY <1>0, <1>1 DEF AdbTypeOK
  <2>2. reg' = Append(reg, <<k, 1>>)
    BY DEF RegisterUsbTransport, k
  <2> QED
    BY <2>1, <2>2, SeqAppend, SMTT(60)
<1>7. \A n \in 1..Len(reg') : n \in 1..Len(reg) \/ n = Len(reg) + 1
  BY <1>6, SMTT(60)
<1>8. UNCHANGED <<usbFd, nsess, up, down, sk, pend>> /\ opener' = "wait"
  BY DEF RegisterUsbTransport
<1>9. AdbTypeOK'
  BY <1>0, <1>5, <1>6 DEF AdbTypeOK, RegisterUsbTransport
<1>10. LifeOf(u)
  BY <1>1, <1>4 DEF LifeOf
<1>11. ~(k > nsess)
  <2>1. nsess \in 0..MaxSess
    BY <1>0 DEF AdbTypeOK
  <2> QED
    BY <2>1, AdbAssumption, SMTT(60) DEF k
<1>12. LifeInv'
  BY <1>0, <1>1, <1>4, <1>5, <1>8, <1>10, <1>11 DEF LifeInv
<1>13. RegInv'
  <2>1. \A n \in 1..Len(reg) : reg[n][1] \in Sess /\ reg[n][1] # k
    <3> TAKE n \in 1..Len(reg)
    <3>1. reg[n][1] \in Sess /\ tr[reg[n][1]].st \in {"queued", "live"}
      BY <1>0, StateTypes DEF RegInv
    <3> QED
      BY <1>1, <3>1
  <2>2. reg'[Len(reg) + 1][1] = k /\ reg'[Len(reg) + 1][2] = 1
    BY <1>6, SMTT(60)
  <2>3. ASSUME NEW n \in 1..Len(reg')
        PROVE  IF reg'[n][2] = 1 THEN tr'[reg'[n][1]].st = "queued"
               ELSE /\ tr'[reg'[n][1]].st = "live"
                    /\ tr'[reg'[n][1]].out = "exited" /\ tr'[reg'[n][1]].inp = "exited"
    <3>1. CASE n \in 1..Len(reg)
      <4>1. reg'[n] = reg[n] /\ tr'[reg[n][1]] = tr[reg[n][1]]
        BY <1>5, <1>6, <2>1, <3>1
      <4> QED
        BY <1>0, <3>1, <4>1 DEF RegInv
    <3>2. CASE n = Len(reg) + 1
      BY <1>4, <1>5, <2>2, <3>2
    <3> QED
      BY <1>7, <3>1, <3>2
  <2>4. ASSUME NEW m \in 1..Len(reg'), NEW n \in 1..Len(reg'), reg'[m][1] = reg'[n][1]
        PROVE  m = n
    BY <1>0, <1>6, <1>7, <2>1, <2>2, <2>4 DEF RegInv
  <2> QED
    BY <2>3, <2>4 DEF RegInv
<1>14. StopInv'
  <2>1. \A l \in Sess : /\ tr'[l].out = tr[l].out /\ tr'[l].inp = tr[l].inp
                        /\ tr'[l].conn = tr[l].conn
    BY <1>4, <1>5
  <2> QED
    BY <1>0, <1>8, <2>1, StopSame DEF StopInv
<1>15. SoundInv'
  <2>1. \A l \in Sess : Carries(tr[l]) => Carries(tr'[l])
    BY <1>1, <1>5 DEF Carries
  <2> QED
    BY <1>0, <1>8, <2>1, SoundSame
<1>16. PendInv'
  <2>1. \A l \in Sess : tr[l].st = "live" => tr'[l].st = "live"
    BY <1>1, <1>5
  <2> QED
    BY <1>0, <1>6, <1>8, <2>1, PendSame
<1>17. OwnDevice'
  BY <1>0, <1>1, <1>5, <1>8 DEF OwnDevice
<1> QED
  BY <1>9, <1>12, <1>13, <1>14, <1>15, <1>16, <1>17 DEF LoopInv

LEMMA UnplugStep ==
  ASSUME LoopInv, NEW k \in Sess, Unplug(k)
  PROVE  LoopInv'
<1>0. UNCHANGED <<usbFd, nsess, opener, tr, host, sent, reg, up, down, sk, pend>>
  BY DEF Unplug, loopVars
<1>1. AdbTypeOK'
  BY <1>0 DEF LoopInv, AdbTypeOK, Unplug
<1>2. LifeInv' /\ OwnDevice'
  BY <1>0 DEF LoopInv, LifeInv, OwnDevice
<1> QED
  BY <1>0, <1>1, <1>2, Unmoved DEF LoopInv, loopVars

-----------------------------------------------------------------------------
(* transport.c: the threads.                                               *)

LEMMA OutputStartStep ==
  ASSUME LoopInv, NEW k \in Sess, OutputStart(k)
  PROVE  LoopInv'
<1> DEFINE u == [tr[k] EXCEPT !.out = "read"]
           p == Pkt("SYNC", 1, 0, 0)
<1>0. AdbTypeOK /\ LifeInv /\ StopInv /\ SoundInv /\ PendInv /\ OwnDevice
  BY DEF LoopInv
<1>1. tr[k] \in Transports /\ tr[k].out = "start" /\ LifeOf(tr[k])
  BY <1>0, StateTypes DEF LifeInv, OutputStart
<1>2. tr[k].st = "live" /\ usbFd = k
  <2>1. tr[k].st = "live" /\ ~tr[k].kicked
    BY <1>1, TransportType DEF LifeOf, Left
  <2> QED
    BY <1>0, <2>1 DEF OwnDevice
<1>3. u \in Transports
  BY <1>1 DEF Transports
<1>4. /\ u.st = tr[k].st /\ u.conn = tr[k].conn /\ u.ref = tr[k].ref
      /\ u.kicked = tr[k].kicked /\ u.out = "read" /\ u.inp = tr[k].inp
  BY <1>1, SMTT(60) DEF Transports
<1>5. tr' \in [Sess -> Transports] /\ tr'[k] = u /\ \A l \in Sess : l # k => tr'[l] = tr[l]
  <2>1. tr' = [tr EXCEPT ![k] = u]
    BY DEF OutputStart
  <2> HIDE DEF u
  <2> QED
    BY <1>0, <1>3, <2>1, OneTransport
<1>6. p \in Packets /\ ~IsStop(p)
  BY SMTT(60) DEF Pkt, Packets, IsStop
<1>7. /\ up' = [up EXCEPT ![k] = Append(@, p)] /\ opener' = opener /\ nsess' = nsess
      /\ UNCHANGED <<usbFd, reg, down, sk, pend, host, gone, sent>>
  BY DEF OutputStart
<1> HIDE DEF u, p
<1>8. up' \in [Sess -> Seq(Packets)] /\ up'[k] # <<>> /\ \A l \in Sess : l # k => up'[l] = up[l]
  <2>1. up \in [Sess -> Seq(Packets)]
    BY <1>0 DEF AdbTypeOK
  <2> QED
    BY <1>6, <1>7, <2>1, PairAppend, SMTT(60)
<1>9. AdbTypeOK'
  BY <1>0, <1>5, <1>7, <1>8 DEF AdbTypeOK
<1>10. LifeInv' /\ RegInv' /\ OwnDevice'
  <2>1. \A l \in Sess : Steady(l)
    BY <1>1, <1>2, <1>4, <1>5, <1>8 DEF Steady
  <2> QED
    BY <1>7, <2>1, SteadyStep
<1>11. StopInv'
  BY <1>0, <1>1, <1>4, <1>5, <1>6, <1>7, StopGrows DEF Left
<1>12. SoundInv'
  <2>1. \A l \in Sess : Carries(tr[l]) => Carries(tr'[l])
    BY <1>4, <1>5 DEF Carries
  <2> QED
    BY <1>0, <1>7, <2>1, SoundSame
<1>13. PendInv'
  <2>1. \A l \in Sess : /\ tr[l].st = "live" => tr'[l].st = "live"
                        /\ up'[l] = up[l] \/ up'[l] # <<>>
    BY <1>4, <1>5, <1>8
  <2> QED
    BY <1>0, <1>7, <2>1, PendSame
<1> QED
  BY <1>9, <1>10, <1>11, <1>12, <1>13 DEF LoopInv

LEMMA OutputOfflineStep ==
  ASSUME LoopInv, NEW k \in Sess, OutputOffline(k)
  PROVE  LoopInv'
<1> DEFINE u == [tr[k] EXCEPT !.out = "kick"]
           p == Pkt("SYNC", 0, 0, 0)
<1>0. AdbTypeOK /\ LifeInv /\ StopInv /\ SoundInv /\ PendInv /\ OwnDevice
  BY DEF LoopInv
<1>1. tr[k] \in Transports /\ tr[k].out = "read" /\ LifeOf(tr[k])
  BY <1>0, StateTypes DEF LifeInv, OutputOffline
<1>2. tr[k].st = "live"
  BY <1>1, TransportType DEF LifeOf
<1>3. u \in Transports
  BY <1>1 DEF Transports
<1>4. /\ u.st = tr[k].st /\ u.conn = tr[k].conn /\ u.ref = tr[k].ref
      /\ u.kicked = tr[k].kicked /\ u.out = "kick" /\ u.inp = tr[k].inp
  BY <1>1, SMTT(60) DEF Transports
<1>5. tr' \in [Sess -> Transports] /\ tr'[k] = u /\ \A l \in Sess : l # k => tr'[l] = tr[l]
  <2>1. tr' = [tr EXCEPT ![k] = u]
    BY DEF OutputOffline
  <2> HIDE DEF u
  <2> QED
    BY <1>0, <1>3, <2>1, OneTransport
<1>6. p \in Packets
  BY SMTT(60) DEF Pkt, Packets
<1>7. /\ up' = [up EXCEPT ![k] = Append(@, p)] /\ opener' = opener /\ nsess' = nsess
      /\ UNCHANGED <<usbFd, reg, down, sk, pend, host, gone, sent>>
  BY DEF OutputOffline
<1> HIDE DEF u, p
<1>8. up' \in [Sess -> Seq(Packets)] /\ up'[k] # <<>> /\ \A l \in Sess : l # k => up'[l] = up[l]
  <2>1. up \in [Sess -> Seq(Packets)]
    BY <1>0 DEF AdbTypeOK
  <2> QED
    BY <1>6, <1>7, <2>1, PairAppend, SMTT(60)
<1>9. AdbTypeOK'
  BY <1>0, <1>5, <1>7, <1>8 DEF AdbTypeOK
<1>10. LifeInv' /\ RegInv' /\ OwnDevice'
  <2>1. \A l \in Sess : Steady(l)
    BY <1>1, <1>2, <1>4, <1>5, <1>8 DEF Steady
  <2> QED
    BY <1>7, <2>1, SteadyStep
<1>11. StopInv'
  <2>1. tr[k].out \notin Left /\ tr'[k].out \in Left /\ tr'[k].inp = tr[k].inp
    BY <1>1, <1>4, <1>5 DEF Left
  <2> QED
    BY <1>0, <1>5, <1>6, <1>7, <2>1, StopGrows
<1>12. SoundInv'
  <2>1. \A l \in Sess : Carries(tr[l]) => Carries(tr'[l])
    BY <1>4, <1>5 DEF Carries
  <2> QED
    BY <1>0, <1>7, <2>1, SoundSame
<1>13. PendInv'
  <2>1. \A l \in Sess : /\ tr[l].st = "live" => tr'[l].st = "live"
                        /\ up'[l] = up[l] \/ up'[l] # <<>>
    BY <1>4, <1>5, <1>8
  <2> QED
    BY <1>0, <1>7, <2>1, PendSame
<1> QED
  BY <1>9, <1>10, <1>11, <1>12, <1>13 DEF LoopInv

(* What a host sends is a packet of the protocol, never SYNC.              *)
LEMMA HostSpeaks ==
  ASSUME AdbTypeOK, NEW k \in Sess,
         \/ HostConnects(k) \/ HostOpens(k) \/ HostWrites(k)
         \/ HostAcks(k) \/ HostCloses(k)
  PROVE  \E p \in Packets, h \in Hosts : p.cmd # "SYNC" /\ HostSends(k, p, h)
<1> DEFINE g == host[k]
<1>1. g \in Hosts /\ sent \in Nat
  BY StateTypes DEF AdbTypeOK
<1>2. /\ g.cnxn \in Nat /\ g.rid \in Nat /\ g.lid \in Nat /\ g.sent \in Nat
      /\ g.cnxn + 1 \in Nat /\ g.sent + 1 \in Nat /\ sent + 1 \in Nat
  BY <1>1, SMTT(60) DEF Hosts
<1> HIDE DEF g
<1>3. CASE HostConnects(k)
  <2> DEFINE p == Pkt("CNXN", 0, 0, 0)
             h == [NoHost EXCEPT !.cnxn = g.cnxn + 1]
  <2>1. p \in Packets /\ p.cmd # "SYNC"
    BY SMTT(60) DEF Pkt, Packets
  <2>2. h \in Hosts
    <3>1. NoHost \in Hosts
      BY SMTT(60) DEF NoHost, Hosts
    <3> QED
      BY <1>2, <3>1 DEF Hosts
  <2>3. HostSends(k, p, h)
    BY <1>3 DEF HostConnects, g
  <2> QED
    BY <2>1, <2>2, <2>3
<1>4. CASE HostOpens(k)
  <2> DEFINE p == Pkt("OPEN", sent + 1, 0, 0)
             h == [g EXCEPT !.strm = "opening", !.rid = sent + 1]
  <2>1. p \in Packets /\ p.cmd # "SYNC"
    BY <1>2, SMTT(60) DEF Pkt, Packets
  <2>2. h \in Hosts
    BY <1>1, <1>2 DEF Hosts
  <2>3. HostSends(k, p, h)
    BY <1>4 DEF HostOpens, g
  <2> QED
    BY <2>1, <2>2, <2>3
<1>5. CASE HostWrites(k)
  <2> DEFINE p == Pkt("WRTE", g.rid, g.lid, g.sent + 1)
             h == [g EXCEPT !.sent = @ + 1, !.wait = TRUE]
  <2>1. p \in Packets /\ p.cmd # "SYNC"
    BY <1>2, SMTT(60) DEF Pkt, Packets
  <2>2. h \in Hosts
    BY <1>1, <1>2 DEF Hosts
  <2>3. HostSends(k, p, h)
    BY <1>5 DEF HostWrites, g
  <2> QED
    BY <2>1, <2>2, <2>3
<1>6. CASE HostAcks(k)
  <2> DEFINE p == Pkt("OKAY", g.rid, g.lid, 0)
             h == [g EXCEPT !.owed = FALSE]
  <2>1. p \in Packets /\ p.cmd # "SYNC"
    BY <1>2, SMTT(60) DEF Pkt, Packets
  <2>2. h \in Hosts
    BY <1>1 DEF Hosts
  <2>3. HostSends(k, p, h)
    BY <1>6 DEF HostAcks, g
  <2> QED
    BY <2>1, <2>2, <2>3
<1>7. CASE HostCloses(k)
  <2> DEFINE p == Pkt("CLSE", g.rid, g.lid, 0)
             h == [g EXCEPT !.strm = "closed"]
  <2>1. p \in Packets /\ p.cmd # "SYNC"
    BY <1>2, SMTT(60) DEF Pkt, Packets
  <2>2. h \in Hosts
    BY <1>1 DEF Hosts
  <2>3. HostSends(k, p, h)
    BY <1>7 DEF HostCloses, g
  <2> QED
    BY <2>1, <2>2, <2>3
<1> QED
  BY <1>3, <1>4, <1>5, <1>6, <1>7

LEMMA OutputReadStep ==
  ASSUME LoopInv, NEW k \in Sess, OutputRead(k)
  PROVE  LoopInv'
<1>0. AdbTypeOK /\ LifeInv /\ StopInv /\ SoundInv /\ PendInv /\ OwnDevice
  BY DEF LoopInv
<1>1. tr[k] \in Transports /\ tr[k].out = "read" /\ LifeOf(tr[k])
  BY <1>0, StateTypes DEF LifeInv, OutputRead
<1>2. tr[k].st = "live"
  BY <1>1, TransportType DEF LifeOf
<1>3. PICK p \in Packets, h \in Hosts : p.cmd # "SYNC" /\ HostSends(k, p, h)
  BY <1>0, HostSpeaks DEF OutputRead
<1>4. /\ up' = [up EXCEPT ![k] = Append(@, p)] /\ host' = [host EXCEPT ![k] = h]
      /\ UNCHANGED <<usbFd, nsess, opener, reg, tr, down, sk, pend, gone>>
  BY <1>3 DEF OutputRead, HostSends
<1>5. up' \in [Sess -> Seq(Packets)] /\ up'[k] # <<>> /\ \A l \in Sess : l # k => up'[l] = up[l]
  <2>1. up \in [Sess -> Seq(Packets)]
    BY <1>0 DEF AdbTypeOK
  <2> QED
    BY <1>4, <2>1, PairAppend, SMTT(60)
<1>6. AdbTypeOK'
  <2>1. sent' \in Nat
    BY <1>0, SMTT(60) DEF AdbTypeOK, OutputRead
  <2>2. host' \in [Sess -> Hosts]
    BY <1>0, <1>4 DEF AdbTypeOK
  <2> QED
    BY <1>0, <1>4, <1>5, <2>1, <2>2 DEF AdbTypeOK
<1>7. LifeInv' /\ RegInv' /\ OwnDevice'
  <2>1. \A l \in Sess : Steady(l)
    BY <1>2, <1>4, <1>5 DEF Steady
  <2> QED
    BY <1>4, <2>1, SteadyStep
<1>8. StopInv'
  <2>1. tr[k].out \notin Left /\ ~IsStop(p)
    BY <1>1, <1>3 DEF Left, IsStop
  <2> QED
    BY <1>0, <1>4, <2>1, StopGrows
<1>9. SoundInv' /\ PendInv'
  BY <1>0, <1>4, <1>5, SoundSame, PendSame
<1> QED
  BY <1>6, <1>7, <1>8, <1>9 DEF LoopInv

(* A thread of transport k goes one step further on its way out.           *)
LEMMA ThreadLeaves ==
  ASSUME LoopInv, NEW k \in Sess, NEW u \in Transports, tr' = [tr EXCEPT ![k] = u],
         tr[k].out # "exited" \/ tr[k].inp # "exited", tr[k].st = "live",
         LifeOf(u), u.st = "live", u.conn = tr[k].conn, u.kicked,
         u.out = tr[k].out \/ u.out \in Left, u.inp = tr[k].inp \/ Stopping(k),
         usbFd' = usbFd \/ (usbFd' = 0 /\ ~tr[k].kicked),
         reg' = reg \/ (reg' = Append(reg, <<k, 0>>) /\ u.out = "exited" /\ u.inp = "exited"),
         UNCHANGED <<nsess, opener, up, down, sk, pend, host, gone, sent>>
  PROVE  LoopInv'
<1>0. AdbTypeOK /\ LifeInv /\ RegInv /\ StopInv /\ SoundInv /\ PendInv /\ OwnDevice
  BY DEF LoopInv
<1>1. tr' \in [Sess -> Transports] /\ tr'[k] = u /\ \A l \in Sess : l # k => tr'[l] = tr[l]
  BY <1>0, OneTransport
<1>2. \A n \in 1..Len(reg) : reg[n][1] \in Sess /\ reg[n][1] # k
  <2> TAKE n \in 1..Len(reg)
  <2>1. reg[n][1] \in Sess
    BY <1>0, StateTypes
  <2>2. \/ tr[reg[n][1]].st = "queued"
        \/ tr[reg[n][1]].out = "exited" /\ tr[reg[n][1]].inp = "exited"
    BY <1>0 DEF RegInv
  <2> QED
    BY <2>1, <2>2
<1>3. /\ reg' \in Seq(Sess \X {0, 1}) /\ (reg # <<>> => reg' # <<>>)
      /\ \A n \in 1..Len(reg') :
           \/ n \in 1..Len(reg) /\ reg'[n] = reg[n]
           \/ /\ n = Len(reg) + 1 /\ reg'[n][1] = k /\ reg'[n][2] = 0
              /\ u.out = "exited" /\ u.inp = "exited"
  <2>1. reg \in Seq(Sess \X {0, 1}) /\ <<k, 0>> \in Sess \X {0, 1}
    BY <1>0 DEF AdbTypeOK
  <2>2. CASE reg' = reg
    BY <2>1, <2>2
  <2>3. CASE reg' # reg
    <3>1. reg' = Append(reg, <<k, 0>>) /\ u.out = "exited" /\ u.inp = "exited"
      BY <2>3
    <3>2. /\ reg' \in Seq(Sess \X {0, 1}) /\ reg' # <<>> /\ Len(reg) \in Nat
          /\ Len(reg') = Len(reg) + 1 /\ \A n \in 1..Len(reg) : reg'[n] = reg[n]
          /\ reg'[Len(reg) + 1] = <<k, 0>>
      BY <2>1, <3>1, SeqAppend, SMTT(60)
    <3>3. \A n \in 1..Len(reg') : n \in 1..Len(reg) \/ n = Len(reg) + 1
      BY <3>2, SMTT(60)
    <3>4. reg'[Len(reg) + 1][1] = k /\ reg'[Len(reg) + 1][2] = 0
      BY <3>2, SMTT(60)
    <3> QED
      BY <3>1, <3>2, <3>3, <3>4
  <2> QED
    BY <2>2, <2>3
<1>4. usbFd' \in 0..MaxSess
  BY <1>0, AdbAssumption, SMTT(60) DEF AdbTypeOK
<1>5. AdbTypeOK'
  BY <1>0, <1>1, <1>3, <1>4 DEF AdbTypeOK
<1>6. ~tr[k].kicked => usbFd = k
  BY <1>0 DEF OwnDevice
<1>7. LifeInv'
  BY <1>0, <1>1, <1>6 DEF LifeInv
<1>8. RegInv'
  <2>1. ASSUME NEW n \in 1..Len(reg')
        PROVE  IF reg'[n][2] = 1 THEN tr'[reg'[n][1]].st = "queued"
               ELSE /\ tr'[reg'[n][1]].st = "live"
                    /\ tr'[reg'[n][1]].out = "exited" /\ tr'[reg'[n][1]].inp = "exited"
    <3>1. CASE n \in 1..Len(reg) /\ reg'[n] = reg[n]
      <4>1. tr'[reg[n][1]] = tr[reg[n][1]]
        BY <1>1, <1>2, <3>1
      <4> QED
        BY <1>0, <3>1, <4>1 DEF RegInv
    <3>2. CASE /\ n = Len(reg) + 1 /\ reg'[n][1] = k /\ reg'[n][2] = 0
               /\ u.out = "exited" /\ u.inp = "exited"
      <4>1. reg'[n][2] # 1
        BY <3>2, SMTT(60)
      <4> QED
        BY <1>1, <3>2, <4>1
    <3> QED
      BY <1>3, <3>1, <3>2
  <2>2. ASSUME NEW m \in 1..Len(reg'), NEW n \in 1..Len(reg'), reg'[m][1] = reg'[n][1]
        PROVE  m = n
    BY <1>0, <1>2, <1>3, <2>2 DEF RegInv
  <2> QED
    BY <2>1, <2>2 DEF RegInv
<1>9. StopInv'
  <2>1. \A l \in Sess : StopOf(l)
    BY <1>0 DEF StopInv
  <2>2. StopOf(k)'
    BY <1>1, <2>1, StopSame
  <2>3. \A l \in Sess : l # k => StopOf(l)'
    BY <1>1, <2>1, StopSame
  <2> QED
    BY <2>2, <2>3 DEF StopInv
<1>10. SoundInv'
  <2>1. Stopping(k) => ~Carries(tr[k])
    BY <1>0 DEF StopInv, StopOf, Carries
  <2>2. \A l \in Sess : Carries(tr[l]) => Carries(tr'[l])
    BY <1>1, <2>1 DEF Carries
  <2> QED
    BY <1>0, <2>2, SoundSame
<1>11. PendInv'
  <2>1. \A l \in Sess : tr[l].st = "live" => tr'[l].st = "live"
    BY <1>1
  <2>2. 0 \in pend => reg # <<>>
    BY <1>0 DEF PendInv
  <2> QED
    BY <1>0, <1>3, <2>1, <2>2, PendSame
<1>12. OwnDevice'
  <2>1. u.out # "read"
    BY DEF LifeOf, Left
  <2>2. \A l \in Sess : l # 0
    BY SMTT(60) DEF Sess
  <2>3. tr'[k].kicked /\ tr'[k].out # "read"
    BY <1>1, <2>1, SMTT(60)
  <2>4. ASSUME NEW l \in Sess, l # k, tr[l].st \in {"queued", "live"},
               tr[l].out = "read" \/ ~tr[l].kicked
        PROVE  usbFd' = l
    BY <1>0, <1>6, <2>4 DEF OwnDevice
  <2>5. \A l \in Sess : l # k =>
          /\ tr'[l].st = tr[l].st /\ tr'[l].out = tr[l].out
          /\ tr'[l].kicked <=> tr[l].kicked
    BY <1>1, SMTT(60)
  <2> QED
    BY <2>3, <2>4, <2>5 DEF OwnDevice
<1> QED
  BY <1>5, <1>7, <1>8, <1>9, <1>10, <1>11, <1>12 DEF LoopInv

LEMMA ThreadKickStep ==
  ASSUME LoopInv, NEW k \in Sess, NEW th \in {"out", "inp"}, ThreadKick(k, th)
  PROVE  LoopInv'
<1> DEFINE u == IF th = "out" THEN [tr[k] EXCEPT !.kicked = TRUE, !.out = "unref"]
                ELSE [tr[k] EXCEPT !.kicked = TRUE, !.inp = "unref"]
<1>0. AdbTypeOK /\ LifeInv /\ StopInv
  BY DEF LoopInv
<1>1. tr[k] \in Transports /\ LifeOf(tr[k]) /\ StopOf(k)
  BY <1>0, StateTypes DEF LifeInv, StopInv
<1>2. /\ th = "out" => tr[k].out = "kick"
      /\ th = "inp" => tr[k].inp = "kick" /\ Stopping(k) /\ tr[k].out \in Left
  BY <1>1 DEF ThreadKick, StopOf, Stopping, Left
<1>3. /\ tr[k].st = "live" /\ (tr[k].out # "exited" \/ tr[k].inp # "exited")
  BY <1>1, <1>2, TransportType DEF LifeOf
<1>4. u \in Transports
  BY <1>1 DEF Transports
<1>5. /\ u.st = tr[k].st /\ u.conn = tr[k].conn /\ u.ref = tr[k].ref /\ u.kicked
      /\ u.out = IF th = "out" THEN "unref" ELSE tr[k].out
      /\ u.inp = IF th = "inp" THEN "unref" ELSE tr[k].inp
  BY <1>1, SMTT(60) DEF Transports
<1>6. tr' = [tr EXCEPT ![k] = u]
  <2>1. CASE th = "out"
    <3>1. tr' = [tr EXCEPT ![k].kicked = TRUE, ![k].out = "unref"]
      BY <2>1 DEF ThreadKick
    <3> QED
      BY <2>1, <3>1
  <2>2. CASE th = "inp"
    <3>1. tr' = [tr EXCEPT ![k].kicked = TRUE, ![k].inp = "unref"]
      BY <2>2 DEF ThreadKick
    <3> QED
      BY <2>2, <3>1
  <2> QED
    BY <2>1, <2>2
<1> HIDE DEF u
<1>7. LifeOf(u)
  <2>1. Running(u.out) = Running(tr[k].out) /\ Running(u.inp) = Running(tr[k].inp)
    BY <1>2, <1>5 DEF Running
  <2> QED
    BY <1>1, <1>2, <1>3, <1>5, <2>1 DEF LifeOf, Left
<1>8. u.out = tr[k].out \/ u.out \in Left
  BY <1>5 DEF Left
<1>9. u.inp = tr[k].inp \/ Stopping(k)
  BY <1>2, <1>5
<1> QED
  BY <1>3, <1>4, <1>5, <1>6, <1>7, <1>8, <1>9, ThreadLeaves DEF ThreadKick

LEMMA ThreadUnrefStep ==
  ASSUME LoopInv, NEW k \in Sess, NEW th \in {"out", "inp"}, ThreadUnref(k, th)
  PROVE  LoopInv'
<1> DEFINE u == IF th = "out" THEN [tr[k] EXCEPT !.ref = @ - 1, !.out = "exited"]
                ELSE [tr[k] EXCEPT !.ref = @ - 1, !.inp = "exited"]
<1>0. AdbTypeOK /\ LifeInv /\ StopInv
  BY DEF LoopInv
<1>1. tr[k] \in Transports /\ LifeOf(tr[k]) /\ StopOf(k)
  BY <1>0, StateTypes DEF LifeInv, StopInv
<1>2. /\ th = "out" => tr[k].out = "unref"
      /\ th = "inp" => tr[k].inp = "unref" /\ Stopping(k) /\ tr[k].out \in Left
  BY <1>1 DEF ThreadUnref, StopOf, Stopping, Left
<1>3. tr[k].st = "live" /\ (tr[k].out # "exited" \/ tr[k].inp # "exited")
  BY <1>1, <1>2, TransportType DEF LifeOf
<1>4. /\ tr[k].ref = Running(tr[k].out) + Running(tr[k].inp)
      /\ tr[k].ref \in 1..2 /\ tr[k].ref - 1 \in 0..2
      /\ th = "out" => tr[k].ref - 1 = Running("exited") + Running(tr[k].inp)
      /\ th = "inp" => tr[k].ref - 1 = Running(tr[k].out) + Running("exited")
      /\ tr[k].ref = 1 /\ th = "out" => tr[k].inp = "exited"
      /\ tr[k].ref = 1 /\ th = "inp" => tr[k].out = "exited"
  <2>1. tr[k].ref = Running(tr[k].out) + Running(tr[k].inp)
    BY <1>1, <1>3 DEF LifeOf
  <2> QED
    BY <1>2, <2>1, SMTT(60) DEF Running
<1>5. u \in Transports
  BY <1>1, <1>4 DEF Transports
<1>6. /\ u.st = tr[k].st /\ u.conn = tr[k].conn /\ u.ref = tr[k].ref - 1
      /\ u.kicked <=> tr[k].kicked
      /\ u.out = IF th = "out" THEN "exited" ELSE tr[k].out
      /\ u.inp = IF th = "inp" THEN "exited" ELSE tr[k].inp
  BY <1>1, SMTT(60) DEF Transports
<1>7. tr' = [tr EXCEPT ![k] = u]
  <2>1. CASE th = "out"
    <3>1. tr' = [tr EXCEPT ![k].ref = @ - 1, ![k].out = "exited"]
      BY <2>1 DEF ThreadUnref, Unref
    <3> QED
      BY <2>1, <3>1
  <2>2. CASE th = "inp"
    <3>1. tr' = [tr EXCEPT ![k].ref = @ - 1, ![k].inp = "exited"]
      BY <2>2 DEF ThreadUnref, Unref
    <3> QED
      BY <2>2, <3>1
  <2> QED
    BY <2>1, <2>2
<1> HIDE DEF u
<1>8. LifeOf(u) /\ u.kicked
  <2>1. u.kicked
    BY <1>1, <1>2, <1>6 DEF LifeOf
  <2>2. u.ref = Running(u.out) + Running(u.inp)
    BY <1>4, <1>6
  <2> QED
    BY <1>1, <1>2, <1>3, <1>6, <2>1, <2>2 DEF LifeOf, Left
<1>9. u.out = tr[k].out \/ u.out \in Left
  BY <1>6 DEF Left
<1>10. u.inp = tr[k].inp \/ Stopping(k)
  BY <1>2, <1>6
<1>11. reg' = reg \/ (reg' = Append(reg, <<k, 0>>) /\ u.out = "exited" /\ u.inp = "exited")
  BY <1>4, <1>6 DEF ThreadUnref, Unref
<1> QED
  BY <1>3, <1>5, <1>6, <1>7, <1>8, <1>9, <1>10, <1>11, ThreadLeaves DEF ThreadUnref

(* What a host makes of a packet.                                          *)
LEMMA HostGetsCases ==
  ASSUME NEW h \in Hosts, NEW p \in Packets
  PROVE  /\ HostGets(h, p) \in Hosts
         /\ \/ HostGets(h, p) \in {h, [h EXCEPT !.online = TRUE], [h EXCEPT !.strm = "closed"]}
            \/ /\ p.cmd = "OKAY" /\ p.a1 = h.rid /\ h.strm = "opening"
               /\ HostGets(h, p) = [h EXCEPT !.strm = "open", !.lid = p.a0]
            \/ /\ p.cmd = "OKAY" /\ p.a1 = h.rid /\ h.strm = "open"
               /\ HostGets(h, p) = [h EXCEPT !.wait = FALSE]
            \/ /\ p.cmd = "WRTE" /\ p.a1 = h.rid /\ h.strm = "open"
               /\ HostGets(h, p) = [h EXCEPT !.owed = TRUE]
<1>0. p.a0 \in Nat
  BY DEF Packets
<1>1. [h EXCEPT !.online = TRUE] \in Hosts /\ [h EXCEPT !.strm = "closed"] \in Hosts
  BY DEF Hosts
<1>2. [h EXCEPT !.wait = FALSE] \in Hosts /\ [h EXCEPT !.owed = TRUE] \in Hosts
  BY DEF Hosts
<1>3. [h EXCEPT !.strm = "open", !.lid = p.a0] \in Hosts
  BY <1>0 DEF Hosts
<1>4. CASE p.cmd = "CNXN"
  <2>1. HostGets(h, p) = [h EXCEPT !.online = TRUE]
    BY <1>4 DEF HostGets
  <2> QED
    BY <1>1, <2>1
<1>5. CASE p.cmd = "OKAY" /\ p.a1 = h.rid /\ h.strm = "opening"
  <2>1. HostGets(h, p) = [h EXCEPT !.strm = "open", !.lid = p.a0]
    BY <1>5 DEF HostGets
  <2> QED
    BY <1>3, <1>5, <2>1
<1>6. CASE p.cmd = "OKAY" /\ p.a1 = h.rid /\ h.strm = "open"
  <2>1. HostGets(h, p) = [h EXCEPT !.wait = FALSE]
    BY <1>6 DEF HostGets
  <2> QED
    BY <1>2, <1>6, <2>1
<1>7. CASE p.cmd = "WRTE" /\ p.a1 = h.rid /\ h.strm = "open"
  <2>1. HostGets(h, p) = [h EXCEPT !.owed = TRUE]
    BY <1>7 DEF HostGets
  <2> QED
    BY <1>2, <1>7, <2>1
<1>8. CASE p.cmd = "CLSE" /\ p.a1 = h.rid
  <2>1. HostGets(h, p) = [h EXCEPT !.strm = "closed"]
    BY <1>8 DEF HostGets
  <2> QED
    BY <1>1, <2>1
<1>9. CASE ~ \/ p.cmd = "CNXN"
             \/ p.cmd = "OKAY" /\ p.a1 = h.rid /\ h.strm = "opening"
             \/ p.cmd = "OKAY" /\ p.a1 = h.rid /\ h.strm = "open"
             \/ p.cmd = "WRTE" /\ p.a1 = h.rid /\ h.strm = "open"
             \/ p.cmd = "CLSE" /\ p.a1 = h.rid
  <2>1. HostGets(h, p) = h
    BY <1>9 DEF HostGets
  <2> QED
    BY <2>1
<1> QED
  BY <1>4, <1>5, <1>6, <1>7, <1>8, <1>9

LEMMA InputPacketStep ==
  ASSUME LoopInv, NEW k \in Sess, InputPacket(k)
  PROVE  LoopInv'
<1> DEFINE p == Head(down[k])
           stop == p.cmd = "SYNC" /\ p.a0 = 0
           u == [tr[k] EXCEPT !.inp = IF stop THEN "closeall" ELSE @,
                              !.active = @ \/ (p.cmd = "SYNC" /\ p.a0 = 1)]
<1>0. AdbTypeOK /\ LifeInv /\ StopInv /\ SoundInv /\ PendInv
  BY DEF LoopInv
<1>1. tr[k] \in Transports /\ tr[k].inp = "read" /\ LifeOf(tr[k]) /\ StopOf(k)
  BY <1>0, StateTypes DEF LifeInv, StopInv, InputPacket
<1>2. tr[k].st = "live"
  BY <1>1, TransportType DEF LifeOf
<1>3. /\ down' \in [Sess -> Seq(Packets)] /\ \A l \in Sess : l # k => down'[l] = down[l]
      /\ Len(down[k]) \in Nat \ {0} /\ Len(down'[k]) = Len(down[k]) - 1
      /\ \A n \in 1..Len(down'[k]) : down'[k][n] = down[k][n + 1]
      /\ p = down[k][1] /\ p \in Packets
  <2>1. down \in [Sess -> Seq(Packets)]
    BY <1>0 DEF AdbTypeOK
  <2>2. down[k] # <<>> /\ down' = [down EXCEPT ![k] = Tail(@)]
    BY DEF InputPacket
  <2> QED
    BY <2>1, <2>2, PairTail, SMTT(60)
<1>4. u \in Transports
  <2>1. (tr[k].active \/ (p.cmd = "SYNC" /\ p.a0 = 1)) \in BOOLEAN
    OBVIOUS
  <2> QED
    BY <1>1, <2>1 DEF Transports
<1>5. /\ u.st = tr[k].st /\ u.conn = tr[k].conn /\ u.ref = tr[k].ref
      /\ u.kicked = tr[k].kicked /\ u.out = tr[k].out
      /\ u.inp = IF stop THEN "closeall" ELSE tr[k].inp
  <2> HIDE DEF stop
  <2> QED
    BY <1>1, SMTT(60) DEF Transports
<1>6. tr' = [tr EXCEPT ![k] = u]
  BY DEF InputPacket
<1>7. UNCHANGED <<usbFd, nsess, opener, reg, up, sk, pend, gone, sent>>
  BY DEF InputPacket
<1>8. host' = host \/ (usbFd \in Sess /\ host' = [host EXCEPT ![usbFd] = HostGets(@, p)])
  <2>1. usbFd # 0 => usbFd \in Sess
    BY <1>0, AdbAssumption, SMTT(60) DEF AdbTypeOK, Sess
  <2> QED
    BY <2>1 DEF InputPacket
<1> HIDE DEF u, p
<1>9. tr' \in [Sess -> Transports] /\ tr'[k] = u /\ \A l \in Sess : l # k => tr'[l] = tr[l]
  BY <1>0, <1>4, <1>6, OneTransport
<1>10. AdbTypeOK'
  <2>1. host \in [Sess -> Hosts]
    BY <1>0 DEF AdbTypeOK
  <2>2. host' \in [Sess -> Hosts]
    <3>1. \A h \in Hosts : HostGets(h, p) \in Hosts
      BY <1>3, HostGetsCases
    <3> QED
      BY <1>8, <2>1, <3>1
  <2> QED
    BY <1>0, <1>3, <1>7, <1>9, <2>2 DEF AdbTypeOK
<1>11. LifeInv' /\ RegInv' /\ OwnDevice'
  <2>1. \A l \in Sess : Steady(l)
    BY <1>1, <1>2, <1>5, <1>7, <1>9 DEF Steady
  <2> QED
    BY <1>7, <2>1, SteadyStep
<1>12. \A n \in 1..Len(down'[k]) : n + 1 \in 1..Len(down[k])
  BY <1>3, SMTT(60)
<1>13. 1 \in 1..Len(down[k])
  BY <1>3, SMTT(60)
<1>14. stop => IsStop(p) /\ Stopping(k)
  <2>1. stop => IsStop(p)
    BY SMTT(60) DEF IsStop
  <2> QED
    BY <1>3, <1>13, <2>1 DEF Stopping
<1>15. StopInv'
  <2>1. Stopping(k)' => Stopping(k)
    BY <1>3, <1>5, <1>9, <1>12, <1>14 DEF Stopping
  <2>2. StopOf(k)'
    BY <1>1, <1>5, <1>7, <1>9, <2>1 DEF StopOf
  <2>3. \A l \in Sess : l # k => StopOf(l)'
    BY <1>0, <1>3, <1>7, <1>9, StopSame DEF StopInv
  <2> QED
    BY <2>2, <2>3 DEF StopInv
<1>16. SoundInv'
  <2>1. Stopping(k) => ~Carries(tr[k])
    BY <1>1 DEF StopOf, Carries
  <2>2. \A l \in Sess : Carries(tr[l]) => Carries(tr'[l])
    BY <1>5, <1>9, <1>14, <2>1 DEF Carries
  <2> QED
    BY <1>0, <1>7, <2>2, SoundSame
<1>17. PendInv'
  <2>1. \A l \in Sess : tr[l].st = "live" => tr'[l].st = "live"
    BY <1>2, <1>5, <1>9
  <2> QED
    BY <1>0, <1>7, <2>1, PendSame
<1> QED
  BY <1>10, <1>11, <1>15, <1>16, <1>17 DEF LoopInv

-----------------------------------------------------------------------------
(* Steps that change one socket.                                           *)

LEMMA MoreAppend ==
  ASSUME NEW d \in [Sess -> Seq(Packets)], NEW k \in Sess, NEW p \in Packets,
         NEW N, p \in N
  PROVE  More(d, [d EXCEPT ![k] = Append(@, p)], N)
<1> DEFINE X == [s |-> NoSocket, down |-> d]
<1>1. NoSocket \in Sockets
  BY AdbAssumption, SMTT(60) DEF NoSocket, Sockets
<1>2. X \in Calls /\ X.down = d
  BY <1>1 DEF Calls
<1>3. Send(X, k, p).down = [d EXCEPT ![k] = Append(@, p)]
  BY DEF Send
<1> HIDE DEF X
<1>4. More(X.down, Send(X, k, p).down, N)
  BY <1>2, SendMore
<1> QED
  BY <1>2, <1>3, <1>4

LEMMA OneSocket ==
  ASSUME AdbTypeOK, NEW i \in Socks, NEW t \in Sockets, sk' = [sk EXCEPT ![i] = t]
  PROVE  /\ sk' \in [Socks -> Sockets] /\ sk'[i] = t
         /\ \A j \in Socks : j # i => sk'[j] = sk[j]
  BY DEF AdbTypeOK

LEMMA PeerType ==
  ASSUME NEW s \in Sockets, s.peer # 0
  PROVE  s.peer \in Sess
<1>1. s.peer \in 0..MaxSess
  BY SocketType
<1> QED
  BY <1>1, AdbAssumption, SMTT(60) DEF Sess

LEMMA SoundOne ==
  ASSUME SoundInv, AdbTypeOK, NEW i \in Socks, NEW t \in Sockets, Sound(t),
         t.peer # 0 => t.peer = sk[i].peer \/ Carries(tr'[t.peer]),
         sk' = [sk EXCEPT ![i] = t], \A k \in Sess : Carries(tr[k]) => Carries(tr'[k])
  PROVE  SoundInv'
<1>1. sk'[i] = t /\ \A j \in Socks : j # i => sk'[j] = sk[j]
  BY OneSocket
<1>2. \A j \in Socks : sk[j].peer # 0 => sk[j].peer \in Sess
  BY StateTypes, PeerType
<1> QED
  BY <1>1, <1>2 DEF SoundInv

(* What sockets send is no SYNC.                                           *)
LEMMA StopMore ==
  ASSUME AdbTypeOK, NEW N, More(down, down', N), \A p \in N : ~IsStop(p),
         NEW k \in Sess, StopOf(k), up'[k] = up[k] \/ ~Stopping(k),
         \A n \in 1..Len(up'[k]) :
           IsStop(up'[k][n]) => n = Len(up'[k]) /\ tr[k].out \in Left,
         tr'[k].out = tr[k].out, tr'[k].inp = tr[k].inp,
         tr'[k].conn = tr[k].conn \/ ~Stopping(k)
  PROVE  StopOf(k)'
<1>1. Len(down[k]) \in Nat /\ Len(down'[k]) \in Nat
  <2>1. down[k] \in Seq(Packets) /\ down'[k] \in Seq(Packets)
    BY DEF AdbTypeOK, More
  <2> QED
    BY <2>1, LenType
<1>2. \A n \in 1..Len(down'[k]) : n <= Len(down[k]) => n \in 1..Len(down[k])
  BY <1>1, SMTT(60)
<1>3. Stopping(k)' => Stopping(k)
  BY <1>2 DEF Stopping, More
<1> QED
  BY <1>3 DEF StopOf

LEMMA SocketStep ==
  ASSUME LoopInv, NEW i \in Socks, NEW t, Keeps(sk[i], t), sk' = [sk EXCEPT ![i] = t],
         NEW N, More(down, down', N), \A p \in N : ~IsStop(p),
         UNCHANGED <<usbFd, nsess, opener, reg, tr, up, pend, host, gone, sent>>
  PROVE  LoopInv'
<1>0. AdbTypeOK /\ StopInv /\ SoundInv /\ PendInv
  BY DEF LoopInv
<1>1. t \in Sockets /\ Sound(t) /\ t.peer \in {0, sk[i].peer}
  BY DEF Keeps
<1>2. sk' \in [Socks -> Sockets]
  BY <1>0, <1>1, OneSocket
<1>3. AdbTypeOK'
  BY <1>0, <1>2 DEF AdbTypeOK, More
<1>4. LifeInv' /\ RegInv' /\ OwnDevice'
  <2>1. \A l \in Sess : Steady(l)
    BY DEF Steady
  <2> QED
    BY <2>1, SteadyStep
<1>5. StopInv'
  <2> SUFFICES ASSUME NEW l \in Sess
               PROVE  StopOf(l)'
    BY DEF StopInv
  <2>1. StopOf(l)
    BY <1>0 DEF StopInv
  <2>2. \A n \in 1..Len(up'[l]) :
          IsStop(up'[l][n]) => n = Len(up'[l]) /\ tr[l].out \in Left
    BY <2>1 DEF StopOf
  <2> QED
    BY <1>0, <2>1, <2>2, StopMore
<1>6. SoundInv'
  BY <1>0, <1>1, SoundOne
<1>7. PendInv'
  BY <1>0, PendSame
<1> QED
  BY <1>3, <1>4, <1>5, <1>6, <1>7 DEF LoopInv

LEMMA NotesAreNoStop ==
  ASSUME NEW r, NEW p \in Notes(r)
  PROVE  ~IsStop(p)
  BY DEF Notes, IsStop

LEMMA LocalSocketStep ==
  ASSUME LoopInv, NEW i \in Socks, LocalSocket(i)
  PROVE  LoopInv'
<1> DEFINE s == sk[i]
           Y == SocketEvent(i)
           N == Notes(s.rid) \cup {Okay(s, i)}
<1>0. AdbTypeOK /\ SoundInv
  BY DEF LoopInv
<1>1. s \in Sockets /\ down \in [Sess -> Seq(Packets)] /\ Sound(s) /\ s.ev # {}
  BY <1>0, StateTypes DEF SoundInv, AdbTypeOK, LocalSocket
<1>2. Y \in Calls /\ EventOutcome(s, i, Y)
  BY <1>1, SocketEventDoes
<1>3. sk' = [sk EXCEPT ![i] = Y.s] /\ down' = Y.down
  BY DEF LocalSocket, Return
<1>4. UNCHANGED <<usbFd, nsess, opener, reg, tr, up, pend, host, gone, sent>>
  BY DEF LocalSocket
<1>5. Notes(s.rid) \subseteq N /\ Okay(s, i) \in N
  OBVIOUS
<1>6. \A p \in N : ~IsStop(p)
  <2>1. Okay(s, i).cmd = "OKAY"
    BY DEF Okay, Pkt
  <2> QED
    BY <2>1, NotesAreNoStop DEF IsStop
<1> HIDE DEF Y, N
<1>7. Keeps(s, Y.s)
  BY <1>2, FadesKeeps DEF EventOutcome
<1>8. More(down, Y.down, N)
  <2>1. CASE More(down, Y.down, Notes(s.rid))
    BY <1>5, <2>1, MoreMono
  <2>2. CASE s.st = "open" /\ More(Acked(down, s, i), Y.down, Notes(s.rid))
    <3>1. s.peer \in Sess
      BY <1>1, <2>2, PeerType DEF Sound, Sane
    <3>2. Okay(s, i) \in Packets
      <4>1. i \in Nat /\ s.rid \in Nat
        <5>1. s.rid \in Nat
          BY <1>1, SocketType
        <5> QED
          BY <5>1, SMTT(60) DEF Socks
      <4> HIDE DEF s
      <4> QED
        BY <4>1, SMTT(60) DEF Okay, Pkt, Packets
    <3>3. More(down, Acked(down, s, i), N)
      BY <1>1, <1>5, <3>1, <3>2, MoreAppend DEF Acked
    <3>4. More(Acked(down, s, i), Y.down, N)
      BY <1>5, <2>2, MoreMono
    <3> QED
      BY <1>1, <3>3, <3>4, MoreTrans
  <2> QED
    BY <1>2, <2>1, <2>2 DEF EventOutcome
<1> QED
  BY <1>3, <1>4, <1>6, <1>7, <1>8, SocketStep

(* The threads of the services change only what they own.                  *)
LEMMA ServiceStep ==
  ASSUME LoopInv, NEW i \in Socks, Service(i)
  PROVE  LoopInv'
<1> DEFINE s == sk[i]
<1>0. AdbTypeOK /\ SoundInv
  BY DEF LoopInv
<1>1. s \in Sockets /\ down \in [Sess -> Seq(Packets)] /\ Sound(s)
  BY <1>0, StateTypes DEF SoundInv, AdbTypeOK
<1>2. UNCHANGED <<usbFd, nsess, opener, reg, tr, up, down, pend, host, gone, sent>>
  BY DEF Service, ServiceReads, ServiceAnswers, ServiceFails, ServiceCloses
<1>3. ASSUME NEW t \in Sockets, Len(t.fd) <= FdBuf, t.st = s.st, t.peer = s.peer,
             t.rid = s.rid, t.q = s.q, t.want = s.want, t.ev = s.ev,
             sk' = [sk EXCEPT ![i] = t]
      PROVE  LoopInv'
  <2>1. Keeps(s, t)
    BY <1>1, <1>3 DEF Keeps, Sound, Sane, Alive
  <2>2. More(down, down', Notes(0))
    <3>1. More(down, down, Notes(0)) /\ down' = down
      BY <1>1, <1>2, MoreSame
    <3> QED
      BY <3>1 DEF More
  <2>3. UNCHANGED <<usbFd, nsess, opener, reg, tr, up, pend, host, gone, sent>>
    BY <1>2
  <2> QED
    BY <1>3, <2>1, <2>2, <2>3, NotesAreNoStop, SocketStep
<1>4. CASE ServiceReads(i)
  <2> DEFINE g == Append(s.got, Head(s.fd))
             f == Tail(s.fd)
             t == [s EXCEPT !.got = g, !.fd = f]
  <2>1. g \in Seq(Nat) /\ f \in Seq(Nat) /\ Len(f) <= FdBuf
    <3>1. s.fd \in Seq(Nat) /\ s.got \in Seq(Nat) /\ s.fd # <<>> /\ Len(s.fd) <= FdBuf
      BY <1>1, <1>4, SocketType DEF ServiceReads, Sound, Sane
    <3> HIDE DEF s
    <3>2. Head(s.fd) \in Nat /\ f \in Seq(Nat) /\ Len(f) = Len(s.fd) - 1 /\ Len(s.fd) \in Nat
      BY <3>1, SeqTail
    <3>3. Len(f) <= FdBuf
      BY <3>1, <3>2, AdbAssumption, SMTT(60)
    <3>4. g \in Seq(Nat)
      BY <3>1, <3>2, SeqAppend
    <3> QED
      BY <3>2, <3>3, <3>4
  <2>2. sk' = [sk EXCEPT ![i] = t]
    BY <1>4 DEF ServiceReads
  <2> HIDE DEF g, f
  <2>3. t \in Sockets
    BY <1>1, <2>1 DEF Sockets
  <2>4. /\ t.fd = f /\ t.st = s.st /\ t.peer = s.peer
        /\ t.rid = s.rid /\ t.q = s.q /\ t.want = s.want /\ t.ev = s.ev
    BY <1>1 DEF Sockets
  <2> QED
    BY <1>3, <2>1, <2>2, <2>3, <2>4
<1>5. ASSUME NEW a \in {"answered", "failed"}, ServiceAnswers(i) \/ ServiceFails(i),
             sk' = [sk EXCEPT ![i].svc = a, ![i].back = IF SocketAlive(i) THEN 1 ELSE 0]
      PROVE  LoopInv'
  <2> DEFINE b == IF SocketAlive(i) THEN 1 ELSE 0
             t == [s EXCEPT !.svc = a, !.back = b]
  <2>1. sk' = [sk EXCEPT ![i] = t] /\ b \in {0, 1}
    BY <1>5
  <2> HIDE DEF b
  <2>2. t \in Sockets
    BY <1>1, <1>5, <2>1 DEF Sockets
  <2>3. /\ t.fd = s.fd /\ t.st = s.st /\ t.peer = s.peer
        /\ t.rid = s.rid /\ t.q = s.q /\ t.want = s.want /\ t.ev = s.ev
    BY <1>1 DEF Sockets
  <2> QED
    BY <1>1, <1>3, <2>1, <2>2, <2>3 DEF Sound, Sane
<1>6. CASE ServiceCloses(i)
  <2> DEFINE t == [s EXCEPT !.svc = "closed"]
  <2>1. sk' = [sk EXCEPT ![i] = t]
    BY <1>6 DEF ServiceCloses
  <2>2. t \in Sockets
    BY <1>1 DEF Sockets
  <2>3. /\ t.fd = s.fd /\ t.st = s.st /\ t.peer = s.peer
        /\ t.rid = s.rid /\ t.q = s.q /\ t.want = s.want /\ t.ev = s.ev
    BY <1>1 DEF Sockets
  <2> QED
    BY <1>1, <1>3, <2>1, <2>2, <2>3 DEF Sound, Sane
<1> QED
  BY <1>4, <1>5, <1>6 DEF Service, ServiceAnswers, ServiceFails

(* fdevent_process: what becomes pending is alive and has something to do. *)
LEMMA FdeventProcessStep ==
  ASSUME LoopInv, FdeventProcess
  PROVE  LoopInv'
<1>0. AdbTypeOK /\ LifeInv /\ RegInv /\ StopInv /\ SoundInv /\ OwnDevice
  BY DEF LoopInv
<1>1. UNCHANGED <<usbFd, nsess, opener, reg, tr, up, down, host, gone, sent>>
  BY DEF FdeventProcess
<1>2. ASSUME NEW i \in Socks
      PROVE  sk'[i] \in Sockets /\ Sound(sk'[i]) /\ sk'[i].peer = sk[i].peer
  <2> DEFINE s == sk[i]
             t == [s EXCEPT !.ev = Ready(i)]
  <2>1. s \in Sockets /\ Sound(s)
    BY <1>0, StateTypes DEF SoundInv
  <2>2. Ready(i) \subseteq s.want /\ s.want \in SUBSET {"R", "W"}
    BY <2>1, SocketType DEF Ready
  <2>3. Ready(i) # {} => Alive(s)
    BY DEF Ready, SocketAlive, Alive
  <2>4. t \in Sockets
    BY <2>1, <2>2 DEF Sockets
  <2>5. /\ t.st = s.st /\ t.peer = s.peer /\ t.fd = s.fd /\ t.q = s.q
        /\ t.want = s.want /\ t.ev = Ready(i)
    BY <2>1 DEF Sockets
  <2>6. "W" \in t.want \cup t.ev => "W" \in s.want \cup s.ev
    BY <2>2, <2>5
  <2>7. Sound(t)
    BY <2>1, <2>3, <2>5, <2>6 DEF Sound, Sane, Alive
  <2>8. sk'[i] = t
    BY DEF FdeventProcess
  <2> QED
    BY <2>4, <2>5, <2>7, <2>8
<1>3. sk' \in [Socks -> Sockets]
  <2>1. sk' = [i \in Socks |-> [sk[i] EXCEPT !.ev = Ready(i)]]
    BY DEF FdeventProcess
  <2> QED
    BY <1>2, <2>1
<1>4. pend' = {n \in 0..MaxSess : IF n = 0 THEN reg # <<>> ELSE tr[n].st = "live" /\ up[n] # <<>>}
  BY DEF FdeventProcess
<1>5. AdbTypeOK'
  BY <1>0, <1>1, <1>3, <1>4 DEF AdbTypeOK
<1>6. LifeInv' /\ RegInv' /\ OwnDevice'
  <2>1. \A l \in Sess : Steady(l)
    BY <1>1 DEF Steady
  <2> QED
    BY <1>1, <2>1, SteadyStep
<1>7. StopInv'
  BY <1>0, <1>1 DEF StopInv, StopOf, Stopping
<1>8. SoundInv'
  BY <1>0, <1>1, <1>2 DEF SoundInv
<1>9. PendInv'
  BY <1>1, <1>4 DEF PendInv
<1> QED
  BY <1>5, <1>6, <1>7, <1>8, <1>9 DEF LoopInv

(* close_all_sockets has nothing to close.                                 *)
LEMMA CloseAllStep ==
  ASSUME LoopInv, NEW k \in Sess, CloseAllSockets(k)
  PROVE  LoopInv' /\ sk' = sk /\ down' = down
<1> DEFINE u == [tr[k] EXCEPT !.inp = "kick"]
<1>0. AdbTypeOK /\ LifeInv /\ StopInv /\ SoundInv /\ PendInv
  BY DEF LoopInv
<1>1. tr[k] \in Transports /\ tr[k].inp = "closeall" /\ LifeOf(tr[k]) /\ StopOf(k)
  BY <1>0, StateTypes DEF LifeInv, StopInv, CloseAllSockets
<1>2. tr[k].st = "live"
  BY <1>1, TransportType DEF LifeOf
<1>3. \A i \in Socks : sk[i].peer # k
  <2>1. k # 0
    BY SMTT(60) DEF Sess
  <2> QED
    BY <1>0, <1>1, <2>1 DEF SoundInv, Carries
<1>4. /\ tr' = [tr EXCEPT ![k] = u] /\ sk' = sk /\ down' = down
      /\ UNCHANGED <<usbFd, nsess, opener, reg, up, pend, host, gone, sent>>
  <2>1. {i \in Socks : sk[i].peer = k /\ sk[i].st = "open"} = {}
    BY <1>3
  <2> QED
    BY <2>1 DEF CloseAllSockets
<1>5. u \in Transports
  BY <1>1 DEF Transports
<1>6. /\ u.st = tr[k].st /\ u.conn = tr[k].conn /\ u.ref = tr[k].ref
      /\ u.kicked = tr[k].kicked /\ u.out = tr[k].out /\ u.inp = "kick"
  BY <1>1, SMTT(60) DEF Transports
<1> HIDE DEF u
<1>7. tr' \in [Sess -> Transports] /\ tr'[k] = u /\ \A l \in Sess : l # k => tr'[l] = tr[l]
  BY <1>0, <1>4, <1>5, OneTransport
<1>8. AdbTypeOK'
  BY <1>0, <1>4, <1>7 DEF AdbTypeOK
<1>9. LifeInv' /\ RegInv' /\ OwnDevice'
  <2>1. \A l \in Sess : Steady(l)
    BY <1>1, <1>2, <1>4, <1>6, <1>7 DEF Steady
  <2> QED
    BY <1>4, <2>1, SteadyStep
<1>10. StopInv'
  <2>1. Stopping(k)
    BY <1>1 DEF Stopping
  <2>2. StopOf(k)'
    BY <1>1, <1>4, <1>6, <1>7, <2>1, StopSame
  <2>3. \A l \in Sess : l # k => StopOf(l)'
    BY <1>0, <1>4, <1>7, StopSame DEF StopInv
  <2> QED
    BY <2>2, <2>3 DEF StopInv
<1>11. SoundInv'
  <2>1. \A l \in Sess : Carries(tr[l]) => Carries(tr'[l])
    BY <1>1, <1>7 DEF Carries
  <2> QED
    BY <1>0, <1>4, <2>1, SoundSame
<1>12. PendInv'
  <2>1. \A l \in Sess : tr[l].st = "live" => tr'[l].st = "live"
    BY <1>2, <1>6, <1>7
  <2> QED
    BY <1>0, <1>4, <2>1, PendSame
<1> QED
  BY <1>4, <1>8, <1>9, <1>10, <1>11, <1>12 DEF LoopInv

-----------------------------------------------------------------------------
(* run_transport_disconnects: the sockets of k lose their peer.            *)
LEMMA DisconnectsDoes ==
  ASSUME AdbTypeOK, SoundInv, NEW k \in Sess, sk' = RunTransportDisconnects(k)
  PROVE  /\ sk' \in [Socks -> Sockets]
         /\ \A i \in Socks : /\ Fades(sk[i], sk'[i]) /\ sk'[i].peer # k
                             /\ sk[i].peer # k => sk'[i] = sk[i]
                             /\ sk[i].peer = k => sk'[i].peer = 0
<1>0. k # 0
  BY SMTT(60) DEF Sess
<1>1. ASSUME NEW i \in Socks
      PROVE  /\ Fades(sk[i], sk'[i]) /\ sk'[i].peer # k
             /\ sk[i].peer # k => sk'[i] = sk[i]
             /\ sk[i].peer = k => sk'[i].peer = 0
  <2>1. sk[i] \in Sockets /\ Sound(sk[i])
    BY StateTypes DEF SoundInv
  <2>2. CASE sk[i].peer = k
    <3>1. sk'[i] = CloseAlone([sk[i] EXCEPT !.peer = 0])
      BY <2>2 DEF RunTransportDisconnects, RemoteSocketDisconnect
    <3>2. sk[i].st # "none" /\ Sane(sk[i])
      BY <1>0, <2>1, <2>2 DEF Sound, Sane
    <3>3. Fades(sk[i], sk'[i]) /\ sk'[i].peer = 0
      BY <2>1, <3>1, <3>2, CloseAloneFades
    <3> QED
      BY <1>0, <2>2, <3>3
  <2>3. CASE sk[i].peer # k
    <3>1. sk'[i] = sk[i]
      BY <2>3 DEF RunTransportDisconnects
    <3>2. Fades(sk[i], sk[i])
      BY <2>1 DEF Fades
    <3> QED
      BY <2>3, <3>1, <3>2
  <2> QED
    BY <2>2, <2>3
<1>2. \A i \in Socks : sk'[i] \in Sockets
  BY <1>1 DEF Fades
<1>3. sk' \in [Socks -> Sockets]
  BY <1>2 DEF RunTransportDisconnects
<1> QED
  BY <1>1, <1>3

LEMMA SoundCut ==
  ASSUME AdbTypeOK, SoundInv, NEW k \in Sess, sk' = RunTransportDisconnects(k),
         \A l \in Sess : l # k => tr'[l] = tr[l]
  PROVE  SoundInv'
<1>1. ASSUME NEW i \in Socks
      PROVE  Sound(sk'[i]) /\ (sk'[i].peer # 0 => Carries(tr'[sk'[i].peer]))
  <2>1. /\ Fades(sk[i], sk'[i]) /\ sk'[i].peer # k
        /\ sk[i].peer # k => sk'[i] = sk[i]
        /\ sk[i].peer = k => sk'[i].peer = 0
    BY DisconnectsDoes
  <2>2. ASSUME sk'[i].peer # 0
        PROVE  sk'[i] = sk[i] /\ sk[i].peer \in Sess /\ sk[i].peer # k
    BY <2>1, <2>2, StateTypes, PeerType
  <2> QED
    BY <2>1, <2>2 DEF Fades, SoundInv
<1> QED
  BY <1>1 DEF SoundInv

(* The registration at the head of the socketpair is taken off.            *)
LEMMA RegTail ==
  ASSUME AdbTypeOK, RegInv, reg # <<>>, reg' = Tail(reg), NEW k, k = Head(reg)[1],
         \A l \in Sess : l # k => tr'[l] = tr[l]
  PROVE  /\ reg' \in Seq(Sess \X {0, 1}) /\ RegInv' /\ k \in Sess
         /\ Head(reg)[2] = 0 => /\ tr[k].st = "live" /\ tr[k].out = "exited"
                                /\ tr[k].inp = "exited"
         /\ Head(reg)[2] # 0 => tr[k].st = "queued"
<1>1. /\ reg' \in Seq(Sess \X {0, 1}) /\ Len(reg) \in Nat \ {0} /\ Len(reg') = Len(reg) - 1
      /\ \A n \in 1..(Len(reg) - 1) : reg'[n] = reg[n + 1]
      /\ Head(reg) = reg[1]
  <2>1. reg \in Seq(Sess \X {0, 1})
    BY DEF AdbTypeOK
  <2> QED
    BY <2>1, SeqTail, SMTT(60)
<1>2. /\ 1 \in 1..Len(reg)
      /\ \A n \in 1..Len(reg') : /\ n + 1 \in 1..Len(reg) /\ n + 1 # 1
                                 /\ \A m \in 1..Len(reg') : m + 1 = n + 1 => m = n
  BY <1>1, SMTT(60)
<1>3. \A n \in 1..Len(reg') : reg'[n] = reg[n + 1]
  BY <1>1
<1>4. \A n \in 1..Len(reg) : reg[n][1] \in Sess /\ reg[n][2] \in {0, 1}
  BY StateTypes
<1>5. \A n \in 1..Len(reg') : reg'[n][1] \in Sess /\ reg'[n][1] # k
  BY <1>1, <1>2, <1>3, <1>4 DEF RegInv
<1>6. IF reg[1][2] = 1 THEN tr[k].st = "queued"
      ELSE tr[k].st = "live" /\ tr[k].out = "exited" /\ tr[k].inp = "exited"
  BY <1>1, <1>2 DEF RegInv
<1>7. reg[1][2] = 1 <=> Head(reg)[2] # 0
  <2>1. reg[1][2] \in {0, 1} /\ Head(reg)[2] = reg[1][2]
    BY <1>1, <1>2, <1>4
  <2> QED
    BY <2>1, SMTT(60)
<1>8. RegInv'
  <2>1. ASSUME NEW n \in 1..Len(reg')
        PROVE  IF reg'[n][2] = 1 THEN tr'[reg'[n][1]].st = "queued"
               ELSE /\ tr'[reg'[n][1]].st = "live"
                    /\ tr'[reg'[n][1]].out = "exited" /\ tr'[reg'[n][1]].inp = "exited"
    <3>1. tr'[reg'[n][1]] = tr[reg[n + 1][1]] /\ reg'[n] = reg[n + 1]
      BY <1>3, <1>5
    <3>2. IF reg[n + 1][2] = 1 THEN tr[reg[n + 1][1]].st = "queued"
          ELSE /\ tr[reg[n + 1][1]].st = "live"
               /\ tr[reg[n + 1][1]].out = "exited" /\ tr[reg[n + 1][1]].inp = "exited"
      BY <1>2 DEF RegInv
    <3> QED
      BY <3>1, <3>2
  <2>2. ASSUME NEW m \in 1..Len(reg'), NEW n \in 1..Len(reg'), reg'[m][1] = reg'[n][1]
        PROVE  m = n
    <3>1. reg[m + 1][1] = reg[n + 1][1] /\ m + 1 \in 1..Len(reg) /\ n + 1 \in 1..Len(reg)
      BY <1>2, <1>3, <2>2
    <3>2. m + 1 = n + 1
      BY <3>1 DEF RegInv
    <3> QED
      BY <1>2, <3>2
  <2> QED
    BY <2>1, <2>2 DEF RegInv
<1>9. k \in Sess
  BY <1>1, <1>2, <1>4
<1> QED
  BY <1>1, <1>6, <1>7, <1>8, <1>9

LEMMA RegistrationStep ==
  ASSUME LoopInv, TransportRegistration
  PROVE  LoopInv'
<1>a. AdbTypeOK /\ PendInv
  BY DEF LoopInv
<1>b. PICK k \in Sess : k = Head(reg)[1]
  <2>1. reg \in Seq(Sess \X {0, 1}) /\ reg # <<>>
    BY <1>a DEF AdbTypeOK, PendInv, TransportRegistration
  <2> QED
    BY <2>1, SMTT(60)
<1> DEFINE t == tr[k]
           u == IF Head(reg)[2] = 0 THEN [t EXCEPT !.st = "freed"]
                ELSE [t EXCEPT !.st = "live", !.ref = 2, !.out = "start", !.inp = "read"]
<1>0. AdbTypeOK /\ LifeInv /\ RegInv /\ StopInv /\ SoundInv /\ PendInv /\ OwnDevice
  BY DEF LoopInv
<1>1. reg # <<>> /\ reg' = Tail(reg)
  BY <1>0 DEF TransportRegistration, PendInv
<1>2. UNCHANGED <<usbFd, nsess, opener, up, down, host, gone, sent>>
  BY DEF TransportRegistration
<1>3. tr' = [tr EXCEPT ![k] = u]
  BY <1>b DEF TransportRegistration, Registered, Removed
<1>5. t \in Transports /\ LifeOf(t) /\ StopOf(k)
  BY <1>0, StateTypes DEF LifeInv, StopInv
<1>6. u \in Transports
  <2>1. 2 \in 0..2
    BY SMTT(60)
  <2> HIDE DEF t
  <2> QED
    BY <1>5, <2>1 DEF Transports
<1>7. /\ u.conn = t.conn /\ u.kicked = t.kicked
      /\ Head(reg)[2] = 0 => u.st = "freed" /\ u.out = t.out /\ u.inp = t.inp
      /\ Head(reg)[2] # 0 => u.st = "live" /\ u.ref = 2 /\ u.out = "start" /\ u.inp = "read"
  <2> HIDE DEF t
  <2> QED
    BY <1>5, SMTT(60) DEF Transports
<1> HIDE DEF u
<1>9. tr' \in [Sess -> Transports] /\ tr'[k] = u /\ \A l \in Sess : l # k => tr'[l] = tr[l]
  BY <1>0, <1>3, <1>6, OneTransport
<1>10. /\ reg' \in Seq(Sess \X {0, 1}) /\ RegInv'
       /\ Head(reg)[2] = 0 => t.st = "live" /\ t.out = "exited" /\ t.inp = "exited"
       /\ Head(reg)[2] # 0 => t.st = "queued"
  BY <1>0, <1>1, <1>b, <1>9, RegTail
<1>11. LifeOf(u)
  <2>1. Running("start") + Running("read") = 2
    BY SMTT(60) DEF Running
  <2>2. u.kicked <=> t.kicked
    BY <1>7, SMTT(60)
  <2> HIDE DEF t
  <2> QED
    BY <1>5, <1>7, <1>10, <2>1, <2>2 DEF LifeOf, Left
<1>12. u.st \in {"live", "freed"} /\ t.st \in {"live", "queued"}
  BY <1>7, <1>10
<1>13. LifeInv'
  BY <1>0, <1>2, <1>9, <1>11, <1>12 DEF LifeInv
<1>14. StopInv'
  <2>1. ASSUME Head(reg)[2] # 0 PROVE ~Stopping(k) /\ up[k] = <<>>
    <3>1. t.out = "none" /\ up[k] = <<>>
      BY <1>0, <1>5, <1>10, <2>1 DEF LifeOf, LifeInv
    <3> QED
      BY <1>5, <3>1 DEF StopOf, Left
  <2>2. Stopping(k)' => Stopping(k)
    <3>1. CASE Head(reg)[2] = 0
      BY <1>2, <1>7, <1>9, <3>1 DEF Stopping
    <3>2. CASE Head(reg)[2] # 0
      BY <1>2, <1>7, <1>9, <3>2 DEF Stopping, Left
    <3> QED
      BY <3>1, <3>2
  <2>3. \A n \in 1..Len(up[k]) : IsStop(up[k][n]) => Head(reg)[2] = 0
    <3>1. up[k] = <<>> => 1..Len(up[k]) = {}
      BY SMTT(60)
    <3> QED
      BY <2>1, <3>1
  <2>4. StopOf(k)'
    BY <1>2, <1>5, <1>7, <1>9, <2>1, <2>2, <2>3 DEF StopOf
  <2>5. \A l \in Sess : l # k => StopOf(l)'
    BY <1>0, <1>2, <1>9, StopSame DEF StopInv
  <2> QED
    BY <2>4, <2>5 DEF StopInv
<1>15. SoundInv' /\ sk' \in [Socks -> Sockets]
  <2>1. CASE Head(reg)[2] = 0
    <3>1. sk' = RunTransportDisconnects(k)
      BY <1>b, <2>1 DEF TransportRegistration, Removed
    <3> QED
      BY <1>0, <1>9, <3>1, SoundCut, DisconnectsDoes
  <2>2. CASE Head(reg)[2] # 0
    <3>1. sk' = sk
      BY <2>2 DEF TransportRegistration, Registered
    <3>2. \A l \in Sess : Carries(tr[l]) => Carries(tr'[l])
      BY <1>9, <1>10, <2>2 DEF Carries
    <3> QED
      BY <1>0, <3>1, <3>2, SoundSame DEF AdbTypeOK
  <2> QED
    BY <2>1, <2>2
<1>16. /\ pend' \subseteq pend /\ 0 \notin pend' /\ (Head(reg)[2] = 0 => k \notin pend')
  BY <1>b DEF TransportRegistration, Registered, Removed
<1>17. PendInv'
  <2>1. \A l \in Sess \cap pend' : tr[l].st = "live" => tr'[l].st = "live"
    BY <1>7, <1>9, <1>16
  <2> QED
    BY <1>0, <1>2, <1>16, <2>1, PendSame
<1>18. OwnDevice'
  <2>1. ASSUME Head(reg)[2] # 0 PROVE usbFd = k
    BY <1>0, <1>5, <1>10, <2>1 DEF LifeOf, OwnDevice
  <2> QED
    BY <1>0, <1>2, <1>7, <1>9, <2>1 DEF OwnDevice
<1>19. AdbTypeOK'
  BY <1>0, <1>2, <1>9, <1>10, <1>15, <1>16 DEF AdbTypeOK
<1> QED
  BY <1>10, <1>13, <1>14, <1>15, <1>17, <1>18, <1>19 DEF LoopInv

-----------------------------------------------------------------------------
(* transport_socket_events: the packet it reads.                           *)

LEMMA HeadFacts ==
  ASSUME LoopInv, NEW k \in Sess, TransportSocket(k)
  PROVE  /\ tr[k].st = "live" /\ up[k] # <<>> /\ ~Stopping(k) /\ tr[k].inp = "read"
         /\ Head(up[k]) \in Packets /\ Head(up[k]) = up[k][1]
         /\ Len(up[k]) \in Nat \ {0} /\ Len(up'[k]) = Len(up[k]) - 1
         /\ up' \in [Sess -> Seq(Packets)] /\ \A l \in Sess : l # k => up'[l] = up[l]
         /\ \A n \in 1..Len(up'[k]) :
              /\ n + 1 \in 1..Len(up[k]) /\ up'[k][n] = up[k][n + 1]
              /\ IsStop(up'[k][n]) => n = Len(up'[k]) /\ tr[k].out \in Left
         /\ IsStop(Head(up[k])) => up'[k] = <<>> /\ tr[k].out \in Left
<1>0. AdbTypeOK /\ LifeInv /\ StopOf(k) /\ PendInv
  BY DEF LoopInv, StopInv
<1>1. k \in pend /\ up' = [up EXCEPT ![k] = Tail(@)]
  BY DEF TransportSocket
<1>2. tr[k].st = "live" /\ up[k] # <<>>
  <2>1. k # 0
    BY SMTT(60) DEF Sess
  <2> QED
    BY <1>0, <1>1, <2>1 DEF PendInv
<1>3. ~Stopping(k)
  BY <1>0, <1>2 DEF StopOf
<1>4. tr[k].inp = "read"
  <2>1. tr[k] \in Transports /\ LifeOf(tr[k])
    BY <1>0, StateTypes DEF LifeInv
  <2> QED
    BY <1>2, <1>3, <2>1, TransportType DEF LifeOf, Stopping, Left
<1>5. /\ up' \in [Sess -> Seq(Packets)] /\ \A l \in Sess : l # k => up'[l] = up[l]
      /\ Len(up[k]) \in Nat \ {0} /\ Len(up'[k]) = Len(up[k]) - 1
      /\ \A n \in 1..Len(up'[k]) : up'[k][n] = up[k][n + 1]
      /\ Head(up[k]) = up[k][1] /\ Head(up[k]) \in Packets
  <2>1. up \in [Sess -> Seq(Packets)]
    BY <1>0 DEF AdbTypeOK
  <2> QED
    BY <1>1, <1>2, <2>1, PairTail, SMTT(60)
<1>6. /\ 1 \in 1..Len(up[k])
      /\ \A n \in 1..Len(up'[k]) :
           n + 1 \in 1..Len(up[k]) /\ (n + 1 = Len(up[k]) => n = Len(up'[k]))
  BY <1>5, SMTT(60)
<1>7. \A n \in 1..Len(up'[k]) :
        IsStop(up'[k][n]) => n = Len(up'[k]) /\ tr[k].out \in Left
  BY <1>0, <1>5, <1>6 DEF StopOf
<1>8. ASSUME IsStop(Head(up[k]))
      PROVE  up'[k] = <<>> /\ tr[k].out \in Left
  <2>1. 1 = Len(up[k]) /\ tr[k].out \in Left
    BY <1>0, <1>5, <1>6, <1>8 DEF StopOf
  <2>2. up'[k] \in Seq(Packets) /\ Len(up'[k]) = 0
    BY <1>5, <2>1, SMTT(60)
  <2> QED
    BY <2>1, <2>2, SMTT(60)
<1> QED
  BY <1>2, <1>3, <1>4, <1>5, <1>6, <1>7, <1>8

(* A packet has been handled: u is the transport after, and what was sent  *)
(* is no SYNC(0, 0) unless that was what was read.                         *)
LEMMA PacketHandled ==
  ASSUME LoopInv, NEW k \in Sess, TransportSocket(k), NEW u \in Transports,
         tr' = [tr EXCEPT ![k] = u], u.st = tr[k].st, u.out = tr[k].out,
         u.inp = tr[k].inp, u.ref = tr[k].ref, u.kicked = tr[k].kicked,
         sk' \in [Socks -> Sockets], SoundInv', NEW N, More(down, down', N),
         \/ \A p \in N : ~IsStop(p)
         \/ /\ IsStop(Head(up[k])) /\ u.conn = "offline"
            /\ \A l \in Sess : l # k => down'[l] = down[l]
  PROVE  LoopInv'
<1>0. AdbTypeOK /\ StopInv /\ PendInv
  BY DEF LoopInv
<1>1. /\ pend' = pend \ {k}
      /\ UNCHANGED <<usbFd, nsess, opener, reg, host, gone, sent>>
  BY DEF TransportSocket
<1>2. tr' \in [Sess -> Transports] /\ tr'[k] = u /\ \A l \in Sess : l # k => tr'[l] = tr[l]
  BY <1>0, OneTransport
<1>3. /\ tr[k].st = "live" /\ ~Stopping(k) /\ up' \in [Sess -> Seq(Packets)]
      /\ \A l \in Sess : l # k => up'[l] = up[l]
      /\ \A n \in 1..Len(up'[k]) :
              IsStop(up'[k][n]) => n = Len(up'[k]) /\ tr[k].out \in Left
      /\ IsStop(Head(up[k])) => up'[k] = <<>> /\ tr[k].out \in Left
  BY HeadFacts
<1>4. AdbTypeOK'
  BY <1>0, <1>1, <1>2, <1>3 DEF AdbTypeOK, More
<1>5. LifeInv' /\ RegInv' /\ OwnDevice'
  <2>1. \A l \in Sess : Steady(l)
    BY <1>2, <1>3 DEF Steady
  <2> QED
    BY <1>1, <2>1, SteadyStep
<1>6. StopInv'
  <2>0. \A l \in Sess : StopOf(l)
    BY <1>0 DEF StopInv
  <2>1. CASE \A p \in N : ~IsStop(p)
    <3>1. StopOf(k)'
      BY <1>0, <1>2, <1>3, <2>0, <2>1, StopMore
    <3>2. ASSUME NEW l \in Sess, l # k PROVE StopOf(l)'
      <4>1. \A n \in 1..Len(up'[l]) :
              IsStop(up'[l][n]) => n = Len(up'[l]) /\ tr[l].out \in Left
        BY <1>3, <2>0, <3>2 DEF StopOf
      <4> QED
        BY <1>0, <1>2, <1>3, <2>0, <2>1, <3>2, <4>1, StopMore
    <3> QED
      BY <3>1, <3>2 DEF StopInv
  <2>2. CASE /\ IsStop(Head(up[k])) /\ u.conn = "offline"
             /\ \A l \in Sess : l # k => down'[l] = down[l]
    <3>1. StopOf(k)'
      BY <1>2, <1>3, <2>2 DEF StopOf
    <3>2. \A l \in Sess : l # k => StopOf(l)'
      BY <1>2, <1>3, <2>0, <2>2, StopSame
    <3> QED
      BY <3>1, <3>2 DEF StopInv
  <2> QED
    BY <2>1, <2>2
<1>7. PendInv'
  <2>1. \A l \in Sess \cap pend' : tr'[l] = tr[l] /\ up'[l] = up[l]
    BY <1>1, <1>2, <1>3
  <2>2. pend' \subseteq pend
    BY <1>1
  <2> QED
    BY <1>0, <1>1, <2>1, <2>2, PendSame
<1> QED
  BY <1>4, <1>5, <1>6, <1>7 DEF LoopInv

(* Every socket fades, and packets of N are sent.                          *)
Quietly(N) ==
  /\ sk' \in [Socks -> Sockets] /\ \A i \in Socks : Fades(sk[i], sk'[i])
  /\ More(down, down', N)

LEMMA SameFades ==
  ASSUME LoopInv, sk' = sk
  PROVE  sk' \in [Socks -> Sockets] /\ \A i \in Socks : Fades(sk[i], sk'[i])
<1>1. \A i \in Socks : sk[i] \in Sockets /\ Sound(sk[i])
  BY StateTypes DEF LoopInv, SoundInv
<1>2. \A i \in Socks : Fades(sk[i], sk[i])
  BY <1>1 DEF Fades
<1>3. sk \in [Socks -> Sockets]
  BY DEF LoopInv, AdbTypeOK
<1> QED
  BY <1>2, <1>3

LEMMA HandleSyncDoes ==
  ASSUME LoopInv, NEW k \in Sess, TransportSocket(k), HandleSync(k, Head(up[k]))
  PROVE  LoopInv' /\ Quietly({p \in Packets : p.cmd = "SYNC"})
<1> DEFINE p == Head(up[k])
           N == {q \in Packets : q.cmd = "SYNC"}
<1>0. AdbTypeOK /\ SoundInv
  BY DEF LoopInv
<1>1. p \in Packets /\ p.cmd = "SYNC" /\ p \in N
  BY HeadFacts DEF HandleSync
<1>2. down' = [down EXCEPT ![k] = Append(@, p)]
  BY DEF HandleSync
<1>3. down \in [Sess -> Seq(Packets)] /\ tr[k] \in Transports /\ tr \in [Sess -> Transports]
  BY <1>0 DEF AdbTypeOK
<1> HIDE DEF p
<1>4. /\ \A l \in Sess : l # k => down'[l] = down[l]
      /\ More(down, down', N) /\ More(down, down', {p})
  <2>1. p \in {p}
    OBVIOUS
  <2> HIDE DEF N
  <2>2. More(down, down', N) /\ More(down, down', {p})
    BY <1>1, <1>2, <1>3, <2>1, MoreAppend
  <2> QED
    BY <1>2, <1>3, <2>2
<1> HIDE DEF N
<1>5. CASE p.a0 = 1
  <2>1. sk' = sk /\ tr' = tr
    BY <1>5 DEF HandleSync, p
  <2>2. ~IsStop(p)
    BY <1>5 DEF IsStop
  <2>3. SoundInv'
    BY <1>0, <2>1 DEF SoundInv
  <2>4. tr' = [tr EXCEPT ![k] = tr[k]]
    BY <1>3, <2>1
  <2>5. sk' \in [Socks -> Sockets] /\ \A i \in Socks : Fades(sk[i], sk'[i])
    BY <2>1, SameFades
  <2>6. \A q \in {p} : ~IsStop(q)
    BY <2>2
  <2>7. LoopInv'
    BY <1>3, <1>4, <2>3, <2>4, <2>5, <2>6, PacketHandled
  <2> QED
    BY <1>4, <2>5, <2>7 DEF Quietly, N
<1>6. CASE p.a0 # 1
  <2> DEFINE u == [tr[k] EXCEPT !.conn = "offline"]
  <2>1. sk' = RunTransportDisconnects(k) /\ tr' = [tr EXCEPT ![k] = u]
    BY <1>6 DEF HandleSync, p
  <2>2. u \in Transports
    BY <1>3 DEF Transports
  <2>3. /\ u.st = tr[k].st /\ u.conn = "offline" /\ u.ref = tr[k].ref
        /\ u.kicked = tr[k].kicked /\ u.out = tr[k].out /\ u.inp = tr[k].inp
    BY <1>3, SMTT(60) DEF Transports
  <2> HIDE DEF u
  <2>4. \A l \in Sess : l # k => tr'[l] = tr[l]
    BY <1>0, <2>1, <2>2, OneTransport
  <2>5. SoundInv' /\ sk' \in [Socks -> Sockets] /\ \A i \in Socks : Fades(sk[i], sk'[i])
    BY <1>0, <2>1, <2>4, SoundCut, DisconnectsDoes
  <2>6. IsStop(Head(up[k]))
    BY <1>1, <1>6 DEF IsStop, p
  <2>7. LoopInv'
    BY <1>4, <2>1, <2>2, <2>3, <2>5, <2>6, PacketHandled
  <2> QED
    BY <1>4, <2>5, <2>7 DEF Quietly, N
<1> QED
  BY <1>5, <1>6

LEMMA HandleConnectDoes ==
  ASSUME LoopInv, NEW k \in Sess, TransportSocket(k), HandleConnect(k, Head(up[k]))
  PROVE  LoopInv' /\ Quietly({p \in Packets : p.cmd = "CNXN"})
<1> DEFINE p == Pkt("CNXN", 0, 0, 0)
           N == {q \in Packets : q.cmd = "CNXN"}
           u == [tr[k] EXCEPT !.conn = "host"]
<1>0. AdbTypeOK /\ SoundInv
  BY DEF LoopInv
<1>1. p \in Packets /\ p.cmd = "CNXN"
  BY SMTT(60) DEF Pkt, Packets
<1>2. down' = [down EXCEPT ![k] = Append(@, p)] /\ tr' = [tr EXCEPT ![k] = u]
  BY DEF HandleConnect
<1>3. down \in [Sess -> Seq(Packets)] /\ tr[k] \in Transports
  BY <1>0 DEF AdbTypeOK
<1>4. u \in Transports
  BY <1>3 DEF Transports
<1>5. /\ u.st = tr[k].st /\ u.conn = "host" /\ u.ref = tr[k].ref
      /\ u.kicked = tr[k].kicked /\ u.out = tr[k].out /\ u.inp = tr[k].inp
  BY <1>3, SMTT(60) DEF Transports
<1> HIDE DEF u, p
<1>6. p \in N /\ \A q \in N : ~IsStop(q)
  BY <1>1 DEF IsStop
<1> HIDE DEF N
<1>7. More(down, down', N)
  BY <1>1, <1>2, <1>3, <1>6, MoreAppend
<1>8. tr'[k] = u /\ \A l \in Sess : l # k => tr'[l] = tr[l]
  BY <1>0, <1>2, <1>4, OneTransport
<1>9. SoundInv' /\ sk' \in [Socks -> Sockets] /\ \A i \in Socks : Fades(sk[i], sk'[i])
  <2>1. CASE sk' = sk
    <3>1. \A l \in Sess : Carries(tr[l]) => Carries(tr'[l])
      BY <1>5, <1>8 DEF Carries
    <3> QED
      BY <1>0, <2>1, <3>1, SoundSame, SameFades
  <2>2. CASE sk' = RunTransportDisconnects(k)
    BY <1>0, <1>8, <2>2, SoundCut, DisconnectsDoes
  <2> QED
    BY <2>1, <2>2 DEF HandleConnect
<1>10. LoopInv'
  BY <1>2, <1>4, <1>5, <1>6, <1>7, <1>9, PacketHandled
<1> QED
  BY <1>7, <1>9, <1>10 DEF Quietly, N

LEMMA HandleNothingDoes ==
  ASSUME LoopInv, NEW k \in Sess, TransportSocket(k), HandleNothing(k, Head(up[k]))
  PROVE  LoopInv' /\ sk' = sk /\ down' = down
<1>1. UNCHANGED <<sk, down, tr>>
  BY DEF HandleNothing
<1>2. down \in [Sess -> Seq(Packets)] /\ tr[k] \in Transports /\ tr \in [Sess -> Transports]
  BY DEF LoopInv, AdbTypeOK
<1>3. tr' = [tr EXCEPT ![k] = tr[k]]
  BY <1>1, <1>2
<1>4. SoundInv'
  BY <1>1 DEF LoopInv, SoundInv
<1>5. More(down, down', Notes(0)) /\ \A p \in Notes(0) : ~IsStop(p)
  BY <1>1, <1>2, MoreSame, NotesAreNoStop
<1>6. sk' \in [Socks -> Sockets]
  BY <1>1, SameFades
<1> QED
  BY <1>1, <1>2, <1>3, <1>4, <1>5, <1>6, PacketHandled

(* One socket keeps what the event loop relies on.                         *)
LEMMA OneHandled ==
  ASSUME LoopInv, NEW k \in Sess, TransportSocket(k), tr' = tr, NEW i \in Socks,
         NEW t, t \in Sockets, Sound(t), t.peer \in {0, sk[i].peer} \/ t.peer = k,
         tr[k].conn = "host", sk' = [sk EXCEPT ![i] = t], NEW N,
         More(down, down', N), \A p \in N : ~IsStop(p)
  PROVE  LoopInv'
<1>0. AdbTypeOK /\ SoundInv
  BY DEF LoopInv
<1>1. tr[k] \in Transports /\ tr \in [Sess -> Transports]
  BY <1>0 DEF AdbTypeOK
<1>2. tr' = [tr EXCEPT ![k] = tr[k]]
  BY <1>1
<1>3. Carries(tr'[k])
  BY HeadFacts DEF Carries
<1>4. t.peer # 0 => t.peer = sk[i].peer \/ Carries(tr'[t.peer])
  BY <1>3
<1>5. \A l \in Sess : Carries(tr[l]) => Carries(tr'[l])
  OBVIOUS
<1>6. SoundInv'
  BY <1>0, <1>4, <1>5, SoundOne
<1>7. sk' \in [Socks -> Sockets]
  BY <1>0, OneSocket
<1> QED
  BY <1>1, <1>2, <1>6, <1>7, PacketHandled

LEMMA OneFades ==
  ASSUME LoopInv, NEW i \in Socks, NEW t, Fades(sk[i], t), sk' = [sk EXCEPT ![i] = t]
  PROVE  sk' \in [Socks -> Sockets] /\ \A j \in Socks : Fades(sk[j], sk'[j])
<1>0. AdbTypeOK /\ t \in Sockets
  BY DEF LoopInv, Fades
<1>1. /\ sk' \in [Socks -> Sockets] /\ sk'[i] = t
      /\ \A j \in Socks : j # i => sk'[j] = sk[j]
  BY <1>0, OneSocket
<1>2. \A j \in Socks : sk[j] \in Sockets /\ Sound(sk[j])
  BY <1>0, StateTypes DEF LoopInv, SoundInv
<1>3. \A j \in Socks : Fades(sk[j], sk[j])
  BY <1>2 DEF Fades
<1> QED
  BY <1>1, <1>3

LEMMA Found ==
  ASSUME LoopInv, NEW id, NEW i \in FindLocalSocket(id)
  PROVE  /\ i \in Socks /\ i = id /\ sk[i].st = "open" /\ sk[i] \in Sockets
         /\ Sound(sk[i]) /\ sk[i].peer # 0 /\ sk[i].peer \in Sess
         /\ Call(i) \in Calls /\ Call(i).s = sk[i] /\ Call(i).down = down
<1>1. i \in Socks /\ i = id /\ sk[i].st = "open"
  BY DEF FindLocalSocket
<1>2. sk[i] \in Sockets /\ Sound(sk[i]) /\ down \in [Sess -> Seq(Packets)]
  BY <1>1, StateTypes DEF LoopInv, SoundInv, AdbTypeOK
<1>3. sk[i].peer # 0
  BY <1>1, <1>2 DEF Sound, Sane
<1>4. sk[i].peer \in Sess
  BY <1>2, <1>3, PeerType
<1>5. Call(i) \in Calls /\ Call(i).s = sk[i] /\ Call(i).down = down
  BY <1>2, SMTT(60) DEF Call, Calls
<1> QED
  BY <1>1, <1>2, <1>3, <1>4, <1>5

LEMMA NotOffline ==
  ASSUME LoopInv, NEW k \in Sess, tr[k].conn # "offline"
  PROVE  tr[k].conn = "host"
<1>1. tr[k] \in Transports
  BY StateTypes DEF LoopInv
<1> QED
  BY <1>1, TransportType

LEMMA HandleReadyDoes ==
  ASSUME LoopInv, NEW k \in Sess, TransportSocket(k), HandleReady(k, Head(up[k]))
  PROVE  LoopInv' /\ Quietly(Notes(0))
<1> DEFINE p == Head(up[k])
<1>0. tr' = tr /\ down' = down /\ tr[k].conn = "host"
  BY NotOffline DEF HandleReady
<1>1. PICK i \in FindLocalSocket(p.a1) :
        LET s == IF sk[i].peer # 0 THEN sk[i] ELSE [sk[i] EXCEPT !.peer = k, !.rid = p.a0]
        IN sk' = [sk EXCEPT ![i] = FdeventSet(s, s.want \union {"R"})]
  BY DEF HandleReady
<1> HIDE DEF p
<1> DEFINE s == sk[i]
           t == FdeventSet(s, s.want \union {"R"})
<1>2. i \in Socks /\ s \in Sockets /\ Sound(s) /\ s.peer # 0
  BY Found
<1>3. sk' = [sk EXCEPT ![i] = t]
  BY <1>1, <1>2
<1> HIDE DEF s
<1>4. s.want \union {"R"} \in SUBSET {"R", "W"}
  BY <1>2, SocketType
<1>5. Fades(s, t)
  BY <1>2, <1>4, FdeventSetFades DEF Sound
<1> HIDE DEF t
<1>6. t \in Sockets /\ Sound(t) /\ t.peer \in {0, sk[i].peer}
  BY <1>5, FadesKeeps DEF Keeps, s
<1>7. More(down, down', Notes(0)) /\ \A q \in Notes(0) : ~IsStop(q)
  <2>1. down \in [Sess -> Seq(Packets)]
    BY DEF LoopInv, AdbTypeOK
  <2> QED
    BY <1>0, <2>1, MoreSame, NotesAreNoStop
<1>8. LoopInv'
  BY <1>0, <1>2, <1>3, <1>6, <1>7, OneHandled
<1>9. sk' \in [Socks -> Sockets] /\ \A j \in Socks : Fades(sk[j], sk'[j])
  BY <1>2, <1>3, <1>5, OneFades DEF s
<1> QED
  BY <1>7, <1>8, <1>9 DEF Quietly

LEMMA HandleCloseDoes ==
  ASSUME LoopInv, NEW k \in Sess, TransportSocket(k), HandleClose(k, Head(up[k]))
  PROVE  LoopInv' /\ \E i \in Socks : sk[i].st = "open" /\ Quietly(Notes(sk[i].rid))
<1> DEFINE p == Head(up[k])
<1>0. tr' = tr /\ tr[k].conn = "host"
  BY NotOffline DEF HandleClose
<1>1. PICK i \in FindLocalSocket(p.a1) : Return(i, LocalSocketClose(Call(i)))
  BY DEF HandleClose
<1> HIDE DEF p
<1> DEFINE Y == LocalSocketClose(Call(i))
<1>2. /\ i \in Socks /\ sk[i].st = "open" /\ Sound(sk[i])
      /\ Call(i) \in Calls /\ Call(i).s = sk[i] /\ Call(i).down = down
  BY Found
<1>3. Fades(sk[i], Y.s) /\ More(down, Y.down, Notes(sk[i].rid))
  <2>1. Sane(Call(i).s) /\ Call(i).s.st # "none"
    BY <1>2 DEF Sound
  <2>2. Fades(Call(i).s, Y.s) /\ More(Call(i).down, Y.down, Notes(Call(i).s.rid))
    BY <1>2, <2>1, CloseFades
  <2> HIDE DEF Y
  <2> QED
    BY <1>2, <2>2
<1>4. sk' = [sk EXCEPT ![i] = Y.s] /\ down' = Y.down
  BY <1>1 DEF Return
<1> HIDE DEF Y
<1>5. Y.s \in Sockets /\ Sound(Y.s) /\ Y.s.peer \in {0, sk[i].peer}
  BY <1>3, FadesKeeps DEF Keeps
<1>6. More(down, down', Notes(sk[i].rid)) /\ \A q \in Notes(sk[i].rid) : ~IsStop(q)
  BY <1>3, <1>4, NotesAreNoStop
<1>7. LoopInv'
  BY <1>0, <1>2, <1>4, <1>5, <1>6, OneHandled
<1>8. sk' \in [Socks -> Sockets] /\ \A j \in Socks : Fades(sk[j], sk'[j])
  BY <1>2, <1>3, <1>4, OneFades
<1> QED
  BY <1>2, <1>6, <1>7, <1>8 DEF Quietly

LEMMA ServiceSocketType ==
  ASSUME NEW k \in Sess, NEW r \in Nat
  PROVE  LET t == ServiceSocket(k, r)
         IN /\ t \in Sockets /\ Sound(t) /\ t.st = "open" /\ t.peer = k /\ t.rid = r
            /\ t.q = <<>> /\ t.fd = <<>> /\ t.got = <<>> /\ t.okays = 0 /\ t.wrtes = 0
<1> DEFINE t == ServiceSocket(k, r)
<1>1. k \in 0..MaxSess /\ k # 0 /\ 0 \in 0..MaxSess
  BY AdbAssumption, SMTT(60) DEF Sess
<1>2. <<>> \in Seq(Nat) /\ Len(<<>>) = 0 /\ 0 \in Nat /\ 0 <= FdBuf
  BY AdbAssumption, SMTT(60)
<1>3. NoSocket \in Sockets
  BY <1>1, <1>2 DEF NoSocket, Sockets
<1>4. /\ NoSocket.ev = {} /\ NoSocket.q = <<>> /\ NoSocket.fd = <<>> /\ NoSocket.got = <<>>
      /\ NoSocket.okays = 0 /\ NoSocket.wrtes = 0
  BY DEF NoSocket
<1>5. /\ t \in Sockets /\ t.st = "open" /\ t.peer = k /\ t.rid = r /\ t.want = {"R"}
      /\ t.q = <<>> /\ t.fd = <<>> /\ t.got = <<>> /\ t.okays = 0 /\ t.wrtes = 0
      /\ t.ev = {}
  <2>1. t \in Sockets
    BY <1>1, <1>3 DEF ServiceSocket, Sockets
  <2> QED
    BY <1>3, <1>4, <2>1, SMTT(60) DEF ServiceSocket, Sockets
<1> HIDE DEF t
<1>6. Sound(t)
  BY <1>1, <1>2, <1>5 DEF Sound, Sane
<1> QED
  BY <1>5, <1>6 DEF t

(* A socket for the stream the host opens, or none left.                   *)
LEMMA HandleOpenDoes ==
  ASSUME LoopInv, NEW k \in Sess, TransportSocket(k), HandleOpen(k, Head(up[k]))
  PROVE  LET p == Head(up[k])
         IN /\ LoopInv'
            /\ \/ /\ sk' = sk
                  /\ down' = [down EXCEPT ![k] = Append(@, Pkt("CLSE", 0, p.a0, 0))]
               \/ \E i \in Socks :
                    /\ sk[i].st = "none" /\ sk' = [sk EXCEPT ![i] = ServiceSocket(k, p.a0)]
                    /\ down' = [down EXCEPT ![k] = Append(@, Pkt("OKAY", i, p.a0, 0))]
<1> DEFINE p == Head(up[k])
<1>0. tr' = tr /\ tr[k].conn = "host" /\ AdbTypeOK /\ SoundInv
  BY NotOffline DEF HandleOpen, LoopInv
<1>1. p \in Packets /\ p.a0 \in Nat
  <2>1. p \in Packets
    BY HeadFacts
  <2> HIDE DEF p
  <2> QED
    BY <2>1 DEF Packets
<1>2. down \in [Sess -> Seq(Packets)] /\ tr[k] \in Transports /\ tr \in [Sess -> Transports]
  BY <1>0 DEF AdbTypeOK
<1>3. CASE FreeIds = {}
  <2> DEFINE q == Pkt("CLSE", 0, p.a0, 0)
  <2>1. sk' = sk /\ down' = [down EXCEPT ![k] = Append(@, q)]
    BY <1>3 DEF HandleOpen
  <2> HIDE DEF p
  <2>2. q \in Packets /\ q.cmd = "CLSE" /\ q.a1 = p.a0
    BY <1>1, SMTT(60) DEF Pkt, Packets
  <2> HIDE DEF q
  <2>3. q \in Notes(p.a0) /\ \A n \in Notes(p.a0) : ~IsStop(n)
    BY <2>2, NotesAreNoStop DEF Notes
  <2>4. More(down, down', Notes(p.a0))
    BY <1>2, <2>1, <2>2, <2>3, MoreAppend
  <2>5. SoundInv' /\ sk' \in [Socks -> Sockets]
    BY <1>0, <2>1, SameFades DEF SoundInv
  <2>6. tr' = [tr EXCEPT ![k] = tr[k]]
    BY <1>0, <1>2
  <2>7. LoopInv'
    BY <1>2, <2>3, <2>4, <2>5, <2>6, PacketHandled
  <2> QED
    BY <2>1, <2>7 DEF p, q
<1>4. CASE FreeIds # {}
  <2>1. PICK i \in FreeIds : Return(i, Send([Call(i) EXCEPT !.s = ServiceSocket(k, p.a0)],
                                           k, Pkt("OKAY", i, p.a0, 0)))
    BY <1>4 DEF HandleOpen
  <2> DEFINE X == [Call(i) EXCEPT !.s = ServiceSocket(k, p.a0)]
  <2> HIDE DEF p
  <2>2. i \in Socks /\ sk[i].st = "none"
    BY DEF FreeIds
  <2>3. i \in Nat
    BY <2>2, AdbAssumption, SMTT(60) DEF Socks
  <2> DEFINE t == ServiceSocket(k, p.a0)
             q == Pkt("OKAY", i, p.a0, 0)
  <2>4. t \in Sockets /\ Sound(t) /\ t.peer = k
    BY <1>1, ServiceSocketType
  <2>5. q \in Packets /\ q.cmd = "OKAY"
    BY <1>1, <2>3, SMTT(60) DEF Pkt, Packets
  <2>6. sk' = [sk EXCEPT ![i] = t] /\ down' = [down EXCEPT ![k] = Append(@, q)]
    <3>1. Call(i) = [s |-> sk[i], down |-> down]
      BY DEF Call
    <3> HIDE DEF t, q
    <3>2. X = [s |-> t, down |-> down]
      BY <3>1, SMTT(60) DEF t
    <3> HIDE DEF X
    <3>3. Send(X, k, q).s = t /\ Send(X, k, q).down = [down EXCEPT ![k] = Append(@, q)]
      BY <3>2, SMTT(60) DEF Send
    <3>4. Return(i, Send(X, k, q))
      BY <2>1 DEF q, X
    <3> QED
      BY <3>3, <3>4 DEF Return
  <2> HIDE DEF t, q
  <2> DEFINE N == {q}
  <2>7. q \in N /\ \A n \in N : ~IsStop(n)
    BY <2>5 DEF IsStop
  <2> HIDE DEF N
  <2>8. More(down, down', N)
    BY <1>2, <2>5, <2>6, <2>7, MoreAppend
  <2>9. LoopInv'
    <3>1. t.peer \in {0, sk[i].peer} \/ t.peer = k
      BY <2>4
    <3> QED
      BY <1>0, <2>2, <2>4, <2>6, <2>7, <2>8, <3>1, OneHandled
  <2> QED
    BY <2>2, <2>6, <2>9 DEF p, q, t
<1> QED
  BY <1>3, <1>4

(* A WRTE goes to the service, or into the queue, or nowhere when the      *)
(* service has closed.                                                     *)
Delivered(s, t, d) ==
  /\ s.q = <<>> /\ t.q = <<>> /\ t.fd = Append(s.fd, d) /\ t.okays = s.okays + 1
Enqueued(s, t, d) == t.q = Append(s.q, d) /\ t.fd = s.fd /\ t.okays = s.okays
Accepts(s, t, d) ==
  /\ t \in Sockets /\ Sound(t) /\ t.st = "open" /\ t.peer = s.peer /\ t.rid = s.rid
  /\ t.got = s.got /\ t.wrtes = s.wrtes + 1
  /\ Delivered(s, t, d) \/ Enqueued(s, t, d)

(* A socket that has been given one more WRTE.                             *)
Given(s) == [s EXCEPT !.wrtes = @ + 1]

(* What local_socket_enqueue, called on a socket that was s, leaves in Y.  *)
EnqueueOutcome(s, i, k, p, d, Y) ==
  \/ Fades(s, Y.s) /\ Y.s.st # "open" /\ More(d, Y.down, Notes(s.rid))
  \/ /\ Accepts(s, Y.s, p.data) /\ Delivered(s, Y.s, p.data)
     /\ Y.down = [d EXCEPT ![k] = Append(@, Pkt("OKAY", i, p.a0, 0))]
  \/ Accepts(s, Y.s, p.data) /\ Enqueued(s, Y.s, p.data) /\ Y.down = d

LEMMA EnqueueDoes ==
  ASSUME NEW X \in Calls, Sound(X.s), X.s.st = "open", NEW i \in Socks, NEW k \in Sess,
         NEW p \in Packets, NEW s, s \in Sockets, X.s = Given(s)
  PROVE  EnqueueOutcome(s, i, k, p, X.down, LocalSocketEnqueue(X, i, k, p))
<1> DEFINE x == X.s
           w == [x EXCEPT !.fd = Append(@, p.data), !.okays = @ + 1]
           v == [x EXCEPT !.q = Append(@, p.data)]
           f == FdeventSet(v, x.want \union {"W"})
           Y == LocalSocketEnqueue(X, i, k, p)
<1>0. x \in Sockets /\ X.down \in [Sess -> Seq(Packets)] /\ p.data \in Nat
  BY CallType DEF Packets
<1>1. Y = IF x.q = <<>> /\ x.svc = "closed" THEN LocalSocketClose(X)
          ELSE IF x.q = <<>> /\ Len(x.fd) < FdBuf
            THEN Send([X EXCEPT !.s = w], k, Pkt("OKAY", i, p.a0, 0))
            ELSE [X EXCEPT !.s = f]
  BY DEF LocalSocketEnqueue
<1>2. /\ x.st = s.st /\ x.peer = s.peer /\ x.rid = s.rid /\ x.q = s.q /\ x.fd = s.fd
      /\ x.got = s.got /\ x.okays = s.okays /\ x.wrtes = s.wrtes + 1
      /\ x.want = s.want /\ x.ev = s.ev
  BY SMTT(60) DEF Sockets, Given
<1>3. /\ x.q \in Seq(Nat) /\ x.fd \in Seq(Nat) /\ x.okays + 1 \in Nat
      /\ x.want \in SUBSET {"R", "W"} /\ Len(x.fd) \in Nat
  <2>1. /\ x.q \in Seq(Nat) /\ x.fd \in Seq(Nat) /\ x.okays \in Nat
        /\ x.want \in SUBSET {"R", "W"}
    BY <1>0, SocketType
  <2> HIDE DEF x
  <2> QED
    BY <2>1, SMTT(60)
<1> SUFFICES EnqueueOutcome(s, i, k, p, X.down, Y)
  OBVIOUS
<1> HIDE DEF Y, w, f
<1>4. CASE x.q = <<>> /\ x.svc = "closed"
  <2>1. Y = LocalSocketClose(X)
    BY <1>1, <1>4
  <2>2. Sane(X.s) /\ X.s.st # "none"
    BY DEF Sound
  <2>3. Fades(X.s, Y.s) /\ Y.s.st # "open" /\ More(X.down, Y.down, Notes(X.s.rid))
    BY <2>1, <2>2, CloseFades
  <2>4. Fades(s, Y.s)
    BY <1>2, <2>3 DEF Fades
  <2> QED
    BY <1>2, <2>3, <2>4 DEF EnqueueOutcome
<1>5. CASE ~(x.q = <<>> /\ x.svc = "closed") /\ x.q = <<>> /\ Len(x.fd) < FdBuf
  <2> DEFINE q == Pkt("OKAY", i, p.a0, 0)
             Z == [X EXCEPT !.s = w]
  <2>1. Y = Send(Z, k, q)
    BY <1>1, <1>5
  <2>2. /\ Append(x.fd, p.data) \in Seq(Nat) /\ Len(Append(x.fd, p.data)) <= FdBuf
    <3>1. FdBuf \in Nat
      BY AdbAssumption
    <3> HIDE DEF x
    <3> QED
      BY <1>0, <1>3, <1>5, <3>1, SMTT(60)
  <2> HIDE DEF x
  <2>3. w \in Sockets
    BY <1>0, <1>3, <2>2 DEF Sockets, w
  <2>4. /\ w.st = x.st /\ w.peer = x.peer /\ w.rid = x.rid /\ w.got = x.got
        /\ w.q = x.q /\ w.want = x.want /\ w.ev = x.ev /\ w.wrtes = x.wrtes
        /\ w.fd = Append(x.fd, p.data) /\ w.okays = x.okays + 1
    BY <1>0, SMTT(60) DEF Sockets, w
  <2>5. Sound(w)
    <3>1. Sound(x)
      BY DEF x
    <3> QED
      BY <2>2, <2>4, <3>1 DEF Sound, Sane, Alive
  <2>6. Z \in Calls /\ Z.s = w /\ Z.down = X.down
    BY <2>3, CallExcept
  <2> HIDE DEF Z, q
  <2>7. Y.s = w /\ Y.down = [X.down EXCEPT ![k] = Append(@, q)]
    <3>1. Z.down \in [Sess -> Seq(Packets)]
      BY <2>6, CallType
    <3> QED
      BY <2>1, <2>6, <3>1, SMTT(60) DEF Send, Calls
  <2>8. Delivered(s, Y.s, p.data)
    BY <1>2, <1>5, <2>4, <2>7 DEF Delivered
  <2>9. Accepts(s, Y.s, p.data)
    BY <1>2, <2>3, <2>4, <2>5, <2>7, <2>8 DEF Accepts, x
  <2> QED
    BY <2>7, <2>8, <2>9 DEF q, EnqueueOutcome
<1>6. CASE ~(x.q = <<>> /\ x.svc = "closed") /\ ~(x.q = <<>> /\ Len(x.fd) < FdBuf)
  <2>1. Y = [X EXCEPT !.s = f]
    BY <1>1, <1>6
  <2>3. Sound(x) /\ x.st = "open"
    OBVIOUS
  <2> HIDE DEF x
  <2>2. Append(x.q, p.data) \in Seq(Nat) /\ Append(x.q, p.data) # <<>>
    <3>1. x.q \in Seq(Nat) /\ p.data \in Nat
      BY <1>0, <1>3
    <3>2. \A q \in Seq(Nat), d \in Nat : Append(q, d) \in Seq(Nat) /\ Append(q, d) # <<>>
      BY SMTT(60)
    <3> QED
      BY <3>1, <3>2
  <2>4. v \in Sockets
    BY <1>0, <2>2 DEF Sockets
  <2>5. /\ v.st = x.st /\ v.peer = x.peer /\ v.rid = x.rid /\ v.got = x.got
        /\ v.q = Append(x.q, p.data) /\ v.want = x.want /\ v.ev = x.ev
        /\ v.wrtes = x.wrtes /\ v.fd = x.fd /\ v.okays = x.okays
    BY <1>0, SMTT(60) DEF Sockets
  <2> HIDE DEF v
  <2>6. Sane(v) /\ v.q # <<>> /\ v.st = "open"
    BY <2>2, <2>3, <2>5 DEF Sound, Sane, Alive
  <2>7. x.want \union {"W"} \in SUBSET {"R", "W"}
    BY <1>3
  <2>8. /\ Fades(v, f) /\ f.st = v.st /\ f.q = v.q /\ f.peer = v.peer
        /\ f.okays = v.okays /\ f.wrtes = v.wrtes
    BY <2>4, <2>6, <2>7, FdeventSetFades DEF f
  <2>9. f \in Sockets /\ Sound(f) /\ f.rid = v.rid /\ f.got = v.got /\ f.fd = v.fd
    BY <2>8 DEF Fades
  <2>10. Y.s = f /\ Y.down = X.down
    BY <2>1, <2>9, CallExcept
  <2>11. Enqueued(s, Y.s, p.data)
    BY <1>2, <2>5, <2>8, <2>9, <2>10 DEF Enqueued
  <2>12. Accepts(s, Y.s, p.data)
    BY <1>2, <2>5, <2>6, <2>8, <2>9, <2>10, <2>11 DEF Accepts
  <2> QED
    BY <2>10, <2>11, <2>12 DEF EnqueueOutcome
<1> QED
  BY <1>4, <1>5, <1>6

LEMMA HandleWriteDoes ==
  ASSUME LoopInv, NEW k \in Sess, TransportSocket(k), HandleWrite(k, Head(up[k]))
  PROVE  LET p == Head(up[k])
         IN /\ LoopInv'
            /\ \E i \in Socks :
                 /\ i = p.a1 /\ sk[i].st = "open"
                 /\ \/ sk'[i].st # "open" /\ Quietly(Notes(sk[i].rid))
                    \/ \E t \in Sockets :
                         /\ Accepts(sk[i], t, p.data) /\ sk' = [sk EXCEPT ![i] = t]
                         /\ \/ /\ Delivered(sk[i], t, p.data)
                               /\ down' = [down EXCEPT ![k] =
                                             Append(@, Pkt("OKAY", i, p.a0, 0))]
                            \/ Enqueued(sk[i], t, p.data) /\ down' = down
<1> DEFINE p == Head(up[k])
<1>0. tr' = tr /\ tr[k].conn = "host" /\ AdbTypeOK /\ SoundInv
  BY NotOffline DEF HandleWrite, LoopInv
<1>1. p \in Packets
  BY HeadFacts
<1>2. PICK i \in FindLocalSocket(p.a1) :
        Return(i, LocalSocketEnqueue([Call(i) EXCEPT !.s.wrtes = @ + 1], i, k, p))
  BY DEF HandleWrite
<1> DEFINE X == [Call(i) EXCEPT !.s.wrtes = @ + 1]
           x == Given(sk[i])
           Y == LocalSocketEnqueue(X, i, k, p)
           t == Y.s
<1> HIDE DEF p
<1>3. /\ i \in Socks /\ i = p.a1 /\ sk[i].st = "open" /\ sk[i] \in Sockets
      /\ Sound(sk[i]) /\ Call(i) \in Calls /\ Call(i).s = sk[i] /\ Call(i).down = down
  BY Found
<1>4. down \in [Sess -> Seq(Packets)] /\ i \in Nat /\ p.a0 \in Nat
  BY <1>0, <1>1, <1>3, AdbAssumption, SMTT(60) DEF AdbTypeOK, Socks, Packets
<1>5. X \in Calls /\ X.s = x /\ X.down = down /\ Sound(X.s) /\ X.s.st = "open"
  <2>1. sk[i].wrtes + 1 \in Nat
    <3>1. sk[i].wrtes \in Nat
      BY <1>3, SocketType
    <3> QED
      BY <3>1, SMTT(60)
  <2>2. x \in Sockets
    BY <1>3, <2>1 DEF Sockets, Given
  <2>3. /\ x.st = sk[i].st /\ x.peer = sk[i].peer /\ x.q = sk[i].q /\ x.fd = sk[i].fd
        /\ x.want = sk[i].want /\ x.ev = sk[i].ev
    BY <1>3, SMTT(60) DEF Sockets, Given
  <2>4. Call(i) = [s |-> sk[i], down |-> down]
    BY DEF Call
  <2>5. X = [s |-> x, down |-> down]
    BY <2>4, SMTT(60) DEF Given
  <2> HIDE DEF x, X
  <2>6. X \in Calls /\ X.s = x /\ X.down = down
    BY <1>4, <2>2, <2>5 DEF Calls
  <2>7. Sound(x)
    BY <1>3, <2>3 DEF Sound, Sane, Alive
  <2> QED
    BY <1>3, <2>3, <2>6, <2>7
<1>6. sk' = [sk EXCEPT ![i] = t] /\ down' = Y.down
  BY <1>2 DEF Return
<1> HIDE DEF X
<1>7. EnqueueOutcome(sk[i], i, k, p, X.down, Y)
  BY <1>1, <1>3, <1>5, EnqueueDoes
<1> HIDE DEF Y
<1>8. CASE /\ Fades(sk[i], t) /\ t.st # "open" /\ More(X.down, Y.down, Notes(sk[i].rid))
  <2>1. More(down, down', Notes(sk[i].rid)) /\ \A q \in Notes(sk[i].rid) : ~IsStop(q)
    BY <1>5, <1>6, <1>8, NotesAreNoStop
  <2>2. t \in Sockets /\ Sound(t) /\ t.peer \in {0, sk[i].peer}
    BY <1>8, FadesKeeps DEF Keeps
  <2> HIDE DEF t
  <2>3. LoopInv'
    BY <1>0, <1>3, <1>6, <2>1, <2>2, OneHandled
  <2>4. sk' \in [Socks -> Sockets] /\ \A j \in Socks : Fades(sk[j], sk'[j])
    BY <1>3, <1>6, <1>8, OneFades
  <2>5. sk'[i] = t
    BY <1>0, <1>3, <1>6, <2>2, OneSocket
  <2> QED
    BY <1>3, <1>8, <2>1, <2>3, <2>4, <2>5 DEF Quietly, p
<1>9. CASE /\ Accepts(sk[i], t, p.data) /\ Delivered(sk[i], t, p.data)
           /\ Y.down = [X.down EXCEPT ![k] = Append(@, Pkt("OKAY", i, p.a0, 0))]
  <2> DEFINE q == Pkt("OKAY", i, p.a0, 0)
             N == {q}
  <2>1. q \in Packets /\ q.cmd = "OKAY"
    BY <1>4, SMTT(60) DEF Pkt, Packets
  <2>2. t \in Sockets /\ Sound(t) /\ t.peer \in {0, sk[i].peer}
    BY <1>9 DEF Accepts
  <2> HIDE DEF t
  <2>3. down' = [down EXCEPT ![k] = Append(@, q)]
    BY <1>5, <1>6, <1>9
  <2> HIDE DEF q
  <2>4. q \in N /\ \A n \in N : ~IsStop(n)
    BY <2>1 DEF IsStop
  <2> HIDE DEF N
  <2>5. More(down, down', N)
    BY <1>4, <2>1, <2>3, <2>4, MoreAppend
  <2>6. LoopInv'
    BY <1>0, <1>3, <1>6, <2>2, <2>4, <2>5, OneHandled
  <2> QED
    BY <1>3, <1>6, <1>9, <2>2, <2>3, <2>6 DEF p, q
<1>10. CASE Accepts(sk[i], t, p.data) /\ Enqueued(sk[i], t, p.data) /\ Y.down = X.down
  <2>1. t \in Sockets /\ Sound(t) /\ t.peer \in {0, sk[i].peer}
    BY <1>10 DEF Accepts
  <2> HIDE DEF t
  <2>2. down' = down
    BY <1>5, <1>6, <1>10
  <2>3. More(down, down', Notes(0)) /\ \A n \in Notes(0) : ~IsStop(n)
    BY <1>4, <2>2, MoreSame, NotesAreNoStop
  <2>4. LoopInv'
    BY <1>0, <1>3, <1>6, <2>1, <2>3, OneHandled
  <2> QED
    BY <1>3, <1>6, <1>10, <2>1, <2>2, <2>4 DEF p
<1> QED
  BY <1>7, <1>8, <1>9, <1>10 DEF EnqueueOutcome

LEMMA TransportSocketStep ==
  ASSUME LoopInv, NEW k \in Sess, TransportSocket(k)
  PROVE  LoopInv'
<1>1. HandlePacket(k, Head(up[k]))
  BY DEF TransportSocket
<1> QED
  BY <1>1, HandleSyncDoes, HandleConnectDoes, HandleOpenDoes, HandleReadyDoes,
     HandleCloseDoes, HandleWriteDoes, HandleNothingDoes DEF HandlePacket

-----------------------------------------------------------------------------
LEMMA AdbInitial ==
  ASSUME AdbInit
  PROVE  LoopInv
<1>0. MaxSess \in Nat /\ MaxSocks \in Nat /\ FdBuf \in Nat
  BY AdbAssumption
<1>1. NoSocket \in Sockets /\ NoTransport \in Transports /\ NoHost \in Hosts
  <2>1. <<>> \in Seq(Nat) /\ 0 \in Nat /\ 0 \in 0..MaxSess /\ 0 \in 0..2
    BY <1>0, SMTT(60)
  <2> QED
    BY <2>1 DEF NoSocket, Sockets, NoTransport, Transports, NoHost, Hosts
<1>2. /\ NoSocket.st = "none" /\ NoSocket.peer = 0 /\ NoSocket.ev = {}
      /\ NoSocket.want = {} /\ NoSocket.fd = <<>>
  BY DEF NoSocket
<1>3. /\ NoTransport.st = "none" /\ NoTransport.conn = "offline"
      /\ NoTransport.out = "none" /\ NoTransport.inp = "none" /\ ~NoTransport.kicked
  BY DEF NoTransport
<1>4. /\ \A k \in Sess : /\ tr[k] = NoTransport /\ up[k] = <<>> /\ down[k] = <<>>
      /\ \A i \in Socks : sk[i] = NoSocket
      /\ reg = <<>> /\ pend = {} /\ opener = "wait"
  BY DEF AdbInit
<1>5. Len(<<>>) = 0 /\ 0 <= FdBuf /\ 1..0 = {}
  BY <1>0, SMTT(60)
<1>6. AdbTypeOK
  <2>1. <<>> \in Seq(Packets) /\ <<>> \in Seq(Sess \X {0, 1}) /\ 0 \in Nat /\ 0 \in 0..MaxSess
    BY <1>0, SMTT(60)
  <2> QED
    BY <1>1, <2>1 DEF AdbInit, AdbTypeOK
<1>7. LifeInv
  <2>1. LifeOf(NoTransport)
    BY <1>3 DEF LifeOf, Left
  <2> QED
    BY <1>3, <1>4, <2>1 DEF LifeInv
<1>8. RegInv
  BY <1>4, <1>5 DEF RegInv
<1>9. StopInv
  BY <1>3, <1>4, <1>5 DEF StopInv, StopOf, Stopping, Left
<1>10. SoundInv
  <2>1. Sound(NoSocket)
    BY <1>2, <1>5 DEF Sound, Sane
  <2> QED
    BY <1>2, <1>4, <2>1 DEF SoundInv
<1>11. PendInv /\ OwnDevice
  BY <1>3, <1>4 DEF PendInv, OwnDevice
<1> QED
  BY <1>6, <1>7, <1>8, <1>9, <1>10, <1>11 DEF LoopInv

LEMMA AdbStutters ==
  ASSUME LoopInv, UNCHANGED adbVars
  PROVE  LoopInv'
<1>1. /\ usbFd' = usbFd /\ nsess' = nsess /\ opener' = opener /\ reg' = reg /\ tr' = tr
      /\ up' = up /\ down' = down /\ sk' = sk /\ pend' = pend /\ host' = host
      /\ gone' = gone /\ sent' = sent
  BY DEF adbVars
<1>2. AdbTypeOK'
  BY <1>1 DEF LoopInv, AdbTypeOK
<1>3. LifeInv' /\ OwnDevice'
  BY <1>1 DEF LoopInv, LifeInv, OwnDevice
<1>4. RegInv' /\ StopInv' /\ SoundInv' /\ PendInv'
  BY <1>1, Unmoved DEF LoopInv, loopVars
<1> QED
  BY <1>2, <1>3, <1>4 DEF LoopInv

(* One step per action of the daemon and its host.                         *)
LEMMA LoopInductive ==
  ASSUME LoopInv, [AdbNext]_adbVars
  PROVE  LoopInv'
<1>1. CASE Opener
  BY <1>1, UsbOpenStep, RegisterStep DEF Opener
<1>2. CASE EventLoop
  BY <1>2, FdeventProcessStep, RegistrationStep, TransportSocketStep, LocalSocketStep
     DEF EventLoop
<1>3. ASSUME NEW k \in Sess, Unplug(k) \/ OutputRead(k) \/ Threads(k)
      PROVE  LoopInv'
  BY <1>3, UnplugStep, OutputReadStep, OutputStartStep, OutputOfflineStep,
     InputPacketStep, CloseAllStep, ThreadKickStep, ThreadUnrefStep DEF Threads
<1>4. ASSUME NEW i \in Socks, Service(i)
      PROVE  LoopInv'
  BY <1>4, ServiceStep
<1> QED
  BY <1>1, <1>2, <1>3, <1>4, AdbStutters DEF AdbNext

(* The exit of the daemon changes nothing else.                            *)
LEMMA DaemonSteps == [DaemonNext]_daemonVars => [AdbNext]_adbVars
BY DEF DaemonNext, daemonVars, InProcess, Exits

LEMMA LoopSafe ==
  ASSUME LoopInv
  PROVE  SocketInv
<1>0. AdbTypeOK /\ LifeInv /\ RegInv /\ SoundInv /\ PendInv /\ OwnDevice
  BY DEF LoopInv
<1>1. OpenHasPeer
  <2>1. ASSUME NEW i \in Socks
        PROVE  /\ sk[i].peer # 0 <=> sk[i].st = "open"
               /\ sk[i].peer # 0 => Carries(tr[sk[i].peer])
    BY <1>0 DEF SoundInv, Sound, Sane
  <2> QED
    BY <2>1 DEF OpenHasPeer, Carries
<1>2. PendingAlive
  <2>1. \A i \in Socks : sk[i].ev # {} => SocketAlive(i)
    BY <1>0 DEF SoundInv, Sound, Sane, Alive, SocketAlive
  <2> QED
    BY <1>0, <2>1 DEF PendingAlive, PendInv
<1>3. FreedAfterThreads
  <2>1. ASSUME NEW k \in Sess, NEW n \in 1..Len(reg), reg[n] = <<k, 0>>
        PROVE  tr[k].out = "exited" /\ tr[k].inp = "exited"
    <3>1. reg[n][1] = k /\ reg[n][2] # 1
      BY <2>1, SMTT(60)
    <3> QED
      BY <1>0, <3>1 DEF RegInv
  <2>2. \A k \in Sess : tr[k].st = "freed" => tr[k].out = "exited" /\ tr[k].inp = "exited"
    BY <1>0 DEF LifeInv, LifeOf
  <2> QED
    BY <2>1, <2>2 DEF FreedAfterThreads
<1> QED
  BY <1>0, <1>1, <1>2, <1>3 DEF SocketInv

(* The event loop and the threads of minadbd never meet a socket or a      *)
(* transport that is gone, for any number of sessions and sockets,         *)
(* whenever the cable is pulled (fdevent.c, sockets.c, transport.c).       *)
THEOREM AdbSocketsSafe == DaemonSpec => []SocketInv
<1>1. AdbInit => LoopInv
  BY AdbInitial
<1>2. LoopInv /\ [DaemonNext]_daemonVars => LoopInv'
  BY LoopInductive, DaemonSteps
<1>3. LoopInv => SocketInv
  BY LoopSafe
<1> QED
  BY <1>1, <1>2, <1>3, PTL DEF DaemonSpec, DaemonInit
=============================================================================
