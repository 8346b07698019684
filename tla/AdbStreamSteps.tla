--------------------------- MODULE AdbStreamSteps ---------------------------
(***************************************************************************)
(* What minadbd does to the streams of its hosts: lemmas for               *)
(* AdbStreamProofs about the packets on the way, and the steps of the      *)
(* event loop.                                                             *)
(***************************************************************************)
EXTENDS AdbProofs

(* A leaf that names no prover is for Zenon; the ones that need arithmetic *)
(* or the theory of functions and records name SMT.                        *)
USE ZenonT(60)

-----------------------------------------------------------------------------
(* The packets in a family of socketpairs: which there are, and whether    *)
(* there is at most one of a set.                                          *)

Has(d, k, p) == \E n \in 1..Len(d[k]) : d[k][n] = p
Clear(d, S) == \A k \in Sess : \A p \in S : ~Has(d, k, p)
Once(d, S) ==
  \A k, l \in Sess : \A m \in 1..Len(d[k]), n \in 1..Len(d[l]) :
    d[k][m] \in S /\ d[l][n] \in S => k = l /\ m = n

(* One packet more, or one less, in one of them.                           *)
Puts(d, e, k, p) == e = [d EXCEPT ![k] = Append(@, p)]
Takes(d, e, k)   == d[k] # <<>> /\ e = [d EXCEPT ![k] = Tail(@)]

(* What e has and d has not is p, in the k-th of them.                     *)
Extra(d, e, k, p) ==
  \A l \in Sess : \A q : Has(e, l, q) <=> Has(d, l, q) \/ (l = k /\ q = p)

LEMMA HasAppend ==
  ASSUME NEW d \in [Sess -> Seq(Packets)], NEW k \in Sess, NEW p \in Packets,
         NEW e, Puts(d, e, k, p)
  PROVE  Extra(d, e, k, p)
<1>1. /\ e \in [Sess -> Seq(Packets)] /\ \A l \in Sess : l # k => e[l] = d[l]
      /\ Len(d[k]) \in Nat /\ Len(e[k]) = Len(d[k]) + 1
      /\ \A n \in 1..Len(d[k]) : e[k][n] = d[k][n]
      /\ e[k][Len(d[k]) + 1] = p
  BY PairAppend, SMTT(60) DEF Puts
<1>2. \A n \in 1..Len(d[k]) : n \in 1..Len(e[k])
  BY <1>1, SMTT(60)
<1>3. \A n \in 1..Len(e[k]) : n \in 1..Len(d[k]) \/ n = Len(d[k]) + 1
  BY <1>1, SMTT(60)
<1>4. Len(d[k]) + 1 \in 1..Len(e[k])
  BY <1>1, SMTT(60)
<1>5. ASSUME NEW l \in Sess, NEW q, l # k
      PROVE  Has(e, l, q) <=> Has(d, l, q)
  <2>1. e[l] = d[l]
    BY <1>1, <1>5
  <2> QED
    BY <2>1 DEF Has
<1>6. ASSUME NEW q
      PROVE  Has(e, k, q) <=> Has(d, k, q) \/ q = p
  <2>1. ASSUME Has(e, k, q)
        PROVE  Has(d, k, q) \/ q = p
    <3>1. PICK n \in 1..Len(e[k]) : e[k][n] = q
      BY <2>1 DEF Has
    <3>2. CASE n \in 1..Len(d[k])
      <4>1. d[k][n] = q
        BY <1>1, <3>1, <3>2
      <4> QED
        BY <3>2, <4>1 DEF Has
    <3>3. CASE n = Len(d[k]) + 1
      BY <1>1, <3>1, <3>3
    <3> QED
      BY <1>3, <3>2, <3>3
  <2>2. ASSUME Has(d, k, q)
        PROVE  Has(e, k, q)
    <3>1. PICK n \in 1..Len(d[k]) : d[k][n] = q
      BY <2>2 DEF Has
    <3>2. n \in 1..Len(e[k]) /\ e[k][n] = q
      BY <1>1, <1>2, <3>1
    <3> QED
      BY <3>2 DEF Has
  <2>3. Has(e, k, p)
    BY <1>1, <1>4 DEF Has
  <2> QED
    BY <2>1, <2>2, <2>3
<1> QED
  BY <1>5, <1>6 DEF Extra

LEMMA OnceAppend ==
  ASSUME NEW d \in [Sess -> Seq(Packets)], NEW k \in Sess, NEW p \in Packets,
         NEW e, Puts(d, e, k, p), NEW S, Once(d, S),
         p \in S => Clear(d, S)
  PROVE  Once(e, S)
<1>1. /\ e \in [Sess -> Seq(Packets)] /\ \A l \in Sess : l # k => e[l] = d[l]
      /\ Len(d[k]) \in Nat /\ Len(e[k]) = Len(d[k]) + 1
      /\ \A n \in 1..Len(d[k]) : e[k][n] = d[k][n]
      /\ e[k][Len(d[k]) + 1] = p
  BY PairAppend, SMTT(60) DEF Puts
<1>2. \A n \in 1..Len(e[k]) : n \in 1..Len(d[k]) \/ n = Len(d[k]) + 1
  BY <1>1, SMTT(60)
<1>3. ASSUME NEW l \in Sess, NEW n \in 1..Len(e[l])
      PROVE  \/ n \in 1..Len(d[l]) /\ e[l][n] = d[l][n]
             \/ l = k /\ n = Len(d[k]) + 1 /\ e[l][n] = p
  <2>1. CASE l = k
    BY <1>1, <1>2, <2>1
  <2>2. CASE l # k
    BY <1>1, <2>2
  <2> QED
    BY <2>1, <2>2
<1>4. ASSUME NEW l \in Sess, NEW n \in 1..Len(d[l]), d[l][n] \in S
      PROVE  p \notin S
  <2>1. Has(d, l, d[l][n])
    BY DEF Has
  <2>2. ~Clear(d, S)
    BY <1>4, <2>1 DEF Clear
  <2> QED
    BY <2>2
<1> SUFFICES ASSUME NEW j \in Sess, NEW l \in Sess,
                    NEW m \in 1..Len(e[j]), NEW n \in 1..Len(e[l]),
                    e[j][m] \in S, e[l][n] \in S
             PROVE  j = l /\ m = n
  BY SMTT(60) DEF Once
<1>5. CASE m \in 1..Len(d[j]) /\ e[j][m] = d[j][m]
  <2>1. d[j][m] \in S
    BY <1>5
  <2>2. n \in 1..Len(d[l]) /\ e[l][n] = d[l][n]
    BY <1>3, <1>4, <1>5, <2>1
  <2> QED
    BY <1>5, <2>1, <2>2 DEF Once
<1>6. CASE j = k /\ m = Len(d[k]) + 1 /\ e[j][m] = p
  BY <1>3, <1>4, <1>6
<1> QED
  BY <1>3, <1>5, <1>6

LEMMA HasTail ==
  ASSUME NEW d \in [Sess -> Seq(Packets)], NEW k \in Sess, NEW e, Takes(d, e, k)
  PROVE  /\ Has(d, k, Head(d[k]))
         /\ \A l \in Sess : \A q : Has(d, l, q) <=> Has(e, l, q) \/ (l = k /\ q = Head(d[k]))
<1>1. /\ e \in [Sess -> Seq(Packets)] /\ \A l \in Sess : l # k => e[l] = d[l]
      /\ Len(d[k]) \in Nat \ {0} /\ Len(e[k]) = Len(d[k]) - 1
      /\ \A n \in 1..Len(e[k]) : e[k][n] = d[k][n + 1]
      /\ Head(d[k]) = d[k][1]
  BY PairTail, SMTT(60) DEF Takes
<1>2. 1 \in 1..Len(d[k]) /\ \A n \in 1..Len(e[k]) : n + 1 \in 1..Len(d[k])
  BY <1>1, SMTT(60)
<1>3. \A n \in 1..Len(d[k]) : n = 1 \/ (n - 1 \in 1..Len(e[k]) /\ (n - 1) + 1 = n)
  BY <1>1, SMTT(60)
<1>4. ASSUME NEW l \in Sess, NEW q, l # k
      PROVE  Has(d, l, q) <=> Has(e, l, q)
  <2>1. e[l] = d[l]
    BY <1>1, <1>4
  <2> QED
    BY <2>1 DEF Has
<1>5. Has(d, k, Head(d[k]))
  BY <1>1, <1>2 DEF Has
<1>6. ASSUME NEW q, Has(d, k, q)
      PROVE  Has(e, k, q) \/ q = Head(d[k])
  <2>1. PICK n \in 1..Len(d[k]) : d[k][n] = q
    BY <1>6 DEF Has
  <2>2. CASE n = 1
    BY <1>1, <2>1, <2>2
  <2>3. CASE n - 1 \in 1..Len(e[k]) /\ (n - 1) + 1 = n
    <3>1. e[k][n - 1] = q
      BY <1>1, <2>1, <2>3
    <3> QED
      BY <2>3, <3>1 DEF Has
  <2> QED
    BY <1>3, <2>2, <2>3
<1>7. ASSUME NEW q, Has(e, k, q)
      PROVE  Has(d, k, q)
  <2>1. PICK n \in 1..Len(e[k]) : e[k][n] = q
    BY <1>7 DEF Has
  <2>2. d[k][n + 1] = q /\ n + 1 \in 1..Len(d[k])
    BY <1>1, <1>2, <2>1
  <2> QED
    BY <2>2 DEF Has
<1> QED
  BY <1>4, <1>5, <1>6, <1>7

LEMMA OnceTail ==
  ASSUME NEW d \in [Sess -> Seq(Packets)], NEW k \in Sess, NEW e, Takes(d, e, k), NEW S, Once(d, S)
  PROVE  Once(e, S) /\ (Head(d[k]) \in S => Clear(e, S))
<1>1. /\ e \in [Sess -> Seq(Packets)] /\ \A l \in Sess : l # k => e[l] = d[l]
      /\ Len(d[k]) \in Nat \ {0} /\ Len(e[k]) = Len(d[k]) - 1
      /\ \A n \in 1..Len(e[k]) : e[k][n] = d[k][n + 1]
      /\ Head(d[k]) = d[k][1]
  BY PairTail, SMTT(60) DEF Takes
<1>2. /\ 1 \in 1..Len(d[k])
      /\ \A n \in 1..Len(e[k]) : n + 1 \in 1..Len(d[k]) /\ n + 1 # 1
      /\ \A m, n \in 1..Len(e[k]) : m + 1 = n + 1 => m = n
  BY <1>1, SMTT(60)
<1>3. Once(e, S)
  <2> SUFFICES ASSUME NEW j \in Sess, NEW l \in Sess,
                      NEW m \in 1..Len(e[j]), NEW n \in 1..Len(e[l]),
                      e[j][m] \in S, e[l][n] \in S
               PROVE  j = l /\ m = n
    BY SMTT(60) DEF Once
  <2>1. CASE j = k /\ l = k
    <3>1. /\ m + 1 \in 1..Len(d[k]) /\ d[k][m + 1] \in S
          /\ n + 1 \in 1..Len(d[k]) /\ d[k][n + 1] \in S
      BY <1>1, <1>2, <2>1
    <3>2. m + 1 = n + 1
      BY <3>1 DEF Once
    <3> QED
      BY <1>2, <2>1, <3>2
  <2>2. CASE j = k /\ l # k
    <3>1. m + 1 \in 1..Len(d[k]) /\ d[k][m + 1] \in S
      BY <1>1, <1>2, <2>2
    <3>2. n \in 1..Len(d[l]) /\ d[l][n] \in S
      BY <1>1, <2>2
    <3> QED
      BY <2>2, <3>1, <3>2 DEF Once
  <2>3. CASE j # k /\ l = k
    <3>1. n + 1 \in 1..Len(d[k]) /\ d[k][n + 1] \in S
      BY <1>1, <1>2, <2>3
    <3>2. m \in 1..Len(d[j]) /\ d[j][m] \in S
      BY <1>1, <2>3
    <3> QED
      BY <2>3, <3>1, <3>2 DEF Once
  <2>4. CASE j # k /\ l # k
    <3>1. /\ n \in 1..Len(d[l]) /\ d[l][n] \in S
          /\ m \in 1..Len(d[j]) /\ d[j][m] \in S
      BY <1>1, <2>4
    <3> QED
      BY <3>1 DEF Once
  <2> QED
    BY <2>1, <2>2, <2>3, <2>4
<1>4. ASSUME Head(d[k]) \in S, NEW l \in Sess, NEW q \in S, Has(e, l, q)
      PROVE  FALSE
  <2>1. PICK n \in 1..Len(e[l]) : e[l][n] = q
    BY <1>4 DEF Has
  <2>2. CASE l = k
    <3>1. n + 1 \in 1..Len(d[k]) /\ d[k][n + 1] \in S /\ d[k][1] \in S
      BY <1>1, <1>2, <1>4, <2>1, <2>2
    <3>2. n + 1 = 1
      BY <1>2, <3>1 DEF Once
    <3> QED
      BY <1>2, <2>2, <3>2
  <2>3. CASE l # k
    <3>1. n \in 1..Len(d[l]) /\ d[l][n] \in S /\ d[k][1] \in S
      BY <1>1, <1>4, <2>1, <2>3
    <3> QED
      BY <1>2, <2>3, <3>1 DEF Once
  <2> QED
    BY <2>2, <2>3
<1> QED
  BY <1>3, <1>4 DEF Clear

LEMMA HasMore ==
  ASSUME NEW d \in [Sess -> Seq(Packets)], NEW e, NEW N, More(d, e, N)
  PROVE  \A l \in Sess : \A q : /\ Has(d, l, q) => Has(e, l, q)
                            /\ Has(e, l, q) => Has(d, l, q) \/ q \in N
<1> SUFFICES ASSUME NEW l \in Sess, NEW q
             PROVE  /\ Has(d, l, q) => Has(e, l, q)
                    /\ Has(e, l, q) => Has(d, l, q) \/ q \in N
  OBVIOUS
<1>1. /\ Len(d[l]) \in Nat /\ Len(e[l]) \in Nat /\ Len(d[l]) <= Len(e[l])
      /\ \A n \in 1..Len(e[l]) : IF n <= Len(d[l]) THEN e[l][n] = d[l][n] ELSE e[l][n] \in N
  <2>1. d[l] \in Seq(Packets) /\ e[l] \in Seq(Packets)
    BY DEF More
  <2> QED
    BY <2>1, LenType DEF More
<1>2. /\ \A n \in 1..Len(d[l]) : n \in 1..Len(e[l]) /\ n <= Len(d[l])
      /\ \A n \in 1..Len(e[l]) : n <= Len(d[l]) => n \in 1..Len(d[l])
  BY <1>1, SMTT(60)
<1>3. ASSUME Has(d, l, q)
      PROVE  Has(e, l, q)
  <2>1. PICK n \in 1..Len(d[l]) : d[l][n] = q
    BY <1>3 DEF Has
  <2>2. n \in 1..Len(e[l]) /\ e[l][n] = q
    BY <1>1, <1>2, <2>1
  <2> QED
    BY <2>2 DEF Has
<1>4. ASSUME Has(e, l, q)
      PROVE  Has(d, l, q) \/ q \in N
  <2>1. PICK n \in 1..Len(e[l]) : e[l][n] = q
    BY <1>4 DEF Has
  <2>2. CASE n <= Len(d[l])
    <3>1. n \in 1..Len(d[l]) /\ d[l][n] = q
      BY <1>1, <1>2, <2>1, <2>2
    <3> QED
      BY <3>1 DEF Has
  <2>3. CASE ~(n <= Len(d[l]))
    BY <1>1, <2>1, <2>3
  <2> QED
    BY <2>2, <2>3
<1> QED
  BY <1>3, <1>4

LEMMA OnceMore ==
  ASSUME NEW d \in [Sess -> Seq(Packets)], NEW e, NEW N, More(d, e, N), NEW S,
         Once(d, S), \A p \in N : p \notin S
  PROVE  Once(e, S)
<1>1. ASSUME NEW l \in Sess, NEW n \in 1..Len(e[l]), e[l][n] \in S
      PROVE  n \in 1..Len(d[l]) /\ d[l][n] \in S
  <2>1. /\ Len(d[l]) \in Nat /\ Len(e[l]) \in Nat
        /\ IF n <= Len(d[l]) THEN e[l][n] = d[l][n] ELSE e[l][n] \in N
    <3>1. d[l] \in Seq(Packets) /\ e[l] \in Seq(Packets)
      BY DEF More
    <3> QED
      BY <3>1, LenType DEF More
  <2>2. n <= Len(d[l]) => n \in 1..Len(d[l])
    BY <2>1, SMTT(60)
  <2>3. n <= Len(d[l])
    BY <1>1, <2>1
  <2> QED
    BY <1>1, <2>1, <2>2, <2>3
<1> QED
  BY <1>1 DEF Once

LEMMA ClearKept ==
  ASSUME NEW d, NEW e, NEW S, Clear(d, S),
         \A l \in Sess : \A q \in S : Has(e, l, q) => Has(d, l, q)
  PROVE  Clear(e, S)
  BY DEF Clear

-----------------------------------------------------------------------------
(* Identities.  A stream is known by the number its host gave it (rid, the *)
(* first argument of its OPEN) and by the id of its local socket (lid).    *)

OpensOf(r)   == {p \in Packets : p.cmd = "OPEN" /\ p.a0 = r}
WrtesTo(i)   == {p \in Packets : p.cmd = "WRTE" /\ p.a1 = i}
OkaysFrom(i) == {p \in Packets : p.cmd = "OKAY" /\ p.a0 = i}
Created(i)   == i \in Socks /\ sk[i].st # "none"

(* A local socket has the number of an OPEN the daemon has taken, and no   *)
(* two have the same.                                                      *)
SockIds ==
  /\ \A i \in Socks :
       Created(i) => sk[i].rid \in 1..sent /\ Clear(up, OpensOf(sk[i].rid))
  /\ \A i, j \in Socks : Created(i) /\ Created(j) /\ sk[i].rid = sk[j].rid => i = j

(* No two sessions have a stream of the same number.                       *)
HostIds ==
  /\ \A k \in Sess : host[k].rid <= sent
  /\ \A k, l \in Sess : host[k].rid # 0 /\ host[k].rid = host[l].rid => k = l

(* The socket of a host's stream is joined to the host's own transport.    *)
Joined ==
  \A i \in Socks, k \in Sess :
    Created(i) /\ sk[i].rid = host[k].rid => sk[i].peer \in {0, k}

(* The host of an OPEN on its way waits for its answer.                    *)
OpenInv ==
  /\ \A k \in Sess, p \in Packets : Has(up, k, p) /\ p.cmd = "OPEN" =>
       /\ p.a0 \in 1..sent
       /\ \A l \in Sess : host[l].rid = p.a0 => l = k /\ host[l].strm = "opening"
  /\ \A r \in Nat : Once(up, OpensOf(r))

(* A host whose stream is open, or that owes an OKAY, knows its socket.    *)
HostSane(h) ==
  /\ h.strm \in {"none", "opening"} => h.sent = 0 /\ ~h.wait /\ ~h.owed
  /\ h.strm \in {"opening", "open"} => h.rid # 0
Talks(h) == h.strm = "open" \/ h.owed
HostInv ==
  \A k \in Sess :
    /\ HostSane(host[k])
    /\ Talks(host[k]) => Created(host[k].lid) /\ sk[host[k].lid].rid = host[k].rid

(* The arguments of the packets on their way name one stream.              *)
Addressed(p) == p.cmd \in {"OKAY", "CLSE", "WRTE"}
Local(k, p) == Created(p.a1) /\ sk[p.a1].rid = p.a0 /\ sk[p.a1].peer \in {0, k}
UpInv == \A k \in Sess, p \in Packets : Has(up, k, p) /\ Addressed(p) => Local(k, p)
Known(p) ==
  /\ Addressed(p) => p.a1 \in 1..sent /\ Clear(up, OpensOf(p.a1))
  /\ p.cmd = "OKAY" => Created(p.a0) /\ sk[p.a0].rid = p.a1
DownInv == \A k \in Sess, p \in Packets : Has(down, k, p) => Known(p)

-----------------------------------------------------------------------------
(* The turn of a stream.                                                   *)

Turn(h, i) == h.strm = "open" /\ h.lid = i /\ ~h.wait
NoHostTurn(i) == \A k \in Sess : ~Turn(host[k], i)
NoWrite(i) == Clear(up, WrtesTo(i))
NoAck(i)   == Clear(down, OkaysFrom(i))

(* The right to send the next packet of a stream is with the host, in a    *)
(* WRTE, in the queue of the socket or in an OKAY: in one place only.      *)
OneTurn(i) ==
  /\ Once(up, WrtesTo(i)) /\ Once(down, OkaysFrom(i))
  /\ NoWrite(i) \/ (sk[i].q = <<>> /\ NoAck(i) /\ NoHostTurn(i))
  /\ NoAck(i) \/ (sk[i].q = <<>> /\ NoHostTurn(i))
  /\ NoHostTurn(i) \/ sk[i].q = <<>>
  /\ Len(sk[i].q) <= 1

(* The packets of a stream are numbered by the host, and taken in turn.    *)
Taken(s) == Len(s.got) + Len(s.fd) + Len(s.q)
Streams(h) == h.strm \in {"opening", "open"}
Numbered(i) ==
  sk[i].st = "open" =>
    /\ \A k \in Sess : \A p \in WrtesTo(i) :
         Has(up, k, p) => p.data = Taken(sk[i]) + 1
    /\ \A k \in Sess : host[k].rid = sk[i].rid /\ Streams(host[k]) =>
         host[k].sent = IF NoWrite(i) THEN Taken(sk[i]) ELSE Taken(sk[i]) + 1

(* The service gets them in order, and each is acknowledged once.          *)
InOrder(s) ==
  /\ \A n \in 1..Len(s.got) : s.got[n] = n
  /\ \A n \in 1..Len(s.fd) : s.fd[n] = Len(s.got) + n
  /\ \A n \in 1..Len(s.q) : s.q[n] = Len(s.got) + Len(s.fd) + n
SocketOf(s) == InOrder(s) /\ (s.st = "open" => s.okays + Len(s.q) = s.wrtes)

TurnInv == \A i \in Socks : OneTurn(i) /\ Numbered(i) /\ SocketOf(sk[i])

StreamIInv ==
  /\ LoopInv /\ SockIds /\ HostIds /\ Joined /\ OpenInv /\ HostInv
  /\ UpInv /\ DownInv /\ TurnInv

-----------------------------------------------------------------------------
(* What a step leaves of each part of the invariant.                       *)

SameId(s, t) ==
  t.rid = s.rid /\ t.peer \in {0, s.peer} /\ (t.st = "none" <=> s.st = "none")
Stays(s, t) ==
  /\ SameId(s, t) /\ t.q \in {s.q, <<>>}
  /\ t.st = "open" => s.st = "open" /\ t.q = s.q /\ Taken(t) = Taken(s)

AllSameId == \A i \in Socks : SameId(sk[i], sk'[i])
HostsKeepIds == \A k \in Sess : host'[k].rid \in {host[k].rid, 0}
NoNewOpens == \A k \in Sess, p \in Packets :
                Has(up', k, p) /\ p.cmd = "OPEN" => Has(up, k, p)
SentGrows == sent \in Nat /\ sent' \in Nat /\ sent <= sent'

LEMMA SentRange ==
  ASSUME SentGrows
  PROVE  /\ \A r \in 1..sent : r \in 1..sent' /\ r # 0 /\ r \in Nat
         /\ 0 <= sent' /\ \A r \in Nat : r <= sent => r <= sent'
  BY SMTT(60) DEF SentGrows

LEMMA CreatedKept ==
  ASSUME AllSameId
  PROVE  /\ \A i \in Socks : Created(i)' <=> Created(i)
         /\ \A i \in Socks : sk'[i].rid = sk[i].rid /\ sk'[i].peer \in {0, sk[i].peer}
         /\ \A i : Created(i) => Created(i)' /\ i \in Socks
  BY DEF AllSameId, SameId, Created

LEMMA AnsweredKept ==
  ASSUME NoNewOpens, NEW r, Clear(up, OpensOf(r))
  PROVE  Clear(up', OpensOf(r))
  BY DEF NoNewOpens, OpensOf, Clear

LEMMA SockIdsKept ==
  ASSUME SockIds, AllSameId, NoNewOpens, SentGrows
  PROVE  SockIds'
<1>1. \A i \in Socks : (Created(i)' <=> Created(i)) /\ sk'[i].rid = sk[i].rid
  BY CreatedKept
<1>2. ASSUME NEW i \in Socks, Created(i)
      PROVE  sk'[i].rid \in 1..sent' /\ Clear(up', OpensOf(sk'[i].rid))
  <2>1. sk[i].rid \in 1..sent /\ Clear(up, OpensOf(sk[i].rid))
    BY <1>2 DEF SockIds
  <2>2. Clear(up', OpensOf(sk[i].rid))
    BY <2>1, AnsweredKept
  <2> QED
    BY <1>1, <2>1, <2>2, SentRange
<1> QED
  BY <1>1, <1>2 DEF SockIds

LEMMA HostIdsKept ==
  ASSUME HostIds, HostsKeepIds, SentGrows, AdbTypeOK
  PROVE  HostIds'
<1>1. \A k \in Sess : host[k].rid \in Nat
  BY StateTypes DEF Hosts
<1>2. \A k \in Sess : host'[k].rid <= sent'
  BY <1>1, SentRange DEF HostIds, HostsKeepIds
<1>3. \A k, l \in Sess : host'[k].rid # 0 /\ host'[k].rid = host'[l].rid => k = l
  BY DEF HostIds, HostsKeepIds
<1> QED
  BY <1>2, <1>3 DEF HostIds

LEMMA JoinedKept ==
  ASSUME Joined, SockIds, AllSameId, HostsKeepIds, SentGrows
  PROVE  Joined'
<1> SUFFICES ASSUME NEW i \in Socks, NEW k \in Sess, Created(i)',
                    sk'[i].rid = host'[k].rid
             PROVE  sk'[i].peer \in {0, k}
  BY DEF Joined
<1>1. Created(i) /\ sk'[i].rid = sk[i].rid /\ sk'[i].peer \in {0, sk[i].peer}
  BY CreatedKept
<1>2. sk[i].rid # 0
  BY <1>1, SentRange DEF SockIds
<1>3. host[k].rid = sk[i].rid
  BY <1>1, <1>2 DEF HostsKeepIds
<1> QED
  BY <1>1, <1>3 DEF Joined

(* A host stops waiting for an OPEN only after it has been answered.       *)
LEMMA OpenKept ==
  ASSUME OpenInv, NoNewOpens, HostsKeepIds, SentGrows,
         \A r \in Nat : Once(up', OpensOf(r)),
         \A l \in Sess : \/ host'[l].strm = host[l].strm \/ host'[l].rid = 0
                         \/ Clear(up', OpensOf(host[l].rid))
  PROVE  OpenInv'
<1> SUFFICES ASSUME NEW k \in Sess, NEW p \in Packets, Has(up', k, p), p.cmd = "OPEN"
             PROVE  /\ p.a0 \in 1..sent'
                    /\ \A l \in Sess : host'[l].rid = p.a0 =>
                         l = k /\ host'[l].strm = "opening"
  BY DEF OpenInv
<1>1. Has(up, k, p)
  BY DEF NoNewOpens
<1>2. /\ p.a0 \in 1..sent
      /\ \A l \in Sess : host[l].rid = p.a0 => l = k /\ host[l].strm = "opening"
  BY <1>1 DEF OpenInv
<1>3. p.a0 \in 1..sent' /\ p.a0 # 0
  BY <1>2, SentRange
<1>4. ASSUME NEW l \in Sess, host'[l].rid = p.a0
      PROVE  l = k /\ host'[l].strm = "opening"
  <2>1. host[l].rid = p.a0 /\ host'[l].rid # 0
    BY <1>3, <1>4 DEF HostsKeepIds
  <2>2. ~Clear(up', OpensOf(host[l].rid))
    BY <2>1 DEF Clear, OpensOf
  <2> QED
    BY <1>2, <2>1, <2>2
<1> QED
  BY <1>3, <1>4

LEMMA HostKept ==
  ASSUME HostInv, AllSameId,
         \A k \in Sess : /\ HostSane(host'[k])
                         /\ Talks(host'[k]) =>
                              \/ /\ host'[k].lid = host[k].lid
                                 /\ host'[k].rid = host[k].rid /\ Talks(host[k])
                              \/ /\ Created(host'[k].lid)
                                 /\ sk[host'[k].lid].rid = host'[k].rid
  PROVE  HostInv'
<1>1. ASSUME NEW k \in Sess, Talks(host'[k])
      PROVE  Created(host[k].lid)' /\ sk'[host'[k].lid].rid = host'[k].rid
  <2>1. Created(host'[k].lid) /\ sk[host'[k].lid].rid = host'[k].rid
    BY <1>1 DEF HostInv
  <2>2. host'[k].lid \in Socks
    BY <2>1 DEF Created
  <2> QED
    BY <2>1, <2>2 DEF AllSameId, SameId, Created
<1> QED
  BY <1>1 DEF HostInv

LEMMA UpKept ==
  ASSUME UpInv, AllSameId,
         \A k \in Sess, p \in Packets :
           Has(up', k, p) /\ Addressed(p) => Has(up, k, p) \/ Local(k, p)
  PROVE  UpInv'
<1>1. ASSUME NEW k \in Sess, NEW p \in Packets, Local(k, p)
      PROVE  Local(k, p)'
  <2>1. p.a1 \in Socks
    BY <1>1 DEF Local, Created
  <2> QED
    BY <1>1, <2>1 DEF AllSameId, SameId, Created, Local
<1> QED
  BY <1>1 DEF UpInv

LEMMA KnownKept ==
  ASSUME AllSameId, NoNewOpens, SentGrows, NEW p, Known(p)
  PROVE  Known(p)'
<1>1. Addressed(p) => p.a1 \in 1..sent' /\ Clear(up', OpensOf(p.a1))
  BY SentRange, AnsweredKept DEF Known
<1>2. p.cmd = "OKAY" => Created(p.a0)' /\ sk'[p.a0].rid = p.a1
  BY CreatedKept DEF Known
<1> QED
  BY <1>1, <1>2 DEF Known, Addressed

LEMMA DownKept ==
  ASSUME DownInv, AllSameId, NoNewOpens, SentGrows,
         \A k \in Sess, p \in Packets : Has(down', k, p) => Has(down, k, p) \/ Known(p)'
  PROVE  DownInv'
  BY KnownKept DEF DownInv

LEMMA TurnKept ==
  ASSUME NEW i \in Socks, OneTurn(i), Numbered(i), Stays(sk[i], sk'[i]),
         Once(up', WrtesTo(i)), Once(down', OkaysFrom(i)),
         \A k \in Sess : \A p \in WrtesTo(i) : Has(up', k, p) => Has(up, k, p),
         \A k \in Sess : \A p \in OkaysFrom(i) : Has(down', k, p) => Has(down, k, p),
         sk'[i].st = "open" /\ NoWrite(i)' => NoWrite(i),
         \A k \in Sess : Turn(host'[k], i) => Turn(host[k], i),
         \A k \in Sess :
           sk'[i].st = "open" /\ host'[k].rid = sk'[i].rid /\ Streams(host'[k]) =>
             host[k].rid = sk[i].rid /\ Streams(host[k]) /\ host'[k].sent = host[k].sent
  PROVE  OneTurn(i)' /\ Numbered(i)'
<1>1. /\ NoWrite(i) => NoWrite(i)'
      /\ NoAck(i) => NoAck(i)'
      /\ NoHostTurn(i) => NoHostTurn(i)'
  <2>1. NoWrite(i) => NoWrite(i)'
    BY ClearKept DEF NoWrite
  <2>2. NoAck(i) => NoAck(i)'
    BY ClearKept DEF NoAck
  <2>3. NoHostTurn(i) => NoHostTurn(i)'
    BY DEF NoHostTurn
  <2> QED
    BY <2>1, <2>2, <2>3
<1>2. sk'[i].q \in {sk[i].q, <<>>} /\ Len(<<>>) <= 1
  BY SMTT(60) DEF Stays
<1>3. OneTurn(i)'
  BY <1>1, <1>2 DEF OneTurn
<1>4. ASSUME sk'[i].st = "open"
      PROVE  /\ sk[i].st = "open" /\ Taken(sk'[i]) = Taken(sk[i])
             /\ NoWrite(i)' <=> NoWrite(i)
  BY <1>1, <1>4 DEF Stays
<1>5. ASSUME sk'[i].st = "open", NEW k \in Sess, NEW p \in WrtesTo(i), Has(up', k, p)
      PROVE  p.data = Taken(sk'[i]) + 1
  BY <1>4, <1>5 DEF Numbered
<1>6. ASSUME sk'[i].st = "open", NEW k \in Sess, host'[k].rid = sk'[i].rid,
             Streams(host'[k])
      PROVE  host'[k].sent = IF NoWrite(i)' THEN Taken(sk'[i]) ELSE Taken(sk'[i]) + 1
  <2>1. host[k].sent = IF NoWrite(i) THEN Taken(sk[i]) ELSE Taken(sk[i]) + 1
    BY <1>4, <1>6 DEF Numbered
  <2> QED
    BY <1>4, <1>6, <2>1
<1>7. Numbered(i)'
  BY <1>5, <1>6 DEF Numbered
<1> QED
  BY <1>3, <1>7

LEMMA FadesStays ==
  ASSUME NEW s, NEW t, Fades(s, t), SocketOf(s)
  PROVE  Stays(s, t) /\ SocketOf(t)
<1>1. t.peer \in {0, s.peer}
  BY FadesKeeps DEF Keeps
<1>2. Stays(s, t)
  BY <1>1 DEF Fades, Stays, SameId, Taken
<1>3. t.got = s.got /\ t.fd = s.fd /\ t.q \in {s.q, <<>>} /\ 1..Len(<<>>) = {}
  BY SMTT(60) DEF Fades
<1>4. InOrder(t)
  BY <1>3 DEF SocketOf, InOrder
<1>5. t.st = "open" => t.okays + Len(t.q) = t.wrtes
  BY DEF Fades, SocketOf
<1> QED
  BY <1>2, <1>4, <1>5 DEF SocketOf

(* What is in the queue comes right after what is in the socketpair.       *)
LEMMA JoinInOrder ==
  ASSUME NEW g \in Seq(Nat), NEW f \in Seq(Nat), NEW q \in Seq(Nat),
         \A n \in 1..Len(f) : f[n] = Len(g) + n,
         \A n \in 1..Len(q) : q[n] = Len(g) + Len(f) + n
  PROVE  /\ \A n \in 1..Len(f \o q) : (f \o q)[n] = Len(g) + n
         /\ Len(g) + Len(f \o q) + Len(<<>>) = Len(g) + Len(f) + Len(q)
         /\ Len(g) + Len(f) + Len(q) \in Nat /\ 1..Len(<<>>) = {}
<1>1. /\ Len(g) \in Nat /\ Len(f) \in Nat /\ Len(q) \in Nat /\ Len(<<>>) = 0
      /\ Len(f \o q) = Len(f) + Len(q)
      /\ \A n \in 1..(Len(f) + Len(q)) :
           (f \o q)[n] = IF n <= Len(f) THEN f[n] ELSE q[n - Len(f)]
  BY SeqConcat, LenType, SMTT(60)
<1>2. ASSUME NEW n \in 1..(Len(f) + Len(q))
      PROVE  (f \o q)[n] = Len(g) + n
  <2>1. CASE n <= Len(f)
    <3>1. n \in 1..Len(f)
      BY <1>1, <2>1, SMTT(60)
    <3> QED
      BY <1>1, <2>1, <3>1
  <2>2. CASE ~(n <= Len(f))
    <3>1. /\ n - Len(f) \in 1..Len(q)
          /\ Len(g) + Len(f) + (n - Len(f)) = Len(g) + n
      BY <1>1, <2>2, SMTT(60)
    <3> QED
      BY <1>1, <2>2, <3>1
  <2> QED
    BY <2>1, <2>2
<1>3. /\ Len(g) + (Len(f) + Len(q)) + 0 = Len(g) + Len(f) + Len(q)
      /\ Len(g) + Len(f) + Len(q) \in Nat /\ 1..0 = {}
  BY <1>1, SMTT(60)
<1> QED
  BY <1>1, <1>2, <1>3

LEMMA MovesInOrder ==
  ASSUME NEW s \in Sockets, NEW t, Moves(s, t), InOrder(s)
  PROVE  InOrder(t) /\ Taken(t) = Taken(s)
<1>1. s.got \in Seq(Nat) /\ s.fd \in Seq(Nat) /\ s.q \in Seq(Nat)
  BY SocketType
<1>2. t.got = s.got /\ t.fd = s.fd \o s.q /\ t.q = <<>>
  BY DEF Moves
<1>3. /\ \A n \in 1..Len(s.fd \o s.q) : (s.fd \o s.q)[n] = Len(s.got) + n
      /\ Len(s.got) + Len(s.fd \o s.q) + Len(<<>>) = Len(s.got) + Len(s.fd) + Len(s.q)
      /\ 1..Len(<<>>) = {}
  BY <1>1, JoinInOrder DEF InOrder
<1> QED
  BY <1>2, <1>3 DEF InOrder, Taken

LEMMA MovesStays ==
  ASSUME NEW s \in Sockets, NEW t, Moves(s, t), t.st # "open", SocketOf(s)
  PROVE  Stays(s, t) /\ SocketOf(t)
<1>1. InOrder(t)
  BY MovesInOrder DEF SocketOf
<1>2. t.peer \in {0, s.peer}
  BY FadesKeeps DEF Keeps
<1> QED
  BY <1>1, <1>2 DEF Moves, Stays, SameId, SocketOf

-----------------------------------------------------------------------------
(* Steps that hand on no turn: sockets may close, hosts may give up, and   *)
(* nothing is sent to a service.                                           *)

SkQuiet == \A i \in Socks : Stays(sk[i], sk'[i]) /\ SocketOf(sk'[i])
UpQuiet ==
  /\ \A k \in Sess, p \in Packets : Has(up', k, p) =>
       \/ Has(up, k, p)
       \/ p.cmd \notin {"OPEN", "WRTE"} /\ (Addressed(p) => Local(k, p))
  /\ \A r \in Nat : Once(up', OpensOf(r))
  /\ \A i \in Socks : Once(up', WrtesTo(i))
  /\ \A i \in Socks : sk'[i].st = "open" /\ NoWrite(i)' => NoWrite(i)
DownQuiet ==
  /\ \A k \in Sess, p \in Packets :
       Has(down', k, p) => Has(down, k, p) \/ (p.cmd # "OKAY" /\ Known(p)')
  /\ \A i \in Socks : Once(down', OkaysFrom(i))
HostQuiet(k) ==
  LET g == host[k]
      h == host'[k]
  IN /\ h.rid \in {g.rid, 0} /\ HostSane(h)
     /\ h.strm = g.strm \/ h.rid = 0 \/ Clear(up', OpensOf(g.rid))
     /\ Talks(h) => h.lid = g.lid /\ h.rid = g.rid /\ Talks(g)
     /\ \A i : Turn(h, i) => Turn(g, i)
     /\ Streams(h) => h.rid = g.rid /\ Streams(g) /\ h.sent = g.sent

LEMMA QuietStep ==
  ASSUME StreamIInv, LoopInv', SkQuiet, UpQuiet, DownQuiet, SentGrows,
         \A k \in Sess : HostQuiet(k)
  PROVE  StreamIInv'
<1>0. /\ SockIds /\ HostIds /\ Joined /\ OpenInv /\ HostInv /\ UpInv /\ DownInv
      /\ TurnInv /\ AdbTypeOK
  BY DEF StreamIInv, LoopInv
<1>1. AllSameId
  BY DEF SkQuiet, Stays, AllSameId
<1>2. NoNewOpens
  BY DEF UpQuiet, NoNewOpens
<1>3. HostsKeepIds
  BY DEF HostQuiet, HostsKeepIds
<1>4. SockIds' /\ HostIds' /\ Joined'
  BY <1>0, <1>1, <1>2, <1>3, SockIdsKept, HostIdsKept, JoinedKept
<1>5. OpenInv'
  <2>1. \A l \in Sess : \/ host'[l].strm = host[l].strm \/ host'[l].rid = 0
                        \/ Clear(up', OpensOf(host[l].rid))
    BY DEF HostQuiet
  <2>2. \A r \in Nat : Once(up', OpensOf(r))
    BY DEF UpQuiet
  <2> QED
    BY <1>0, <1>2, <1>3, <2>1, <2>2, OpenKept
<1>6. HostInv'
  <2>1. \A k \in Sess : /\ HostSane(host'[k])
                        /\ Talks(host'[k]) => /\ host'[k].lid = host[k].lid
                                              /\ host'[k].rid = host[k].rid
                                              /\ Talks(host[k])
    BY DEF HostQuiet
  <2> QED
    BY <1>0, <1>1, <2>1, HostKept
<1>7. UpInv'
  <2>1. \A k \in Sess, p \in Packets :
          Has(up', k, p) /\ Addressed(p) => Has(up, k, p) \/ Local(k, p)
    BY DEF UpQuiet
  <2> QED
    BY <1>0, <1>1, <2>1, UpKept
<1>8. DownInv'
  <2>1. \A k \in Sess, p \in Packets : Has(down', k, p) => Has(down, k, p) \/ Known(p)'
    BY DEF DownQuiet
  <2> QED
    BY <1>0, <1>1, <1>2, <2>1, DownKept
<1>9. ASSUME NEW i \in Socks
      PROVE  OneTurn(i)' /\ Numbered(i)'
  <2>1. OneTurn(i) /\ Numbered(i) /\ Stays(sk[i], sk'[i]) /\ sk'[i].rid = sk[i].rid
    BY <1>0, <1>1 DEF TurnInv, SkQuiet, AllSameId, SameId
  <2>2. Once(up', WrtesTo(i)) /\ Once(down', OkaysFrom(i))
    BY DEF UpQuiet, DownQuiet
  <2>3. \A k \in Sess : \A p \in WrtesTo(i) : Has(up', k, p) => Has(up, k, p)
    BY DEF UpQuiet, WrtesTo
  <2>4. \A k \in Sess : \A p \in OkaysFrom(i) : Has(down', k, p) => Has(down, k, p)
    BY DEF DownQuiet, OkaysFrom
  <2>5. sk'[i].st = "open" /\ NoWrite(i)' => NoWrite(i)
    BY DEF UpQuiet
  <2>6. \A k \in Sess : Turn(host'[k], i) => Turn(host[k], i)
    BY DEF HostQuiet
  <2>7. \A k \in Sess :
          sk'[i].st = "open" /\ host'[k].rid = sk'[i].rid /\ Streams(host'[k]) =>
            host[k].rid = sk[i].rid /\ Streams(host[k]) /\ host'[k].sent = host[k].sent
    BY <2>1 DEF HostQuiet
  <2> QED
    BY <2>1, <2>2, <2>3, <2>4, <2>5, <2>6, <2>7, TurnKept
<1>10. TurnInv'
  BY <1>9 DEF TurnInv, SkQuiet
<1> QED
  BY <1>4, <1>5, <1>6, <1>7, <1>8, <1>10 DEF StreamIInv

LEMMA StreamParts ==
  ASSUME StreamIInv
  PROVE  /\ LoopInv /\ AdbTypeOK /\ SockIds /\ HostIds /\ Joined /\ OpenInv /\ HostInv
         /\ UpInv /\ DownInv /\ sent \in Nat
         /\ up \in [Sess -> Seq(Packets)] /\ down \in [Sess -> Seq(Packets)]
         /\ \A i \in Socks : OneTurn(i) /\ Numbered(i) /\ SocketOf(sk[i])
         /\ \A i \in Socks : sk[i] \in Sockets
         /\ \A k \in Sess : host[k] \in Hosts
  BY StateTypes DEF StreamIInv, LoopInv, AdbTypeOK, TurnInv

LEMMA UpOnce ==
  ASSUME StreamIInv
  PROVE  /\ \A r \in Nat : Once(up, OpensOf(r))
         /\ \A i \in Socks : Once(up, WrtesTo(i)) /\ Once(down, OkaysFrom(i))
  BY StreamParts DEF OpenInv, OneTurn

LEMMA UpSame ==
  ASSUME StreamIInv, up' = up
  PROVE  UpQuiet
<1>1. \A i \in Socks : NoWrite(i)' => NoWrite(i)
  BY DEF NoWrite
<1> QED
  BY <1>1, UpOnce DEF UpQuiet

LEMMA UpAppend ==
  ASSUME StreamIInv, NEW k \in Sess, NEW p \in Packets,
         Puts(up, up', k, p), p.cmd \notin {"OPEN", "WRTE"},
         Addressed(p) => Local(k, p)
  PROVE  UpQuiet
<1>0. up \in [Sess -> Seq(Packets)] /\ Puts(up, up', k, p)
  BY StreamParts
<1>1. \A l \in Sess : \A q : Has(up', l, q) <=> Has(up, l, q) \/ (l = k /\ q = p)
  <2>1. Extra(up, up', k, p)
    BY <1>0, HasAppend
  <2> QED
    BY <2>1 DEF Extra
<1>2. \A r \in Nat : Once(up', OpensOf(r))
  <2>1. ASSUME NEW r \in Nat
        PROVE  Once(up', OpensOf(r))
    <3>1. p \notin OpensOf(r) /\ Once(up, OpensOf(r))
      BY UpOnce DEF OpensOf
    <3> QED
      BY <1>0, <3>1, OnceAppend
  <2> QED
    BY <2>1
<1>3. \A i \in Socks : Once(up', WrtesTo(i))
  <2>1. ASSUME NEW i \in Socks
        PROVE  Once(up', WrtesTo(i))
    <3>1. p \notin WrtesTo(i) /\ Once(up, WrtesTo(i))
      BY UpOnce DEF WrtesTo
    <3> QED
      BY <1>0, <3>1, OnceAppend
  <2> QED
    BY <2>1
<1>4. \A i \in Socks : NoWrite(i)' => NoWrite(i)
  BY <1>1 DEF NoWrite, Clear
<1>5. \A l \in Sess, q \in Packets : Has(up', l, q) =>
        \/ Has(up, l, q)
        \/ q.cmd \notin {"OPEN", "WRTE"} /\ (Addressed(q) => Local(l, q))
  BY <1>1
<1> QED
  BY <1>2, <1>3, <1>4, <1>5 DEF UpQuiet

(* The event loop takes a packet; a WRTE only of a socket that is not open *)
(* any more.                                                               *)
LEMMA UpTail ==
  ASSUME StreamIInv, NEW k \in Sess, TransportSocket(k),
         \A i \in Socks : Head(up[k]) \in WrtesTo(i) => sk'[i].st # "open"
  PROVE  UpQuiet
<1>0. up \in [Sess -> Seq(Packets)] /\ Takes(up, up', k)
  BY StreamParts, HeadFacts DEF TransportSocket, Takes
<1>1. \A l \in Sess : \A q : Has(up, l, q) <=> Has(up', l, q) \/ (l = k /\ q = Head(up[k]))
  BY <1>0, HasTail
<1>2. \A r \in Nat : Once(up', OpensOf(r))
  <2>1. ASSUME NEW r \in Nat
        PROVE  Once(up', OpensOf(r))
    <3>1. Once(up, OpensOf(r))
      BY UpOnce
    <3> QED
      BY <1>0, <3>1, OnceTail
  <2> QED
    BY <2>1
<1>3. \A i \in Socks : Once(up', WrtesTo(i))
  <2>1. ASSUME NEW i \in Socks
        PROVE  Once(up', WrtesTo(i))
    <3>1. Once(up, WrtesTo(i))
      BY UpOnce
    <3> QED
      BY <1>0, <3>1, OnceTail
  <2> QED
    BY <2>1
<1>4. \A i \in Socks : sk'[i].st = "open" /\ NoWrite(i)' => NoWrite(i)
  BY <1>1 DEF NoWrite, Clear
<1> QED
  BY <1>1, <1>2, <1>3, <1>4 DEF UpQuiet

LEMMA DownSame ==
  ASSUME StreamIInv, down' = down
  PROVE  DownQuiet
  BY UpOnce DEF DownQuiet

LEMMA DownMore ==
  ASSUME StreamIInv, NEW N, More(down, down', N), \A p \in N : p.cmd # "OKAY" /\ Known(p)'
  PROVE  DownQuiet
<1>0. down \in [Sess -> Seq(Packets)]
  BY StreamParts
<1>1. \A l \in Sess : \A q : Has(down', l, q) => Has(down, l, q) \/ q \in N
  BY <1>0, HasMore
<1>2. ASSUME NEW i \in Socks
      PROVE  Once(down', OkaysFrom(i))
  <2>1. \A p \in N : p \notin OkaysFrom(i)
    BY DEF OkaysFrom
  <2>2. Once(down, OkaysFrom(i))
    BY UpOnce
  <2> QED
    BY <1>0, <2>1, <2>2, OnceMore
<1> QED
  BY <1>1, <1>2 DEF DownQuiet

LEMMA HostSame ==
  ASSUME StreamIInv, host' = host
  PROVE  \A k \in Sess : HostQuiet(k)
<1>1. \A k \in Sess : HostSane(host[k])
  BY StreamParts DEF HostInv
<1> QED
  BY <1>1 DEF HostQuiet

LEMMA SkFades ==
  ASSUME StreamIInv, \A i \in Socks : Fades(sk[i], sk'[i])
  PROVE  SkQuiet
  BY StreamParts, FadesStays DEF SkQuiet

LEMMA SentSame ==
  ASSUME StreamIInv, sent' = sent
  PROVE  SentGrows
<1>1. sent \in Nat
  BY StreamParts
<1> QED
  BY <1>1, SMTT(60) DEF SentGrows

(* What is sent about a socket that exists names its stream.               *)
LEMMA NotesKnown ==
  ASSUME StreamIInv, UpQuiet, SentGrows, NEW i \in Socks, Created(i),
         NEW p \in Notes(sk[i].rid)
  PROVE  p.cmd # "OKAY" /\ Known(p)'
<1>1. p.cmd \in {"CLSE", "WRTE"} /\ p.a1 = sk[i].rid
  BY DEF Notes
<1>2. sk[i].rid \in 1..sent /\ Clear(up, OpensOf(sk[i].rid))
  BY StreamParts DEF SockIds
<1>3. NoNewOpens
  BY DEF UpQuiet, NoNewOpens
<1>4. p.a1 \in 1..sent' /\ Clear(up', OpensOf(p.a1))
  BY <1>1, <1>2, <1>3, SentRange, AnsweredKept
<1> QED
  BY <1>1, <1>4 DEF Known

LEMMA SameStep ==
  ASSUME StreamIInv, LoopInv', up' = up, down' = down, sk' = sk, host' = host, sent' = sent
  PROVE  StreamIInv'
<1>1. SkQuiet
  BY StreamParts, SameFades, SkFades
<1> QED
  BY <1>1, UpSame, DownSame, HostSame, SentSame, QuietStep

-----------------------------------------------------------------------------
LEMMA OutputSyncStream ==
  ASSUME StreamIInv, LoopInv', NEW k \in Sess, OutputStart(k) \/ OutputOffline(k)
  PROVE  StreamIInv'
<1>1. PICK a \in {0, 1} : Puts(up, up', k, Pkt("SYNC", a, 0, 0))
  BY DEF OutputStart, OutputOffline, Puts
<1> DEFINE p == Pkt("SYNC", a, 0, 0)
<1>2. p \in Packets /\ p.cmd = "SYNC"
  BY SMTT(60) DEF Pkt, Packets
<1>3. down' = down /\ sk' = sk /\ host' = host /\ sent' = sent
  BY DEF OutputStart, OutputOffline
<1> HIDE DEF p
<1>4. UpQuiet
  <2>1. p.cmd \notin {"OPEN", "WRTE"} /\ ~Addressed(p)
    BY <1>2 DEF Addressed
  <2> QED
    BY <1>1, <1>2, <2>1, UpAppend DEF p
<1>5. SkQuiet
  BY <1>3, StreamParts, SameFades, SkFades
<1> QED
  BY <1>3, <1>4, <1>5, DownSame, HostSame, SentSame, QuietStep

LEMMA FdeventStream ==
  ASSUME StreamIInv, LoopInv', FdeventProcess
  PROVE  StreamIInv'
<1>1. up' = up /\ down' = down /\ host' = host /\ sent' = sent
  BY DEF FdeventProcess
<1>2. ASSUME NEW i \in Socks
      PROVE  Fades(sk[i], sk'[i])
  <2>1. sk'[i] = [sk[i] EXCEPT !.ev = Ready(i)]
    BY DEF FdeventProcess
  <2>2. sk[i] \in Sockets /\ sk'[i] \in Sockets /\ Sound(sk'[i])
    BY StreamParts DEF LoopInv, AdbTypeOK, SoundInv
  <2>3. /\ sk'[i].st = sk[i].st /\ sk'[i].peer = sk[i].peer /\ sk'[i].rid = sk[i].rid
        /\ sk'[i].q = sk[i].q /\ sk'[i].fd = sk[i].fd /\ sk'[i].got = sk[i].got
        /\ sk'[i].okays = sk[i].okays /\ sk'[i].wrtes = sk[i].wrtes
    BY <2>1, <2>2, SMTT(60) DEF Sockets
  <2> QED
    BY <2>2, <2>3 DEF Fades
<1> QED
  BY <1>1, <1>2, SkFades, UpSame, DownSame, HostSame, SentSame, QuietStep

LEMMA RegistrationStream ==
  ASSUME StreamIInv, LoopInv', TransportRegistration
  PROVE  StreamIInv'
<1>1. up' = up /\ down' = down /\ host' = host /\ sent' = sent
  BY DEF TransportRegistration
<1>2. \A i \in Socks : Fades(sk[i], sk'[i])
  <2>1. CASE Head(reg)[2] = 0
    <3>1. PICK k \in Sess : k = Head(reg)[1]
      <4>1. reg # <<>> /\ reg \in Seq(Sess \X {0, 1})
        BY StreamParts DEF TransportRegistration, LoopInv, PendInv, AdbTypeOK
      <4>2. Head(reg)[1] \in Sess
        BY <4>1, SMTT(60)
      <4> QED
        BY <4>2
    <3>2. sk' = RunTransportDisconnects(k)
      BY <2>1, <3>1 DEF TransportRegistration, Removed
    <3> QED
      BY <3>2, StreamParts, DisconnectsDoes DEF LoopInv
  <2>2. CASE Head(reg)[2] # 0
    <3>1. sk' = sk
      BY <2>2 DEF TransportRegistration, Registered
    <3> QED
      BY <3>1, StreamParts, SameFades
  <2> QED
    BY <2>1, <2>2
<1> QED
  BY <1>1, <1>2, SkFades, UpSame, DownSame, HostSame, SentSame, QuietStep

(* The service takes the oldest packet of its socketpair.                  *)
LEMMA ReadInOrder ==
  ASSUME NEW g \in Seq(Nat), NEW f \in Seq(Nat), f # <<>>,
         \A n \in 1..Len(g) : g[n] = n, \A n \in 1..Len(f) : f[n] = Len(g) + n
  PROVE  /\ \A n \in 1..Len(Append(g, Head(f))) : Append(g, Head(f))[n] = n
         /\ \A n \in 1..Len(Tail(f)) : Tail(f)[n] = Len(Append(g, Head(f))) + n
         /\ Len(Append(g, Head(f))) + Len(Tail(f)) = Len(g) + Len(f)
<1>1. /\ Head(f) \in Nat /\ Head(f) = f[1] /\ Tail(f) \in Seq(Nat)
      /\ Len(f) \in Nat \ {0} /\ Len(Tail(f)) = Len(f) - 1
      /\ \A i \in 1..(Len(f) - 1) : Tail(f)[i] = f[i + 1]
  BY SeqTail, SMTT(60)
<1> DEFINE h == Head(f)
<1> HIDE DEF h
<1>2. /\ Len(g) \in Nat /\ Len(Append(g, h)) = Len(g) + 1
      /\ \A i \in 1..Len(g) : Append(g, h)[i] = g[i]
      /\ Append(g, h)[Len(g) + 1] = h
  BY <1>1, SeqAppend, SMTT(60) DEF h
<1>3. h = Len(g) + 1
  <2>1. 1 \in 1..Len(f)
    BY <1>1, SMTT(60)
  <2> QED
    BY <1>1, <2>1 DEF h
<1>4. ASSUME NEW n \in 1..Len(Append(g, h))
      PROVE  Append(g, h)[n] = n
  <2>1. n \in 1..Len(g) \/ n = Len(g) + 1
    BY <1>2, SMTT(60)
  <2> QED
    BY <1>2, <1>3, <2>1
<1>5. ASSUME NEW n \in 1..Len(Tail(f))
      PROVE  Tail(f)[n] = Len(Append(g, h)) + n
  <2>1. /\ n \in 1..(Len(f) - 1) /\ n + 1 \in 1..Len(f)
        /\ Len(g) + (n + 1) = (Len(g) + 1) + n
    BY <1>1, <1>2, SMTT(60)
  <2>2. Tail(f)[n] = Len(g) + (n + 1)
    BY <1>1, <2>1
  <2> QED
    BY <1>2, <2>1, <2>2
<1>6. Len(Append(g, h)) + Len(Tail(f)) = Len(g) + Len(f)
  BY <1>1, <1>2, SMTT(60)
<1> QED
  BY <1>4, <1>5, <1>6 DEF h

LEMMA ServiceStream ==
  ASSUME StreamIInv, LoopInv', NEW i \in Socks, Service(i)
  PROVE  StreamIInv'
<1>0. sk \in [Socks -> Sockets] /\ sk[i] \in Sockets /\ AdbTypeOK
  BY StreamParts DEF AdbTypeOK
<1>1. up' = up /\ down' = down /\ host' = host /\ sent' = sent
  BY DEF Service, ServiceReads, ServiceAnswers, ServiceFails, ServiceCloses
<1>2. sk' \in [Socks -> Sockets] /\ Sound(sk'[i])
  BY DEF LoopInv, SoundInv, AdbTypeOK
<1>3. ASSUME NEW j \in Socks, j # i
      PROVE  Stays(sk[j], sk'[j]) /\ SocketOf(sk'[j])
  <2>1. sk'[j] = sk[j]
    BY <1>0, <1>3 DEF Service, ServiceReads, ServiceAnswers, ServiceFails, ServiceCloses
  <2>2. SocketOf(sk[j])
    BY StreamParts
  <2> QED
    BY <2>1, <2>2 DEF Stays, SameId
<1>4. ASSUME ServiceReads(i)
      PROVE  Stays(sk[i], sk'[i]) /\ SocketOf(sk'[i])
  <2> DEFINE s == sk[i]
             t == [s EXCEPT !.got = Append(@, Head(s.fd)), !.fd = Tail(@)]
  <2>1. s.fd # <<>> /\ sk'[i] = t
    BY <1>0, <1>4, SMTT(60) DEF ServiceReads
  <2>2. s.got \in Seq(Nat) /\ s.fd \in Seq(Nat) /\ s.q \in Seq(Nat)
    BY <1>0, SocketType
  <2>3. SocketOf(s)
    BY StreamParts
  <2> HIDE DEF s
  <2>4. /\ t.st = s.st /\ t.peer = s.peer /\ t.rid = s.rid /\ t.q = s.q
        /\ t.got = Append(s.got, Head(s.fd)) /\ t.fd = Tail(s.fd)
        /\ t.okays = s.okays /\ t.wrtes = s.wrtes
    BY <1>0, SMTT(60) DEF s, Sockets
  <2> HIDE DEF t
  <2>5. /\ \A n \in 1..Len(t.got) : t.got[n] = n
        /\ \A n \in 1..Len(t.fd) : t.fd[n] = Len(t.got) + n
        /\ Len(t.got) + Len(t.fd) = Len(s.got) + Len(s.fd)
    <3>1. /\ \A n \in 1..Len(s.got) : s.got[n] = n
          /\ \A n \in 1..Len(s.fd) : s.fd[n] = Len(s.got) + n
      BY <2>3 DEF SocketOf, InOrder
    <3>2. /\ \A n \in 1..Len(Append(s.got, Head(s.fd))) : Append(s.got, Head(s.fd))[n] = n
          /\ \A n \in 1..Len(Tail(s.fd)) :
               Tail(s.fd)[n] = Len(Append(s.got, Head(s.fd))) + n
          /\ Len(Append(s.got, Head(s.fd))) + Len(Tail(s.fd)) = Len(s.got) + Len(s.fd)
      BY <2>1, <2>2, <3>1, ReadInOrder
    <3> QED
      BY <2>4, <3>2
  <2>6. InOrder(t) /\ Taken(t) = Taken(s)
    BY <2>3, <2>4, <2>5 DEF SocketOf, InOrder, Taken
  <2>7. SocketOf(t)
    BY <2>3, <2>4, <2>6 DEF SocketOf
  <2>8. Stays(s, t)
    BY <2>4, <2>6 DEF Stays, SameId
  <2> QED
    BY <2>1, <2>7, <2>8 DEF s
<1>5. ASSUME ServiceAnswers(i) \/ ServiceFails(i) \/ ServiceCloses(i)
      PROVE  Stays(sk[i], sk'[i]) /\ SocketOf(sk'[i])
  <2>1. /\ sk'[i].st = sk[i].st /\ sk'[i].peer = sk[i].peer /\ sk'[i].rid = sk[i].rid
        /\ sk'[i].q = sk[i].q /\ sk'[i].fd = sk[i].fd /\ sk'[i].got = sk[i].got
        /\ sk'[i].okays = sk[i].okays /\ sk'[i].wrtes = sk[i].wrtes
    <3>1. CASE ServiceAnswers(i)
      BY <1>0, <3>1, SMTT(60) DEF ServiceAnswers, Sockets
    <3>2. CASE ServiceCloses(i)
      BY <1>0, <3>2, SMTT(60) DEF ServiceCloses, Sockets
    <3>3. CASE ServiceFails(i)
      BY <1>0, <3>3, SMTT(60) DEF ServiceFails, Sockets
    <3> QED
      BY <1>5, <3>1, <3>2, <3>3
  <2>2. Fades(sk[i], sk'[i])
    BY <1>2, <2>1 DEF Fades
  <2> QED
    BY <2>2, StreamParts, FadesStays
<1>6. SkQuiet
  BY <1>3, <1>4, <1>5 DEF SkQuiet, Service
<1> QED
  BY <1>1, <1>6, UpSame, DownSame, HostSame, SentSame, QuietStep

-----------------------------------------------------------------------------
(* The event loop takes a packet that hands on no turn.                    *)

LEMMA HandledQuietly ==
  ASSUME StreamIInv, LoopInv', NEW k \in Sess, TransportSocket(k), UpQuiet, DownQuiet,
         \A i \in Socks : Fades(sk[i], sk'[i])
  PROVE  StreamIInv'
<1>1. host' = host /\ sent' = sent
  BY DEF TransportSocket
<1> QED
  BY <1>1, SkFades, HostSame, SentSame, QuietStep

LEMMA HandledNoWrite ==
  ASSUME StreamIInv, NEW k \in Sess, TransportSocket(k), Head(up[k]).cmd # "WRTE"
  PROVE  UpQuiet
  BY UpTail DEF WrtesTo

LEMMA HandledSentSame ==
  ASSUME StreamIInv, NEW k \in Sess, TransportSocket(k)
  PROVE  SentGrows /\ sent' = sent
  BY SentSame DEF TransportSocket

LEMMA GreetingStream ==
  ASSUME StreamIInv, NEW k \in Sess, TransportSocket(k),
         HandleSync(k, Head(up[k])) \/ HandleConnect(k, Head(up[k]))
  PROVE  StreamIInv'
<1>1. PICK c \in {"SYNC", "CNXN"} :
        LoopInv' /\ Quietly({p \in Packets : p.cmd = c}) /\ Head(up[k]).cmd = c
  BY StreamParts, HandleSyncDoes, HandleConnectDoes DEF HandleSync, HandleConnect
<1> DEFINE N == {p \in Packets : p.cmd = c}
<1>2. \A p \in N : p.cmd # "OKAY" /\ Known(p)'
  BY DEF Known, Addressed
<1>3. Quietly(N)
  BY <1>1
<1> HIDE DEF N
<1>4. DownQuiet
  BY <1>2, <1>3, DownMore DEF Quietly
<1>5. UpQuiet
  BY <1>1, HandledNoWrite
<1>6. \A i \in Socks : Fades(sk[i], sk'[i])
  BY <1>3 DEF Quietly
<1> QED
  BY <1>1, <1>4, <1>5, <1>6, HandledQuietly

LEMMA ReadyStream ==
  ASSUME StreamIInv, NEW k \in Sess, TransportSocket(k), HandleReady(k, Head(up[k]))
  PROVE  StreamIInv'
<1>1. LoopInv' /\ \A i \in Socks : Fades(sk[i], sk'[i])
  BY StreamParts, HandleReadyDoes DEF Quietly
<1>2. DownQuiet
  BY DownSame DEF HandleReady
<1>3. UpQuiet
  BY HandledNoWrite DEF HandleReady
<1> QED
  BY <1>1, <1>2, <1>3, HandledQuietly

LEMMA OpenIsCreated ==
  ASSUME NEW i \in Socks, sk[i].st = "open"
  PROVE  Created(i)
  BY DEF Created

LEMMA CloseStream ==
  ASSUME StreamIInv, NEW k \in Sess, TransportSocket(k), HandleClose(k, Head(up[k]))
  PROVE  StreamIInv'
<1>1. PICK i \in Socks : sk[i].st = "open" /\ Quietly(Notes(sk[i].rid))
  BY StreamParts, HandleCloseDoes
<1>2. LoopInv' /\ \A j \in Socks : Fades(sk[j], sk'[j])
  BY <1>1, StreamParts, HandleCloseDoes DEF Quietly
<1>3. UpQuiet
  BY HandledNoWrite DEF HandleClose
<1>4. DownQuiet
  <2>1. \A p \in Notes(sk[i].rid) : p.cmd # "OKAY" /\ Known(p)'
    BY <1>1, <1>3, HandledSentSame, OpenIsCreated, NotesKnown
  <2>2. More(down, down', Notes(sk[i].rid))
    BY <1>1 DEF Quietly
  <2> QED
    BY <2>1, <2>2, DownMore
<1> QED
  BY <1>2, <1>3, <1>4, HandledQuietly

(* A packet for a socket that is not open is dropped.                      *)
LEMMA NothingStream ==
  ASSUME StreamIInv, NEW k \in Sess, TransportSocket(k), HandleNothing(k, Head(up[k]))
  PROVE  StreamIInv'
<1> DEFINE p == Head(up[k])
<1>1. LoopInv' /\ sk' = sk /\ down' = down
  BY StreamParts, HandleNothingDoes
<1>2. p \in Packets /\ Has(up, k, p)
  <2>1. up \in [Sess -> Seq(Packets)] /\ Takes(up, up', k) /\ p \in Packets
    BY StreamParts, HeadFacts DEF TransportSocket, Takes
  <2>2. Has(up, k, p)
    BY <2>1, HasTail
  <2> QED
    BY <2>1, <2>2
<1>3. ASSUME NEW i \in Socks, p \in WrtesTo(i), sk[i].st = "open"
      PROVE  FALSE
  <2>1. p.cmd = "WRTE" /\ p.a1 = i
    BY <1>3 DEF WrtesTo
  <2>2. CASE tr[k].conn # "offline"
    <3>1. FindLocalSocket(p.a1) = {}
      BY <2>2 DEF HandleNothing
    <3>2. i \in FindLocalSocket(i)
      BY <1>3 DEF FindLocalSocket
    <3> HIDE DEF p
    <3> QED
      BY <2>1, <3>1, <3>2
  <2>3. CASE tr[k].conn = "offline"
    <3> HIDE DEF p
    <3>1. Local(k, p)
      BY <1>2, <2>1, StreamParts DEF UpInv, Addressed
    <3>2. sk[i].peer \in {0, k}
      BY <2>1, <3>1 DEF Local
    <3>3. sk[i].peer # 0 /\ Carries(tr[sk[i].peer])
      BY <1>3, StreamParts DEF LoopInv, SoundInv, Sound, Sane
    <3> QED
      BY <2>3, <3>2, <3>3 DEF Carries
  <2> QED
    BY <2>2, <2>3
<1>4. UpQuiet
  BY <1>1, <1>3, UpTail
<1>5. \A i \in Socks : Fades(sk[i], sk'[i])
  BY <1>1, StreamParts, SameFades
<1> QED
  BY <1>1, <1>4, <1>5, DownSame, HandledQuietly

(* An OPEN is answered once: there is no other of its number.              *)
LEMMA OpenTaken ==
  ASSUME StreamIInv, NEW k \in Sess, TransportSocket(k), Head(up[k]).cmd = "OPEN"
  PROVE  LET p == Head(up[k])
         IN /\ p \in Packets /\ p.a0 \in 1..sent /\ p.a0 \in Nat /\ Has(up, k, p)
            /\ Clear(up', OpensOf(p.a0)) /\ ~Clear(up, OpensOf(p.a0))
            /\ \A l \in Sess : host[l].rid = p.a0 => l = k /\ host[l].strm = "opening"
<1> DEFINE p == Head(up[k])
<1>1. up \in [Sess -> Seq(Packets)] /\ Takes(up, up', k) /\ p \in Packets
  BY StreamParts, HeadFacts DEF TransportSocket, Takes
<1>2. Has(up, k, p)
  BY <1>1, HasTail
<1>3. /\ p.a0 \in 1..sent
      /\ \A l \in Sess : host[l].rid = p.a0 => l = k /\ host[l].strm = "opening"
  BY <1>1, <1>2, StreamParts DEF OpenInv
<1>4. p.a0 \in Nat
  <2> HIDE DEF p
  <2> QED
    BY <1>1 DEF Packets
<1>5. p \in OpensOf(p.a0) /\ Once(up, OpensOf(p.a0))
  <2>1. Once(up, OpensOf(p.a0))
    BY <1>4, UpOnce
  <2> QED
    BY <1>1, <2>1 DEF OpensOf
<1>6. Clear(up', OpensOf(p.a0))
  BY <1>1, <1>5, OnceTail
<1>7. ~Clear(up, OpensOf(p.a0))
  BY <1>2, <1>5 DEF Clear
<1> QED
  BY <1>1, <1>2, <1>3, <1>4, <1>6, <1>7

(* No socket is left for an OPEN: its host is told.                        *)
LEMMA OpenFailsStream ==
  ASSUME StreamIInv, LoopInv', NEW k \in Sess, TransportSocket(k),
         Head(up[k]).cmd = "OPEN", sk' = sk,
         Puts(down, down', k, Pkt("CLSE", 0, Head(up[k]).a0, 0))
  PROVE  StreamIInv'
<1>1. PICK r \in Nat : r = Head(up[k]).a0 /\ r \in 1..sent /\ Clear(up', OpensOf(r))
  BY OpenTaken
<1>2. Puts(down, down', k, Pkt("CLSE", 0, r, 0)) /\ sent' = sent
  BY <1>1, HandledSentSame
<1>3. PICK q \in Packets : q = Pkt("CLSE", 0, r, 0) /\ q.cmd = "CLSE" /\ q.a1 = r
  <2>1. Pkt("CLSE", 0, r, 0) \in Packets /\ Pkt("CLSE", 0, r, 0).cmd = "CLSE"
    BY SMTT(60) DEF Pkt, Packets
  <2>2. Pkt("CLSE", 0, r, 0).a1 = r
    BY DEF Pkt
  <2> QED
    BY <2>1, <2>2
<1>4. Known(q)'
  <2>1. q.a1 \in 1..sent' /\ Clear(up', OpensOf(q.a1)) /\ q.cmd # "OKAY"
    BY <1>1, <1>2, <1>3
  <2> QED
    BY <2>1 DEF Known
<1> DEFINE N == {q}
<1>5. q \in N /\ \A p \in N : p.cmd # "OKAY" /\ Known(p)'
  BY <1>3, <1>4
<1> HIDE DEF N
<1>6. More(down, down', N)
  <2>1. down' = [down EXCEPT ![k] = Append(@, q)]
    BY <1>2, <1>3 DEF Puts
  <2>2. down \in [Sess -> Seq(Packets)]
    BY StreamParts
  <2>3. More(down, [down EXCEPT ![k] = Append(@, q)], N)
    BY <1>5, <2>2, MoreAppend
  <2> QED
    BY <2>1, <2>3
<1>7. DownQuiet
  BY <1>5, <1>6, DownMore
<1>8. UpQuiet
  BY HandledNoWrite
<1>9. \A i \in Socks : Fades(sk[i], sk'[i])
  BY StreamParts, SameFades
<1> QED
  BY <1>7, <1>8, <1>9, HandledQuietly

LEMMA UpTaken ==
  ASSUME StreamIInv, NEW k \in Sess, TransportSocket(k)
  PROVE  /\ \A l \in Sess : \A q : Has(up', l, q) => Has(up, l, q)
         /\ NoNewOpens
         /\ \A r \in Nat : Once(up', OpensOf(r))
         /\ \A i \in Socks : Once(up', WrtesTo(i))
         /\ Head(up[k]) \in Packets /\ Has(up, k, Head(up[k]))
         /\ \A i \in Socks : Head(up[k]) \in WrtesTo(i) => NoWrite(i)'
<1>1. up \in [Sess -> Seq(Packets)] /\ Takes(up, up', k) /\ Head(up[k]) \in Packets
  BY StreamParts, HeadFacts DEF TransportSocket, Takes
<1>2. /\ \A l \in Sess : \A q : Has(up', l, q) => Has(up, l, q)
      /\ Has(up, k, Head(up[k]))
  BY <1>1, HasTail
<1>3. \A r \in Nat : Once(up', OpensOf(r))
  BY <1>1, UpOnce, OnceTail
<1>4. \A i \in Socks : /\ Once(up', WrtesTo(i))
                       /\ Head(up[k]) \in WrtesTo(i) => Clear(up', WrtesTo(i))
  BY <1>1, UpOnce, OnceTail
<1> QED
  BY <1>1, <1>2, <1>3, <1>4 DEF NoNewOpens, NoWrite

LEMMA DownPut ==
  ASSUME StreamIInv, NEW k \in Sess, NEW p \in Packets, Puts(down, down', k, p)
  PROVE  \A l \in Sess : \A q : Has(down', l, q) <=> Has(down, l, q) \/ (l = k /\ q = p)
<1>1. down \in [Sess -> Seq(Packets)]
  BY StreamParts
<1>2. Extra(down, down', k, p)
  BY <1>1, HasAppend
<1> QED
  BY <1>2 DEF Extra

LEMMA AckPut ==
  ASSUME StreamIInv, NEW k \in Sess, NEW i \in Socks, NEW q \in Packets,
         q.cmd = "OKAY", q.a0 = i, Puts(down, down', k, q)
  PROVE  /\ \A l \in Sess : \A w : Has(down', l, w) <=> Has(down, l, w) \/ (l = k /\ w = q)
         /\ \A j \in Socks : j # i => Once(down', OkaysFrom(j))
         /\ NoAck(i) => Once(down', OkaysFrom(i))
<1>1. down \in [Sess -> Seq(Packets)] /\ Puts(down, down', k, q)
  BY StreamParts
<1>2. \A l \in Sess : \A w : Has(down', l, w) <=> Has(down, l, w) \/ (l = k /\ w = q)
  BY DownPut
<1>3. ASSUME NEW j \in Socks, j # i
      PROVE  Once(down', OkaysFrom(j))
  <2>1. q \notin OkaysFrom(j) /\ Once(down, OkaysFrom(j))
    BY <1>3, UpOnce DEF OkaysFrom
  <2> QED
    BY <1>1, <2>1, OnceAppend
<1>4. ASSUME NoAck(i)
      PROVE  Once(down', OkaysFrom(i))
  <2>1. Clear(down, OkaysFrom(i)) /\ Once(down, OkaysFrom(i))
    BY <1>4, UpOnce DEF NoAck
  <2> QED
    BY <1>1, <2>1, OnceAppend
<1> QED
  BY <1>2, <1>3, <1>4

(* The OKAY of socket i to stream r is put on the way to session k.        *)
AckSent(k, i, r) ==
  \E q \in Packets :
    /\ q.cmd = "OKAY" /\ q.a0 = i /\ q.a1 = r
    /\ \A l \in Sess : \A w : Has(down', l, w) <=> Has(down, l, w) \/ (l = k /\ w = q)
    /\ \A j \in Socks : j # i => Once(down', OkaysFrom(j))
    /\ NoAck(i) => Once(down', OkaysFrom(i))

LEMMA OkayPut ==
  ASSUME StreamIInv, NEW k \in Sess, NEW i \in Socks, NEW r \in Nat,
         Puts(down, down', k, Pkt("OKAY", i, r, 0))
  PROVE  AckSent(k, i, r)
<1>1. i \in Nat
  BY AdbAssumption, SMTT(60) DEF Socks
<1>2. Pkt("OKAY", i, r, 0) \in Packets
  BY <1>1, SMTT(60) DEF Pkt, Packets
<1>3. Pkt("OKAY", i, r, 0).cmd = "OKAY" /\ Pkt("OKAY", i, r, 0).a0 = i
      /\ Pkt("OKAY", i, r, 0).a1 = r
  BY DEF Pkt
<1>4. PICK q \in Packets : q = Pkt("OKAY", i, r, 0)
  BY <1>2
<1>5. q.cmd = "OKAY" /\ q.a0 = i /\ q.a1 = r
  BY <1>3, <1>4
<1>6. Puts(down, down', k, q)
  BY <1>4
<1>7. /\ \A l \in Sess : \A w : Has(down', l, w) <=> Has(down, l, w) \/ (l = k /\ w = q)
      /\ \A j \in Socks : j # i => Once(down', OkaysFrom(j))
      /\ NoAck(i) => Once(down', OkaysFrom(i))
  BY <1>5, <1>6, AckPut
<1> QED
  BY <1>5, <1>7 DEF AckSent

(* A socket that does not exist yet takes no part in any stream.           *)
LEMMA FreshSocket ==
  ASSUME StreamIInv, NEW i \in Socks, sk[i].st = "none"
  PROVE  NoWrite(i) /\ NoAck(i) /\ NoHostTurn(i) /\ ~Created(i)
<1>1. ~Created(i)
  BY DEF Created
<1>2. NoWrite(i)
  <2>1. ASSUME NEW k \in Sess, NEW p \in WrtesTo(i), Has(up, k, p)
        PROVE  FALSE
    <3>1. p \in Packets /\ p.a1 = i /\ Addressed(p)
      BY DEF WrtesTo, Addressed
    <3>2. Local(k, p)
      BY <2>1, <3>1, StreamParts DEF UpInv
    <3> QED
      BY <1>1, <3>1, <3>2 DEF Local
  <2> QED
    BY <2>1 DEF NoWrite, Clear
<1>3. NoAck(i)
  <2>1. ASSUME NEW k \in Sess, NEW p \in OkaysFrom(i), Has(down, k, p)
        PROVE  FALSE
    <3>1. p \in Packets /\ p.a0 = i /\ p.cmd = "OKAY"
      BY DEF OkaysFrom
    <3>2. Known(p)
      BY <2>1, <3>1, StreamParts DEF DownInv
    <3> QED
      BY <1>1, <3>1, <3>2 DEF Known
  <2> QED
    BY <2>1 DEF NoAck, Clear
<1>4. NoHostTurn(i)
  <2>1. ASSUME NEW k \in Sess, Turn(host[k], i)
        PROVE  FALSE
    <3>1. Talks(host[k]) /\ host[k].lid = i
      BY <2>1 DEF Turn, Talks
    <3>2. Created(host[k].lid)
      BY <3>1, StreamParts DEF HostInv
    <3> QED
      BY <1>1, <3>1, <3>2
  <2> QED
    BY <2>1 DEF NoHostTurn
<1> QED
  BY <1>1, <1>2, <1>3, <1>4

LEMMA SameStays ==
  ASSUME StreamIInv, NEW j \in Socks, sk'[j] = sk[j]
  PROVE  Stays(sk[j], sk'[j]) /\ SocketOf(sk'[j])
<1>1. SocketOf(sk[j])
  BY StreamParts
<1> QED
  BY <1>1 DEF Stays, SameId

(* An OPEN gets a new socket, which nothing on its way names.              *)
LEMMA OpenTakesStream ==
  ASSUME StreamIInv, LoopInv', NEW k \in Sess, TransportSocket(k),
         Head(up[k]).cmd = "OPEN", NEW i \in Socks, sk[i].st = "none",
         sk' = [sk EXCEPT ![i] = ServiceSocket(k, Head(up[k]).a0)],
         Puts(down, down', k, Pkt("OKAY", i, Head(up[k]).a0, 0))
  PROVE  StreamIInv'
<1>0. /\ Head(up[k]).a0 \in 1..sent /\ Head(up[k]).a0 \in Nat
      /\ Clear(up', OpensOf(Head(up[k]).a0)) /\ ~Clear(up, OpensOf(Head(up[k]).a0))
      /\ \A l \in Sess :
           host[l].rid = Head(up[k]).a0 => l = k /\ host[l].strm = "opening"
  BY OpenTaken
<1>1. PICK r \in Nat :
        /\ r = Head(up[k]).a0 /\ r \in 1..sent
        /\ Clear(up', OpensOf(r)) /\ ~Clear(up, OpensOf(r))
        /\ \A l \in Sess : host[l].rid = r => l = k /\ host[l].strm = "opening"
  BY <1>0
<1>2. PICK t \in Sockets :
        /\ t.st = "open" /\ t.peer = k /\ t.rid = r
        /\ t.q = <<>> /\ t.fd = <<>> /\ t.got = <<>> /\ t.okays = 0 /\ t.wrtes = 0
        /\ t = ServiceSocket(k, r)
  BY ServiceSocketType
<1>3. sk'[i] = t /\ \A j \in Socks : j # i => sk'[j] = sk[j]
  <2>1. sk' = [sk EXCEPT ![i] = t]
    BY <1>1, <1>2
  <2> QED
    BY <2>1, StreamParts, OneSocket
<1>4. host' = host /\ sent' = sent /\ SentGrows
  BY HandledSentSame DEF TransportSocket
<1>5. PICK q \in Packets :
        /\ q.cmd = "OKAY" /\ q.a0 = i /\ q.a1 = r
        /\ \A l \in Sess : \A w : Has(down', l, w) <=> Has(down, l, w) \/ (l = k /\ w = q)
        /\ \A j \in Socks : j # i => Once(down', OkaysFrom(j))
        /\ NoAck(i) => Once(down', OkaysFrom(i))
  <2>1. Puts(down, down', k, Pkt("OKAY", i, r, 0))
    BY <1>1
  <2>2. AckSent(k, i, r)
    BY <2>1, OkayPut
  <2> QED
    BY <2>2 DEF AckSent
<1>6. NoWrite(i) /\ NoAck(i) /\ NoHostTurn(i) /\ ~Created(i)
  BY FreshSocket
<1>7. /\ Created(i)'
      /\ \A j : j # i => (Created(j)' <=> Created(j))
      /\ \A j : Created(j) => j \in Socks /\ j # i /\ sk'[j] = sk[j]
  BY <1>2, <1>3, <1>6 DEF Created
<1>8. SockIds'
  <2>1. ASSUME NEW j \in Socks, Created(j)'
        PROVE  sk'[j].rid \in 1..sent' /\ Clear(up', OpensOf(sk'[j].rid))
    <3>1. CASE j = i
      BY <1>1, <1>2, <1>3, <1>4, <3>1
    <3>2. CASE j # i
      <4>1. Created(j) /\ sk'[j] = sk[j]
        BY <1>3, <1>7, <2>1, <3>2
      <4>2. sk[j].rid \in 1..sent /\ Clear(up, OpensOf(sk[j].rid))
        BY <4>1, StreamParts DEF SockIds
      <4>3. Clear(up', OpensOf(sk[j].rid))
        BY <4>2, UpTaken, AnsweredKept
      <4> QED
        BY <1>4, <4>1, <4>2, <4>3
    <3> QED
      BY <3>1, <3>2
  <2>2. ASSUME NEW j \in Socks, Created(j)', j # i
        PROVE  Created(j) /\ sk'[j].rid = sk[j].rid /\ sk[j].rid # r
    <3>1. Created(j) /\ sk'[j] = sk[j]
      BY <1>3, <1>7, <2>2
    <3>2. Clear(up, OpensOf(sk[j].rid))
      BY <3>1, StreamParts DEF SockIds
    <3> QED
      BY <1>1, <3>1, <3>2
  <2>3. \A j, l \in Socks : Created(j)' /\ Created(l)' /\ sk'[j].rid = sk'[l].rid => j = l
    <3>1. \A j, l \in Socks : Created(j) /\ Created(l) /\ sk[j].rid = sk[l].rid => j = l
      BY StreamParts DEF SockIds
    <3>2. ASSUME NEW j \in Socks, NEW l \in Socks, Created(j)', Created(l)',
                 sk'[j].rid = sk'[l].rid
          PROVE  j = l
      <4>1. sk'[i].rid = r
        BY <1>2, <1>3
      <4>2. CASE j = i \/ l = i
        BY <2>2, <3>2, <4>1, <4>2
      <4>3. CASE j # i /\ l # i
        BY <2>2, <3>1, <3>2, <4>3
      <4> QED
        BY <4>2, <4>3
    <3> QED
      BY <3>2
  <2> QED
    BY <2>1, <2>3 DEF SockIds
<1>9. HostIds'
  BY <1>4, StreamParts DEF HostIds
<1>10. Joined'
  <2>1. ASSUME NEW j \in Socks, NEW l \in Sess, Created(j)', sk'[j].rid = host[l].rid
        PROVE  sk'[j].peer \in {0, l}
    <3>1. CASE j = i
      BY <1>1, <1>2, <1>3, <2>1, <3>1
    <3>2. CASE j # i
      BY <1>3, <1>7, <2>1, <3>2, StreamParts DEF Joined
    <3> QED
      BY <3>1, <3>2
  <2> QED
    BY <1>4, <2>1 DEF Joined
<1>11. OpenInv'
  <2>1. HostsKeepIds
    BY <1>4 DEF HostsKeepIds
  <2> QED
    BY <1>4, <2>1, StreamParts, UpTaken, OpenKept
<1>12. HostInv'
  <2>1. ASSUME NEW l \in Sess
        PROVE  /\ HostSane(host[l])
               /\ Talks(host[l]) => /\ host[l].lid # i /\ Created(host[l].lid)
                                    /\ sk'[host[l].lid].rid = host[l].rid
    BY <1>7, StreamParts DEF HostInv
  <2>2. \A j : j # i /\ Created(j) => Created(j)'
    BY <1>7
  <2>3. \A l \in Sess : Talks(host[l]) => Created(host[l].lid)'
    <3>1. ASSUME NEW l \in Sess, Talks(host[l])
          PROVE  Created(host[l].lid)'
      <4>1. PICK j : j = host[l].lid /\ j # i /\ Created(j)
        BY <2>1, <3>1
      <4>2. Created(j)' /\ host'[l].lid = j
        BY <1>4, <2>2, <4>1
      <4> QED
        BY <4>2 DEF Created
    <3> QED
      BY <3>1
  <2> QED
    BY <1>4, <2>1, <2>3 DEF HostInv
<1>13. UpInv'
  <2>1. ASSUME NEW l \in Sess, NEW p \in Packets, Has(up', l, p), Addressed(p)
        PROVE  Local(l, p)'
    <3>1. Local(l, p)
      BY <2>1, StreamParts, UpTaken DEF UpInv
    <3>2. p.a1 # i /\ Created(p.a1)' /\ sk'[p.a1] = sk[p.a1]
      BY <1>7, <3>1 DEF Local
    <3> QED
      BY <3>1, <3>2 DEF Local
  <2> QED
    BY <2>1 DEF UpInv, Addressed
<1>14. DownInv'
  <2>1. ASSUME NEW l \in Sess, NEW p \in Packets, Has(down, l, p)
        PROVE  Known(p)'
    <3>1. Known(p)
      BY <2>1, StreamParts DEF DownInv
    <3>2. Addressed(p) => p.a1 \in 1..sent' /\ Clear(up', OpensOf(p.a1))
      BY <1>4, <3>1, UpTaken, AnsweredKept DEF Known
    <3>3. p.cmd = "OKAY" => Created(p.a0)' /\ sk'[p.a0].rid = p.a1
      BY <1>7, <3>1 DEF Known
    <3> QED
      BY <3>2, <3>3 DEF Known, Addressed
  <2>2. Known(q)'
    BY <1>1, <1>2, <1>3, <1>4, <1>5, <1>7 DEF Known
  <2> QED
    BY <1>5, <2>1, <2>2 DEF DownInv
<1>15. ASSUME NEW j \in Socks, j # i
       PROVE  OneTurn(j)' /\ Numbered(j)' /\ SocketOf(sk'[j])
  <2>1. OneTurn(j) /\ Numbered(j) /\ sk'[j] = sk[j]
    BY <1>3, <1>15, StreamParts
  <2>2. Stays(sk[j], sk'[j]) /\ SocketOf(sk'[j])
    BY <2>1, SameStays
  <2>3. Once(up', WrtesTo(j)) /\ Once(down', OkaysFrom(j))
    BY <1>5, <1>15, UpTaken
  <2>4. \A l \in Sess : \A p \in WrtesTo(j) : Has(up', l, p) => Has(up, l, p)
    BY UpTaken
  <2>5. \A l \in Sess : \A p \in OkaysFrom(j) : Has(down', l, p) => Has(down, l, p)
    <3>1. q \notin OkaysFrom(j)
      BY <1>5, <1>15 DEF OkaysFrom
    <3> QED
      BY <1>5, <3>1
  <2>6. NoWrite(j)' => NoWrite(j)
    <3>1. UpQuiet
      BY HandledNoWrite
    <3>2. Head(up[k]) \notin WrtesTo(j)
      BY DEF WrtesTo
    <3>3. up \in [Sess -> Seq(Packets)] /\ Takes(up, up', k)
      BY StreamParts, HeadFacts DEF TransportSocket, Takes
    <3>4. \A l \in Sess : \A p : Has(up, l, p) <=> Has(up', l, p) \/ (l = k /\ p = Head(up[k]))
      BY <3>3, HasTail
    <3> QED
      BY <3>2, <3>4 DEF NoWrite, Clear
  <2> QED
    BY <1>4, <2>1, <2>2, <2>3, <2>4, <2>5, <2>6, TurnKept
<1>16. OneTurn(i)' /\ Numbered(i)' /\ SocketOf(sk'[i])
  <2>0. Len(<<>>) = 0 /\ 1..0 = {} /\ 0 <= 1 /\ 0 + 0 + 0 = 0 /\ 0 + 0 = 0
    BY SMTT(60)
  <2>1. NoWrite(i)' /\ NoHostTurn(i)'
    <3>1. NoWrite(i)'
      BY <1>6, UpTaken, ClearKept DEF NoWrite
    <3> QED
      BY <1>4, <1>6, <3>1 DEF NoHostTurn
  <2>2. Once(up', WrtesTo(i)) /\ Once(down', OkaysFrom(i))
    BY <1>5, <1>6, UpTaken
  <2>3. OneTurn(i)'
    BY <1>2, <1>3, <2>0, <2>1, <2>2 DEF OneTurn
  <2>4. Taken(sk'[i]) = 0
    BY <1>2, <1>3, <2>0 DEF Taken
  <2>5. \A l \in Sess : host[l].rid = r => host[l].sent = 0
    BY <1>1, StreamParts DEF HostInv, HostSane
  <2>6. Numbered(i)'
    <3>1. \A l \in Sess : \A p \in WrtesTo(i) : ~Has(up', l, p)
      BY <2>1 DEF NoWrite, Clear
    <3> QED
      BY <1>2, <1>3, <1>4, <2>1, <2>4, <2>5, <3>1 DEF Numbered
  <2>7. SocketOf(sk'[i])
    BY <1>2, <1>3, <2>0 DEF SocketOf, InOrder
  <2> QED
    BY <2>3, <2>6, <2>7
<1>17. TurnInv'
  BY <1>15, <1>16 DEF TurnInv
<1> QED
  BY <1>8, <1>9, <1>10, <1>11, <1>12, <1>13, <1>14, <1>17 DEF StreamIInv

-----------------------------------------------------------------------------
(* Steps that hand on a turn.                                              *)

HostMoves(k) ==
  LET g == host[k]
      h == host'[k]
  IN /\ h.rid \in {g.rid, 0} /\ HostSane(h)
     /\ h.strm = g.strm \/ h.rid = 0 \/ Clear(up', OpensOf(g.rid))
     /\ Talks(h) => \/ h.lid = g.lid /\ h.rid = g.rid /\ Talks(g)
                    \/ Created(h.lid) /\ sk[h.lid].rid = h.rid

LEMMA QuietMoves ==
  ASSUME NEW k \in Sess, HostQuiet(k)
  PROVE  HostMoves(k)
  BY DEF HostQuiet, HostMoves

LEMMA TurnStep ==
  ASSUME StreamIInv, LoopInv', AllSameId, NoNewOpens, SentGrows,
         \A r \in Nat : Once(up', OpensOf(r)),
         \A k \in Sess : HostMoves(k),
         \A k \in Sess, p \in Packets :
           Has(up', k, p) /\ Addressed(p) => Has(up, k, p) \/ Local(k, p),
         \A k \in Sess, p \in Packets : Has(down', k, p) => Has(down, k, p) \/ Known(p)',
         TurnInv'
  PROVE  StreamIInv'
<1>0. /\ SockIds /\ HostIds /\ Joined /\ OpenInv /\ HostInv /\ UpInv /\ DownInv
      /\ AdbTypeOK
  BY StreamParts
<1>1. HostsKeepIds
  BY DEF HostMoves, HostsKeepIds
<1>2. SockIds' /\ HostIds' /\ Joined'
  BY <1>0, <1>1, SockIdsKept, HostIdsKept, JoinedKept
<1>3. OpenInv'
  <2>1. \A l \in Sess : \/ host'[l].strm = host[l].strm \/ host'[l].rid = 0
                        \/ Clear(up', OpensOf(host[l].rid))
    BY DEF HostMoves
  <2> QED
    BY <1>0, <1>1, <2>1, OpenKept
<1>4. HostInv'
  <2>1. \A k \in Sess : /\ HostSane(host'[k])
                        /\ Talks(host'[k]) =>
                             \/ /\ host'[k].lid = host[k].lid
                                /\ host'[k].rid = host[k].rid /\ Talks(host[k])
                             \/ /\ Created(host'[k].lid)
                                /\ sk[host'[k].lid].rid = host'[k].rid
    BY DEF HostMoves
  <2> QED
    BY <1>0, <2>1, HostKept
<1>5. UpInv' /\ DownInv'
  BY <1>0, UpKept, DownKept
<1> QED
  BY <1>2, <1>3, <1>4, <1>5 DEF StreamIInv

(* The turns of a socket that a packet taken is not for.                   *)
LEMMA OtherWrites ==
  ASSUME StreamIInv, NEW k \in Sess, TransportSocket(k), NEW j \in Socks,
         Head(up[k]) \notin WrtesTo(j), NoWrite(j)'
  PROVE  NoWrite(j)
<1>1. up \in [Sess -> Seq(Packets)] /\ Takes(up, up', k)
  BY StreamParts, HeadFacts DEF TransportSocket, Takes
<1>2. \A l \in Sess : \A p : Has(up, l, p) <=> Has(up', l, p) \/ (l = k /\ p = Head(up[k]))
  BY <1>1, HasTail
<1> QED
  BY <1>2 DEF NoWrite, Clear

LEMMA OtherTurn ==
  ASSUME StreamIInv, NEW k \in Sess, TransportSocket(k), NEW j \in Socks,
         Head(up[k]) \notin WrtesTo(j), sk'[j] = sk[j], Once(down', OkaysFrom(j)),
         \A l \in Sess : \A p \in OkaysFrom(j) : Has(down', l, p) => Has(down, l, p)
  PROVE  OneTurn(j)' /\ Numbered(j)' /\ SocketOf(sk'[j])
<1>1. OneTurn(j) /\ Numbered(j) /\ host' = host
  BY StreamParts DEF TransportSocket
<1>2. Stays(sk[j], sk'[j]) /\ SocketOf(sk'[j])
  BY SameStays
<1>3. Once(up', WrtesTo(j))
  BY UpTaken
<1>4. \A l \in Sess : \A p \in WrtesTo(j) : Has(up', l, p) => Has(up, l, p)
  BY UpTaken
<1>5. NoWrite(j)' => NoWrite(j)
  BY OtherWrites
<1> QED
  BY <1>1, <1>2, <1>3, <1>4, <1>5, TurnKept

(* The turn was in the WRTE that is taken.                                 *)
LEMMA WriteTaken ==
  ASSUME StreamIInv, NEW k \in Sess, TransportSocket(k), NEW i \in Socks,
         Head(up[k]).cmd = "WRTE", Head(up[k]).a1 = i, sk[i].st = "open"
  PROVE  /\ sk[i].q = <<>> /\ NoAck(i) /\ NoHostTurn(i) /\ NoWrite(i)'
         /\ Head(up[k]).data = Taken(sk[i]) + 1
         /\ Head(up[k]).a0 = sk[i].rid /\ Head(up[k]).a0 \in Nat
         /\ \A j \in Socks : j # i => Head(up[k]) \notin WrtesTo(j)
         /\ \A l \in Sess : host[l].rid = sk[i].rid /\ Streams(host[l]) =>
              host[l].sent = Taken(sk[i]) + 1
<1>1. PICK p \in Packets : p = Head(up[k])
  BY UpTaken
<1>2. p.cmd = "WRTE" /\ p.a1 = i /\ Has(up, k, p) /\ p \in WrtesTo(i) /\ NoWrite(i)'
  <2>1. p.cmd = "WRTE" /\ p.a1 = i
    BY <1>1
  <2>2. p \in WrtesTo(i)
    BY <2>1 DEF WrtesTo
  <2>3. Has(up, k, p) /\ NoWrite(i)'
    BY <1>1, <2>2, UpTaken
  <2> QED
    BY <2>1, <2>2, <2>3
<1>3. ~NoWrite(i)
  BY <1>2 DEF NoWrite, Clear
<1>4. OneTurn(i) /\ Numbered(i)
  BY StreamParts
<1>5. sk[i].q = <<>> /\ NoAck(i) /\ NoHostTurn(i)
  BY <1>3, <1>4 DEF OneTurn
<1>6. p.data = Taken(sk[i]) + 1
  BY <1>2, <1>4 DEF Numbered
<1>7. p.a0 = sk[i].rid
  <2>1. Local(k, p)
    BY <1>2, StreamParts DEF UpInv, Addressed
  <2> QED
    BY <1>2, <2>1 DEF Local
<1>8. p.a0 \in Nat
  BY SMTT(60) DEF Packets
<1>9. \A j \in Socks : j # i => p \notin WrtesTo(j)
  BY <1>2 DEF WrtesTo
<1>10. \A l \in Sess : host[l].rid = sk[i].rid /\ Streams(host[l]) =>
         host[l].sent = Taken(sk[i]) + 1
  BY <1>3, <1>4 DEF Numbered
<1> QED
  BY <1>1, <1>2, <1>5, <1>6, <1>7, <1>8, <1>9, <1>10

(* The packet taken is the next of its stream.                             *)
LEMMA NextInOrder ==
  ASSUME NEW g \in Seq(Nat), NEW f \in Seq(Nat), NEW d \in Nat, d = Len(g) + Len(f) + 1,
         \A n \in 1..Len(f) : f[n] = Len(g) + n
  PROVE  /\ \A n \in 1..Len(Append(f, d)) : Append(f, d)[n] = Len(g) + n
         /\ \A n \in 1..Len(<<d>>) : <<d>>[n] = Len(g) + Len(f) + n
         /\ Len(g) + Len(Append(f, d)) + 0 = Len(g) + Len(f) + 0 + 1
         /\ Len(g) + Len(f) + 1 = Len(g) + Len(f) + 0 + 1
<1>1. Len(g) \in Nat /\ Len(f) \in Nat
  BY LenType
<1>2. /\ Len(Append(f, d)) = Len(f) + 1
      /\ \A n \in 1..Len(f) : Append(f, d)[n] = f[n]
      /\ Append(f, d)[Len(f) + 1] = d
  BY SMTT(60)
<1>3. \A n \in 1..(Len(f) + 1) : n \in 1..Len(f) \/ n = Len(f) + 1
  BY <1>1, SMTT(60)
<1>4. Len(g) + (Len(f) + 1) = d /\ Len(g) + (Len(f) + 1) + 0 = Len(g) + Len(f) + 0 + 1
      /\ Len(g) + Len(f) + 1 = Len(g) + Len(f) + 0 + 1
  BY <1>1, SMTT(60)
<1>5. \A n \in 1..Len(Append(f, d)) : Append(f, d)[n] = Len(g) + n
  BY <1>2, <1>3, <1>4
<1>6. \A n \in 1..Len(<<d>>) : <<d>>[n] = Len(g) + Len(f) + n
  BY <1>1, SMTT(60)
<1> QED
  BY <1>2, <1>4, <1>5, <1>6

LEMMA AcceptsInOrder ==
  ASSUME NEW s \in Sockets, NEW t, NEW d \in Nat, Accepts(s, t, d), SocketOf(s),
         s.st = "open", s.q = <<>>, d = Taken(s) + 1
  PROVE  /\ InOrder(t) /\ Taken(t) = Taken(s) + 1 /\ t.okays + Len(t.q) = t.wrtes
         /\ Len(t.q) <= 1 /\ SameId(s, t)
         /\ Delivered(s, t, d) => t.q = <<>>
<1>1. /\ s.got \in Seq(Nat) /\ s.fd \in Seq(Nat) /\ s.okays \in Nat /\ s.wrtes \in Nat
      /\ s.peer \in Nat
  BY SocketType, AdbAssumption, SMTT(60) DEF Sockets
<1>2. Len(s.got) \in Nat /\ Len(s.fd) \in Nat /\ Len(<<>>) = 0 /\ Len(<<d>>) = 1 /\ 1..0 = {}
  BY <1>1, LenType, SMTT(60)
<1>3. d = Len(s.got) + Len(s.fd) + 1 /\ Taken(s) = Len(s.got) + Len(s.fd) + 0
  <2>1. Taken(s) = Len(s.got) + Len(s.fd) + 0
    BY <1>2 DEF Taken
  <2> QED
    BY <1>2, <2>1, SMTT(60)
<1>4. /\ \A n \in 1..Len(s.got) : s.got[n] = n
      /\ \A n \in 1..Len(s.fd) : s.fd[n] = Len(s.got) + n
      /\ s.okays + Len(s.q) = s.wrtes
  BY DEF SocketOf, InOrder
<1>5. s.okays = s.wrtes /\ s.okays + 1 + 0 = s.wrtes + 1
      /\ s.okays + 1 = s.wrtes + 1 /\ 0 <= 1 /\ 1 <= 1
  <2>1. s.okays + 0 = s.wrtes
    BY <1>2, <1>4
  <2> QED
    BY <1>1, <2>1, SMTT(60)
<1>6. /\ \A n \in 1..Len(Append(s.fd, d)) : Append(s.fd, d)[n] = Len(s.got) + n
      /\ \A n \in 1..Len(<<d>>) : <<d>>[n] = Len(s.got) + Len(s.fd) + n
      /\ Len(s.got) + Len(Append(s.fd, d)) + 0 = Taken(s) + 1
      /\ Len(s.got) + Len(s.fd) + 1 = Taken(s) + 1
  <2>1. PICK g \in Seq(Nat), f \in Seq(Nat) : g = s.got /\ f = s.fd
    BY <1>1
  <2>2. d = Len(g) + Len(f) + 1 /\ \A n \in 1..Len(f) : f[n] = Len(g) + n
    BY <1>3, <1>4, <2>1
  <2>3. /\ \A n \in 1..Len(Append(f, d)) : Append(f, d)[n] = Len(g) + n
        /\ \A n \in 1..Len(<<d>>) : <<d>>[n] = Len(g) + Len(f) + n
        /\ Len(g) + Len(Append(f, d)) + 0 = Len(g) + Len(f) + 0 + 1
        /\ Len(g) + Len(f) + 1 = Len(g) + Len(f) + 0 + 1
    BY <2>2, NextInOrder
  <2> QED
    BY <1>3, <2>1, <2>3
<1>7. t.got = s.got /\ t.wrtes = s.wrtes + 1 /\ SameId(s, t)
  BY DEF Accepts, SameId
<1>8. CASE Delivered(s, t, d)
  <2>1. t.q = <<>> /\ t.fd = Append(s.fd, d) /\ t.okays = s.okays + 1
    BY <1>8 DEF Delivered
  <2> QED
    BY <1>2, <1>4, <1>5, <1>6, <1>7, <2>1 DEF InOrder, Taken
<1>9. CASE Enqueued(s, t, d)
  <2>0. Append(<<>>, d) = <<d>>
    BY SMTT(60)
  <2>1. t.q = <<d>> /\ t.fd = s.fd /\ t.okays = s.okays
    BY <1>9, <2>0 DEF Enqueued
  <2> QED
    BY <1>2, <1>4, <1>5, <1>6, <1>7, <2>1 DEF InOrder, Taken, Delivered
<1> QED
  BY <1>8, <1>9 DEF Accepts

(* A WRTE for an open socket whose service has closed.                     *)
LEMMA WriteRefusedStream ==
  ASSUME StreamIInv, LoopInv', NEW k \in Sess, TransportSocket(k), NEW i \in Socks,
         Head(up[k]).a1 = i, sk[i].st = "open", sk'[i].st # "open",
         Quietly(Notes(sk[i].rid))
  PROVE  StreamIInv'
<1>1. \A j \in Socks : Fades(sk[j], sk'[j])
  BY DEF Quietly
<1>2. UpQuiet
  BY UpTail DEF WrtesTo
<1>3. DownQuiet
  <2>1. \A p \in Notes(sk[i].rid) : p.cmd # "OKAY" /\ Known(p)'
    BY <1>2, HandledSentSame, OpenIsCreated, NotesKnown
  <2>2. More(down, down', Notes(sk[i].rid))
    BY DEF Quietly
  <2> QED
    BY <2>1, <2>2, DownMore
<1> QED
  BY <1>1, <1>2, <1>3, HandledQuietly

(* One socket changes and keeps its identity.                              *)
LEMMA OneSameId ==
  ASSUME StreamIInv, NEW i \in Socks, SameId(sk[i], sk'[i]),
         \A j \in Socks : j # i => sk'[j] = sk[j]
  PROVE  AllSameId
<1>1. ASSUME NEW j \in Socks, j # i
      PROVE  SameId(sk[j], sk'[j])
  BY <1>1, SameStays DEF Stays
<1> QED
  BY <1>1 DEF AllSameId

(* What is left to show for a WRTE that an open socket takes: the turn has *)
(* gone from the WRTE to the queue or to an OKAY.                          *)
LEMMA WriteTakenStep ==
  ASSUME StreamIInv, LoopInv', NEW k \in Sess, TransportSocket(k), NEW i \in Socks,
         Head(up[k]).cmd = "WRTE", Head(up[k]).a1 = i, sk[i].st = "open",
         sk'[i].st = "open", SameId(sk[i], sk'[i]), SocketOf(sk'[i]),
         Taken(sk'[i]) = Taken(sk[i]) + 1, Len(sk'[i].q) <= 1,
         \A j \in Socks : j # i => sk'[j] = sk[j],
         NoAck(i)' \/ sk'[i].q = <<>>,
         \A j \in Socks : Once(down', OkaysFrom(j)),
         \A j \in Socks : j # i =>
           \A l \in Sess : \A p \in OkaysFrom(j) : Has(down', l, p) => Has(down, l, p),
         \A l \in Sess, p \in Packets : Has(down', l, p) => Has(down, l, p) \/ Known(p)'
  PROVE  StreamIInv'
<1>1. /\ NoHostTurn(i) /\ NoWrite(i)'
      /\ \A j \in Socks : j # i => Head(up[k]) \notin WrtesTo(j)
      /\ \A l \in Sess : host[l].rid = sk[i].rid /\ Streams(host[l]) =>
           host[l].sent = Taken(sk[i]) + 1
  BY WriteTaken
<1>2. host' = host /\ sent' = sent /\ SentGrows /\ AllSameId
  BY HandledSentSame, OneSameId DEF TransportSocket
<1>3. OneTurn(i)'
  <2>1. Once(up', WrtesTo(i)) /\ NoHostTurn(i)'
    BY <1>1, <1>2, UpTaken DEF NoHostTurn
  <2> QED
    BY <1>1, <2>1 DEF OneTurn
<1>4. Numbered(i)'
  <2>1. \A l \in Sess : \A p \in WrtesTo(i) : ~Has(up', l, p)
    BY <1>1 DEF NoWrite, Clear
  <2>2. sk'[i].rid = sk[i].rid
    BY DEF SameId
  <2> QED
    BY <1>1, <1>2, <2>1, <2>2 DEF Numbered
<1>5. \A j \in Socks : j # i => OneTurn(j)' /\ Numbered(j)' /\ SocketOf(sk'[j])
  BY <1>1, OtherTurn
<1>6. TurnInv'
  BY <1>3, <1>4, <1>5 DEF TurnInv
<1>7. \A l \in Sess : HostMoves(l)
  BY <1>2, HostSame, QuietMoves
<1> QED
  BY <1>2, <1>6, <1>7, UpTaken, TurnStep

LEMMA WriteQueuedStream ==
  ASSUME StreamIInv, LoopInv', NEW k \in Sess, TransportSocket(k), NEW i \in Socks,
         Head(up[k]).cmd = "WRTE", Head(up[k]).a1 = i, sk[i].st = "open",
         sk'[i].st = "open", SameId(sk[i], sk'[i]), SocketOf(sk'[i]),
         Taken(sk'[i]) = Taken(sk[i]) + 1, Len(sk'[i].q) <= 1,
         \A j \in Socks : j # i => sk'[j] = sk[j], down' = down
  PROVE  StreamIInv'
<1>1. NoAck(i)'
  BY WriteTaken DEF NoAck
<1>2. \A j \in Socks : Once(down', OkaysFrom(j))
  BY UpOnce
<1> QED
  BY <1>1, <1>2, WriteTakenStep

LEMMA WriteDeliveredStream ==
  ASSUME StreamIInv, LoopInv', NEW k \in Sess, TransportSocket(k), NEW i \in Socks,
         Head(up[k]).cmd = "WRTE", Head(up[k]).a1 = i, sk[i].st = "open",
         sk'[i].st = "open", SameId(sk[i], sk'[i]), SocketOf(sk'[i]),
         Taken(sk'[i]) = Taken(sk[i]) + 1, Len(sk'[i].q) <= 1, sk'[i].q = <<>>,
         \A j \in Socks : j # i => sk'[j] = sk[j],
         Puts(down, down', k, Pkt("OKAY", i, Head(up[k]).a0, 0))
  PROVE  StreamIInv'
<1>1. PICK r \in Nat : r = Head(up[k]).a0 /\ r = sk[i].rid
  BY WriteTaken
<1>2. AckSent(k, i, r)
  <2>1. Puts(down, down', k, Pkt("OKAY", i, r, 0))
    BY <1>1
  <2> QED
    BY <2>1, OkayPut
<1>3. PICK q \in Packets :
        /\ q.cmd = "OKAY" /\ q.a0 = i /\ q.a1 = r
        /\ \A l \in Sess : \A w : Has(down', l, w) <=> Has(down, l, w) \/ (l = k /\ w = q)
        /\ \A j \in Socks : j # i => Once(down', OkaysFrom(j))
        /\ NoAck(i) => Once(down', OkaysFrom(i))
  BY <1>2 DEF AckSent
<1>4. \A j \in Socks : Once(down', OkaysFrom(j))
  BY <1>3, WriteTaken
<1>5. ASSUME NEW j \in Socks, j # i
      PROVE  \A l \in Sess : \A p \in OkaysFrom(j) : Has(down', l, p) => Has(down, l, p)
  <2>1. q \notin OkaysFrom(j)
    BY <1>3, <1>5 DEF OkaysFrom
  <2> QED
    BY <1>3, <2>1
<1>6. Known(q)'
  <2>1. Created(i) /\ sk[i].rid \in 1..sent /\ Clear(up, OpensOf(sk[i].rid))
    BY OpenIsCreated, StreamParts DEF SockIds
  <2>2. q.a1 \in 1..sent' /\ Clear(up', OpensOf(q.a1))
    BY <1>1, <1>3, <2>1, HandledSentSame, UpTaken, AnsweredKept
  <2>3. Created(q.a0)' /\ sk'[q.a0].rid = q.a1
    BY <1>1, <1>3, <2>1 DEF Created, SameId
  <2> QED
    BY <2>2, <2>3 DEF Known
<1>7. \A l \in Sess, p \in Packets : Has(down', l, p) => Has(down, l, p) \/ Known(p)'
  BY <1>3, <1>6
<1> QED
  BY <1>4, <1>5, <1>7, WriteTakenStep

LEMMA WriteStream ==
  ASSUME StreamIInv, NEW k \in Sess, TransportSocket(k), HandleWrite(k, Head(up[k]))
  PROVE  StreamIInv'
<1>0. Head(up[k]).cmd = "WRTE" /\ Head(up[k]).data \in Nat /\ LoopInv'
  <2>1. Head(up[k]) \in Packets
    BY UpTaken
  <2>2. Head(up[k]).data \in Nat
    BY <2>1, SMTT(60) DEF Packets
  <2> QED
    BY <2>2, StreamParts, HandleWriteDoes DEF HandleWrite
<1>1. PICK i \in Socks :
        /\ i = Head(up[k]).a1 /\ sk[i].st = "open"
        /\ \/ sk'[i].st # "open" /\ Quietly(Notes(sk[i].rid))
           \/ \E t \in Sockets :
                /\ Accepts(sk[i], t, Head(up[k]).data) /\ sk' = [sk EXCEPT ![i] = t]
                /\ \/ /\ Delivered(sk[i], t, Head(up[k]).data)
                      /\ Puts(down, down', k, Pkt("OKAY", i, Head(up[k]).a0, 0))
                   \/ Enqueued(sk[i], t, Head(up[k]).data) /\ down' = down
  BY StreamParts, HandleWriteDoes DEF Puts
<1>2. CASE sk'[i].st # "open" /\ Quietly(Notes(sk[i].rid))
  BY <1>0, <1>1, <1>2, WriteRefusedStream
<1>3. ASSUME NEW t \in Sockets, Accepts(sk[i], t, Head(up[k]).data),
             sk' = [sk EXCEPT ![i] = t],
             \/ /\ Delivered(sk[i], t, Head(up[k]).data)
                /\ Puts(down, down', k, Pkt("OKAY", i, Head(up[k]).a0, 0))
             \/ Enqueued(sk[i], t, Head(up[k]).data) /\ down' = down
      PROVE  StreamIInv'
  <2>1. sk'[i] = t /\ \A j \in Socks : j # i => sk'[j] = sk[j]
    BY <1>3, StreamParts, OneSocket
  <2>2. /\ sk[i].q = <<>> /\ Head(up[k]).data = Taken(sk[i]) + 1
        /\ sk[i] \in Sockets /\ SocketOf(sk[i])
    BY <1>0, <1>1, WriteTaken, StreamParts
  <2>3. /\ InOrder(t) /\ Taken(t) = Taken(sk[i]) + 1 /\ t.okays + Len(t.q) = t.wrtes
        /\ Len(t.q) <= 1 /\ SameId(sk[i], t) /\ t.st = "open"
        /\ Delivered(sk[i], t, Head(up[k]).data) => t.q = <<>>
    BY <1>0, <1>1, <1>3, <2>2, AcceptsInOrder DEF Accepts
  <2>4. SocketOf(t)
    BY <2>3 DEF SocketOf
  <2>5. /\ Head(up[k]).a1 = i /\ sk'[i].st = "open" /\ SameId(sk[i], sk'[i])
        /\ SocketOf(sk'[i]) /\ Taken(sk'[i]) = Taken(sk[i]) + 1 /\ Len(sk'[i].q) <= 1
    BY <1>1, <2>1, <2>3, <2>4
  <2>6. CASE Enqueued(sk[i], t, Head(up[k]).data) /\ down' = down
    BY <1>0, <1>1, <2>1, <2>5, <2>6, WriteQueuedStream
  <2>7. CASE /\ Delivered(sk[i], t, Head(up[k]).data)
             /\ Puts(down, down', k, Pkt("OKAY", i, Head(up[k]).a0, 0))
    <3>1. sk'[i].q = <<>>
      BY <2>1, <2>3, <2>7
    <3> QED
      BY <1>0, <1>1, <2>1, <2>5, <2>7, <3>1, WriteDeliveredStream
  <2> QED
    BY <1>3, <2>6, <2>7
<1> QED
  BY <1>1, <1>2, <1>3

(* local_socket_event_func: the turn goes from the queue of a socket to    *)
(* the OKAY, or nowhere.                                                   *)
LEMMA SocketQuiet ==
  ASSUME StreamIInv, LoopInv', NEW i \in Socks, Created(i),
         up' = up, host' = host, sent' = sent,
         \A j \in Socks : j # i => sk'[j] = sk[j],
         Stays(sk[i], sk'[i]), SocketOf(sk'[i]), More(down, down', Notes(sk[i].rid))
  PROVE  StreamIInv'
<1>1. SkQuiet
  BY SameStays DEF SkQuiet
<1>2. UpQuiet /\ SentGrows /\ \A k \in Sess : HostQuiet(k)
  BY UpSame, SentSame, HostSame
<1>3. DownQuiet
  <2>1. \A p \in Notes(sk[i].rid) : p.cmd # "OKAY" /\ Known(p)'
    BY <1>2, NotesKnown
  <2> QED
    BY <2>1, DownMore
<1> QED
  BY <1>1, <1>2, <1>3, QuietStep

LEMMA AckThenNotes ==
  ASSUME StreamIInv, NEW i \in Socks, sk[i].peer \in Sess,
         More(Acked(down, sk[i], i), down', Notes(sk[i].rid))
  PROVE  \E q \in Packets :
           /\ q.cmd = "OKAY" /\ q.a0 = i /\ q.a1 = sk[i].rid
           /\ \A l \in Sess : \A p : Has(down', l, p) =>
                Has(down, l, p) \/ p = q \/ p \in Notes(sk[i].rid)
           /\ \A j \in Socks : j # i => Once(down', OkaysFrom(j))
           /\ NoAck(i) => Once(down', OkaysFrom(i))
<1>1. i \in Nat /\ sk[i].rid \in Nat
  BY StreamParts, SocketType, AdbAssumption, SMTT(60) DEF Socks
<1>2. PICK r \in Nat, k \in Sess : r = sk[i].rid /\ k = sk[i].peer
  BY <1>1
<1>3. Pkt("OKAY", i, r, 0) \in Packets
  BY <1>1, SMTT(60) DEF Pkt, Packets
<1>4. PICK q \in Packets : q = Pkt("OKAY", i, r, 0)
  BY <1>3
<1>5. q.cmd = "OKAY" /\ q.a0 = i /\ q.a1 = r
  BY <1>4 DEF Pkt
<1>6. PICK e : e = Acked(down, sk[i], i)
  OBVIOUS
<1>7. Puts(down, e, k, q) /\ More(e, down', Notes(r))
  BY <1>2, <1>4, <1>6 DEF Acked, Okay, Puts
<1>8. down \in [Sess -> Seq(Packets)]
  BY StreamParts
<1>9. e \in [Sess -> Seq(Packets)]
  BY <1>7, <1>8, PairAppend DEF Puts
<1>10. Extra(down, e, k, q)
  BY <1>7, <1>8, HasAppend
<1>11. \A l \in Sess : \A p : Has(down', l, p) => Has(e, l, p) \/ p \in Notes(r)
  BY <1>7, <1>9, HasMore
<1>12. \A l \in Sess : \A p : Has(down', l, p) => Has(down, l, p) \/ p = q \/ p \in Notes(r)
  BY <1>10, <1>11 DEF Extra
<1>13. ASSUME NEW j \in Socks, Once(e, OkaysFrom(j))
       PROVE  Once(down', OkaysFrom(j))
  <2>1. \A p \in Notes(r) : p \notin OkaysFrom(j)
    BY DEF Notes, OkaysFrom
  <2> QED
    BY <1>7, <1>9, <1>13, <2>1, OnceMore
<1>14. ASSUME NEW j \in Socks, j # i
       PROVE  Once(down', OkaysFrom(j))
  <2>1. q \notin OkaysFrom(j) /\ Once(down, OkaysFrom(j))
    BY <1>5, <1>14, UpOnce DEF OkaysFrom
  <2>2. Once(e, OkaysFrom(j))
    BY <1>7, <1>8, <2>1, OnceAppend
  <2> QED
    BY <1>13, <2>2
<1>15. ASSUME NoAck(i)
       PROVE  Once(down', OkaysFrom(i))
  <2>1. Clear(down, OkaysFrom(i)) /\ Once(down, OkaysFrom(i))
    BY <1>15, UpOnce DEF NoAck
  <2>2. Once(e, OkaysFrom(i))
    BY <1>7, <1>8, <2>1, OnceAppend
  <2> QED
    BY <1>13, <2>2
<1> QED
  BY <1>2, <1>5, <1>12, <1>14, <1>15

LEMMA AtMostOne ==
  ASSUME NEW n \in Nat \ {0}, n <= 1
  PROVE  n = 1
  BY SMTT(60)

LEMMA OneLong ==
  ASSUME NEW q \in Seq(Nat), q # <<>>, Len(q) <= 1
  PROVE  Len(q) = 1
<1>1. Len(q) \in Nat \ {0}
  BY SeqTail
<1> QED
  BY <1>1, AtMostOne

LEMMA SocketAcksStream ==
  ASSUME StreamIInv, LoopInv', NEW i \in Socks, sk[i].st = "open", sk[i].q # <<>>,
         up' = up, host' = host, sent' = sent,
         \A j \in Socks : j # i => sk'[j] = sk[j],
         Moves(sk[i], sk'[i]), More(Acked(down, sk[i], i), down', Notes(sk[i].rid))
  PROVE  StreamIInv'
<1>1. OneTurn(i) /\ Numbered(i) /\ SocketOf(sk[i]) /\ sk[i] \in Sockets /\ Sound(sk[i])
  BY StreamParts DEF LoopInv, SoundInv
<1>2. NoWrite(i) /\ NoAck(i) /\ NoHostTurn(i)
  BY <1>1 DEF OneTurn
<1>3. sk[i].peer \in Sess
  BY <1>1, PeerType DEF Sound, Sane
<1>4. PICK q \in Packets :
        /\ q.cmd = "OKAY" /\ q.a0 = i /\ q.a1 = sk[i].rid
        /\ \A l \in Sess : \A p : Has(down', l, p) =>
             Has(down, l, p) \/ p = q \/ p \in Notes(sk[i].rid)
        /\ \A j \in Socks : j # i => Once(down', OkaysFrom(j))
        /\ NoAck(i) => Once(down', OkaysFrom(i))
  BY <1>3, AckThenNotes
<1>5. InOrder(sk'[i]) /\ Taken(sk'[i]) = Taken(sk[i])
  BY <1>1, MovesInOrder DEF SocketOf
<1>6. /\ sk'[i].q = <<>> /\ Len(<<>>) = 0 /\ 0 <= 1 /\ Keeps(sk[i], sk'[i])
      /\ sk'[i].st = "open" =>
           sk'[i].okays = sk[i].okays + 1 /\ sk'[i].wrtes = sk[i].wrtes
  <2>1. Len(<<>>) = 0 /\ 0 <= 1
    BY SMTT(60)
  <2> QED
    BY <2>1, FadesKeeps DEF Moves
<1>7. SocketOf(sk'[i])
  <2>1. Len(sk[i].q) = 1 /\ sk[i].okays \in Nat /\ sk[i].wrtes \in Nat
    <3>1. sk[i].q \in Seq(Nat) /\ sk[i].okays \in Nat /\ sk[i].wrtes \in Nat
      BY <1>1, SocketType
    <3>2. Len(sk[i].q) <= 1
      BY <1>1 DEF OneTurn
    <3> QED
      BY <3>1, <3>2, OneLong
  <2>2. sk[i].okays + 1 = sk[i].wrtes
    BY <1>1, <2>1 DEF SocketOf
  <2>3. sk[i].okays + 1 + 0 = sk[i].wrtes
    BY <2>1, <2>2, SMTT(60)
  <2> QED
    BY <1>5, <1>6, <2>3 DEF SocketOf
<1>8. AllSameId /\ SentGrows /\ NoNewOpens
  <2>1. SameId(sk[i], sk'[i])
    BY <1>6 DEF Keeps, SameId
  <2> QED
    BY <2>1, OneSameId, SentSame DEF NoNewOpens
<1>9. OneTurn(i)'
  <2>1. Once(up', WrtesTo(i)) /\ Once(down', OkaysFrom(i))
    BY <1>2, <1>4, UpOnce
  <2>2. NoWrite(i)' /\ NoHostTurn(i)'
    BY <1>2 DEF NoWrite, NoHostTurn
  <2> QED
    BY <1>6, <2>1, <2>2 DEF OneTurn
<1>10. Numbered(i)'
  <2>1. sk'[i].rid = sk[i].rid /\ (NoWrite(i)' <=> NoWrite(i))
    BY <1>6 DEF Keeps, NoWrite
  <2> QED
    BY <1>1, <1>5, <2>1 DEF Numbered
<1>11. ASSUME NEW j \in Socks, j # i
       PROVE  OneTurn(j)' /\ Numbered(j)' /\ SocketOf(sk'[j])
  <2>1. OneTurn(j) /\ Numbered(j) /\ Stays(sk[j], sk'[j]) /\ SocketOf(sk'[j])
    BY <1>11, StreamParts, SameStays
  <2>2. Once(up', WrtesTo(j)) /\ Once(down', OkaysFrom(j)) /\ (NoWrite(j)' => NoWrite(j))
    BY <1>4, <1>11, UpOnce DEF NoWrite
  <2>3. \A l \in Sess : \A p \in OkaysFrom(j) : Has(down', l, p) => Has(down, l, p)
    <3>1. q \notin OkaysFrom(j) /\ \A p \in Notes(sk[i].rid) : p \notin OkaysFrom(j)
      BY <1>4, <1>11 DEF OkaysFrom, Notes
    <3> QED
      BY <1>4, <3>1
  <2>4. /\ \A l \in Sess : \A p \in WrtesTo(j) : Has(up', l, p) => Has(up, l, p)
        /\ \A l \in Sess : Turn(host'[l], j) => Turn(host[l], j)
    OBVIOUS
  <2>5. ASSUME NEW l \in Sess, host'[l].rid = sk'[j].rid, Streams(host'[l])
        PROVE  host[l].rid = sk[j].rid /\ Streams(host[l]) /\ host'[l].sent = host[l].sent
    BY <1>11, <2>5
  <2> QED
    BY <2>1, <2>2, <2>3, <2>4, <2>5, TurnKept
<1>12. TurnInv'
  BY <1>7, <1>9, <1>10, <1>11 DEF TurnInv
<1>13. \A l \in Sess, p \in Packets : Has(down', l, p) => Has(down, l, p) \/ Known(p)'
  <2>1. Known(q)'
    <3>1. Created(i) /\ sk[i].rid \in 1..sent /\ Clear(up, OpensOf(sk[i].rid))
      BY OpenIsCreated, StreamParts DEF SockIds
    <3>2. Created(i)' /\ sk'[i].rid = sk[i].rid
      BY <1>8, <3>1, CreatedKept
    <3> QED
      BY <1>4, <3>1, <3>2 DEF Known
  <2>2. \A p \in Notes(sk[i].rid) : Known(p)'
    BY <1>8, UpSame, OpenIsCreated, NotesKnown
  <2> QED
    BY <1>4, <2>1, <2>2
<1>14. \A l \in Sess : HostMoves(l)
  BY HostSame, QuietMoves
<1>15. \A r \in Nat : Once(up', OpensOf(r))
  BY UpOnce
<1> QED
  BY <1>8, <1>12, <1>13, <1>14, <1>15, TurnStep

LEMMA LocalSocketStream ==
  ASSUME StreamIInv, LoopInv', NEW i \in Socks, LocalSocket(i)
  PROVE  StreamIInv'
<1> DEFINE Y == SocketEvent(i)
<1>1. /\ sk[i] \in Sockets /\ down \in [Sess -> Seq(Packets)] /\ Sound(sk[i])
      /\ sk[i].ev # {} /\ OneTurn(i) /\ SocketOf(sk[i])
  BY StreamParts DEF LoopInv, SoundInv, LocalSocket
<1>2. Y \in Calls /\ EventOutcome(sk[i], i, Y)
  BY <1>1, SocketEventDoes
<1>3. sk' = [sk EXCEPT ![i] = Y.s] /\ down' = Y.down
  BY DEF LocalSocket, Return
<1>4. up' = up /\ host' = host /\ sent' = sent
  BY DEF LocalSocket
<1> HIDE DEF Y
<1>5. sk'[i] = Y.s /\ \A j \in Socks : j # i => sk'[j] = sk[j]
  <2>1. Y.s \in Sockets
    BY <1>2, CallType
  <2> QED
    BY <1>3, <2>1, StreamParts, OneSocket
<1>6. Created(i)
  BY <1>1 DEF Created, Sound, Sane, Alive
<1>7. CASE Fades(sk[i], Y.s) /\ More(down, Y.down, Notes(sk[i].rid))
  <2>1. Stays(sk[i], sk'[i]) /\ SocketOf(sk'[i])
    BY <1>1, <1>5, <1>7, FadesStays
  <2>2. More(down, down', Notes(sk[i].rid))
    BY <1>3, <1>7
  <2> QED
    BY <1>4, <1>5, <1>6, <2>1, <2>2, SocketQuiet
<1>8. CASE Moves(sk[i], Y.s) /\ Y.s.st # "open" /\ More(down, Y.down, Notes(sk[i].rid))
  <2>1. Stays(sk[i], sk'[i]) /\ SocketOf(sk'[i])
    BY <1>1, <1>5, <1>8, MovesStays
  <2>2. More(down, down', Notes(sk[i].rid))
    BY <1>3, <1>8
  <2> QED
    BY <1>4, <1>5, <1>6, <2>1, <2>2, SocketQuiet
<1>9. CASE /\ Moves(sk[i], Y.s) /\ sk[i].st = "open" /\ sk[i].q # <<>>
           /\ More(Acked(down, sk[i], i), Y.down, Notes(sk[i].rid))
  <2>1. Moves(sk[i], sk'[i]) /\ More(Acked(down, sk[i], i), down', Notes(sk[i].rid))
    BY <1>3, <1>5, <1>9
  <2> QED
    BY <1>4, <1>5, <1>9, <2>1, SocketAcksStream
<1>10. ~(Len(sk[i].q) > 1)
  <2>1. Len(sk[i].q) \in Nat
    BY <1>1, SocketType, LenType
  <2> QED
    BY <1>1, <2>1, SMTT(60) DEF OneTurn
<1> QED
  BY <1>2, <1>7, <1>8, <1>9, <1>10 DEF EventOutcome

=============================================================================
