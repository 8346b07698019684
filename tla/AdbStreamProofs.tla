-------------------------- MODULE AdbStreamProofs ---------------------------
(***************************************************************************)
(* Proof that minadbd keeps a stream: the service gets every packet once   *)
(* and in order, and each is acknowledged once, when its data has left the *)
(* queue of the local socket.                                              *)
(*                                                                         *)
(* The argument follows the right to send the next packet of a stream.  It *)
(* is with the host, or in a WRTE on its way to the event loop, or in the  *)
(* queue of the local socket, or in an OKAY on its way to the host, and in *)
(* one of these places only.  That needs the identities of streams to be   *)
(* kept apart: an id of a local socket and the number the host gave its    *)
(* end name the same stream wherever both appear, also when the input      *)
(* thread of an old session writes to the cable of a new one.              *)
(***************************************************************************)
EXTENDS AdbStreamSteps

(* A leaf that names no prover is for Zenon; the ones that need arithmetic *)
(* or the theory of functions and records name SMT.                        *)
USE ZenonT(60)

-----------------------------------------------------------------------------
(* What the hosts do.                                                      *)

(* A host that takes no turn and opens no stream.                          *)
Calm(g, h) ==
  /\ h.rid = g.rid /\ (HostSane(g) => HostSane(h))
  /\ Talks(h) => h.lid = g.lid /\ Talks(g)
  /\ \A i : Turn(h, i) => Turn(g, i)
  /\ Streams(h) => Streams(g) /\ h.sent = g.sent

LEMMA CalmSame ==
  ASSUME NEW g \in Hosts
  PROVE  Calm(g, g) /\ Calm(g, [g EXCEPT !.online = TRUE])
         /\ [g EXCEPT !.online = TRUE].strm = g.strm
  BY SMTT(60) DEF Hosts, Calm, HostSane, Talks, Turn, Streams

LEMMA CalmCloses ==
  ASSUME NEW g \in Hosts
  PROVE  Calm(g, [g EXCEPT !.strm = "closed"])
  BY SMTT(60) DEF Hosts, Calm, HostSane, Talks, Turn, Streams

LEMMA CalmAcks ==
  ASSUME NEW g \in Hosts, g.owed
  PROVE  /\ Calm(g, [g EXCEPT !.owed = FALSE])
         /\ [g EXCEPT !.owed = FALSE].strm = g.strm
  BY SMTT(60) DEF Hosts, Calm, HostSane, Talks, Turn, Streams

LEMMA CalmOwes ==
  ASSUME NEW g \in Hosts, g.strm = "open"
  PROVE  /\ Calm(g, [g EXCEPT !.owed = TRUE])
         /\ [g EXCEPT !.owed = TRUE].strm = g.strm
  BY SMTT(60) DEF Hosts, Calm, HostSane, Talks, Turn, Streams

LEMMA CalmQuiet ==
  ASSUME StreamIInv, NEW k \in Sess, Calm(host[k], host'[k]),
         host'[k].strm = host[k].strm \/ Clear(up', OpensOf(host[k].rid))
  PROVE  HostQuiet(k)
<1>1. HostSane(host[k])
  BY StreamParts DEF HostInv
<1> QED
  BY <1>1 DEF Calm, HostQuiet

LEMMA OneHost ==
  ASSUME StreamIInv, NEW k \in Sess, NEW h \in Hosts, host' = [host EXCEPT ![k] = h]
  PROVE  host'[k] = h /\ \A l \in Sess : l # k => host'[l] = host[l]
<1>1. host \in [Sess -> Hosts]
  BY StreamParts DEF AdbTypeOK
<1> QED
  BY <1>1

(* The other hosts, when one acts.                                         *)
LEMMA OtherHosts ==
  ASSUME StreamIInv, NEW k \in Sess, HostQuiet(k),
         \A l \in Sess : l # k => host'[l] = host[l]
  PROVE  \A l \in Sess : HostQuiet(l)
<1>1. ASSUME NEW l \in Sess, l # k
      PROVE  HostQuiet(l)
  <2>1. Calm(host[l], host'[l]) /\ host'[l].strm = host[l].strm
    BY <1>1, StreamParts, CalmSame
  <2> QED
    BY <2>1, CalmQuiet
<1> QED
  BY <1>1

(* A host sends a packet that hands on no turn.                            *)
LEMMA HostSendsQuietly ==
  ASSUME StreamIInv, LoopInv', NEW k \in Sess, OutputRead(k),
         NEW p \in Packets, NEW h \in Hosts, HostSends(k, p, h), HostQuiet(k),
         p.cmd \notin {"OPEN", "WRTE"}, Addressed(p) => Local(k, p)
  PROVE  StreamIInv'
<1>1. sk' = sk /\ down' = down /\ sent' = sent + 1 /\ sent \in Nat
  BY StreamParts DEF OutputRead
<1>2. SentGrows
  BY <1>1, SMTT(60) DEF SentGrows
<1>3. UpQuiet
  <2>1. Puts(up, up', k, p)
    BY DEF HostSends, Puts
  <2> QED
    BY <2>1, UpAppend
<1>4. \A l \in Sess : HostQuiet(l)
  <2>1. host' = [host EXCEPT ![k] = h]
    BY DEF HostSends
  <2>2. \A l \in Sess : l # k => host'[l] = host[l]
    BY <2>1, OneHost
  <2> QED
    BY <2>2, OtherHosts
<1>5. SkQuiet
  BY <1>1, StreamParts, SameFades, SkFades
<1>6. DownQuiet
  BY <1>1, DownSame
<1> QED
  BY <1>2, <1>3, <1>4, <1>5, <1>6, QuietStep

(* What a host that talks says of its stream is true.                      *)
LEMMA TalksLocal ==
  ASSUME StreamIInv, NEW k \in Sess, Talks(host[k]), NEW p,
         p.a0 = host[k].rid, p.a1 = host[k].lid
  PROVE  Local(k, p) /\ host[k].lid \in Socks /\ Clear(up, OpensOf(host[k].rid))
<1>1. Created(host[k].lid) /\ sk[host[k].lid].rid = host[k].rid
  BY StreamParts DEF HostInv
<1>2. host[k].lid \in Socks
  BY <1>1 DEF Created
<1>3. sk[host[k].lid].peer \in {0, k}
  BY <1>1, <1>2, StreamParts DEF Joined
<1>4. Clear(up, OpensOf(sk[host[k].lid].rid))
  BY <1>1, <1>2, StreamParts DEF SockIds
<1> QED
  BY <1>1, <1>2, <1>3, <1>4 DEF Local

LEMMA HostNats ==
  ASSUME StreamIInv, NEW k \in Sess
  PROVE  /\ host[k].cnxn \in Nat /\ host[k].rid \in Nat /\ host[k].lid \in Nat
         /\ host[k].sent \in Nat /\ host[k].cnxn + 1 \in Nat /\ host[k].sent + 1 \in Nat
         /\ sent \in Nat /\ sent + 1 \in Nat
<1>1. host[k] \in Hosts /\ sent \in Nat
  BY StreamParts
<1> QED
  BY <1>1, SMTT(60) DEF Hosts

IsPkt(p, c, a, b, d) ==
  p \in Packets /\ p.cmd = c /\ p.a0 = a /\ p.a1 = b /\ p.data = d

LEMMA PktIs ==
  ASSUME NEW c \in {"SYNC", "CNXN", "OPEN", "OKAY", "CLSE", "WRTE"},
         NEW a \in Nat, NEW b \in Nat, NEW d \in Nat
  PROVE  IsPkt(Pkt(c, a, b, d), c, a, b, d)
<1>1. Pkt(c, a, b, d) \in Packets
  BY SMTT(60) DEF Pkt, Packets
<1>2. /\ Pkt(c, a, b, d).cmd = c /\ Pkt(c, a, b, d).a0 = a
      /\ Pkt(c, a, b, d).a1 = b /\ Pkt(c, a, b, d).data = d
  BY DEF Pkt
<1> QED
  BY <1>1, <1>2 DEF IsPkt

(* A host that has just connected.                                         *)
LEMMA NewHost ==
  ASSUME NEW n \in Nat, NEW h, h = [NoHost EXCEPT !.cnxn = n]
  PROVE  /\ h \in Hosts /\ h.rid = 0 /\ HostSane(h) /\ ~Talks(h) /\ ~Streams(h)
         /\ \A i : ~Turn(h, i)
<1>1. h \in Hosts
  <2>1. NoHost \in Hosts
    BY SMTT(60) DEF NoHost, Hosts
  <2> QED
    BY <2>1 DEF Hosts
<1>2. h.rid = 0 /\ h.strm = "none" /\ h.sent = 0 /\ ~h.wait /\ ~h.owed
  BY DEF NoHost
<1> HIDE DEF NoHost
<1> QED
  BY <1>1, <1>2 DEF HostSane, Talks, Streams, Turn

LEMMA HostConnectsStream ==
  ASSUME StreamIInv, LoopInv', NEW k \in Sess, OutputRead(k), HostConnects(k)
  PROVE  StreamIInv'
<1>1. PICK p \in Packets : p = Pkt("CNXN", 0, 0, 0) /\ p.cmd = "CNXN"
  <2>1. 0 \in Nat
    BY SMTT(60)
  <2>2. IsPkt(Pkt("CNXN", 0, 0, 0), "CNXN", 0, 0, 0)
    BY <2>1, PktIs
  <2> QED
    BY <2>2 DEF IsPkt
<1>2. PICK n \in Nat : n = host[k].cnxn + 1
  BY HostNats
<1>3. PICK h : h = [NoHost EXCEPT !.cnxn = n]
  OBVIOUS
<1>4. HostSends(k, p, h)
  BY <1>1, <1>2, <1>3 DEF HostConnects
<1>5. /\ h \in Hosts /\ h.rid = 0 /\ HostSane(h) /\ ~Talks(h) /\ ~Streams(h)
      /\ \A i : ~Turn(h, i)
  BY <1>3, NewHost
<1>6. host'[k] = h
  BY <1>4, <1>5, OneHost DEF HostSends
<1>7. HostQuiet(k)
  BY <1>5, <1>6 DEF HostQuiet
<1> QED
  BY <1>1, <1>4, <1>5, <1>7, HostSendsQuietly DEF Addressed

LEMMA HostAcksStream ==
  ASSUME StreamIInv, LoopInv', NEW k \in Sess, OutputRead(k), HostAcks(k)
  PROVE  StreamIInv'
<1>1. PICK p \in Packets : /\ p = Pkt("OKAY", host[k].rid, host[k].lid, 0)
                           /\ p.cmd = "OKAY" /\ p.a0 = host[k].rid /\ p.a1 = host[k].lid
  <2>1. host[k].rid \in Nat /\ host[k].lid \in Nat /\ 0 \in Nat
    BY HostNats, SMTT(60)
  <2>2. IsPkt(Pkt("OKAY", host[k].rid, host[k].lid, 0),
              "OKAY", host[k].rid, host[k].lid, 0)
    BY <2>1, PktIs
  <2> QED
    BY <2>2 DEF IsPkt
<1>2. host[k] \in Hosts /\ host[k].owed /\ Talks(host[k])
  BY StreamParts DEF HostAcks, Talks
<1>3. PICK h \in Hosts : h = [host[k] EXCEPT !.owed = FALSE]
  BY <1>2 DEF Hosts
<1>4. HostSends(k, p, h)
  BY <1>1, <1>3 DEF HostAcks
<1>5. host'[k] = h
  BY <1>4, OneHost DEF HostSends
<1>6. HostQuiet(k)
  BY <1>2, <1>3, <1>5, CalmAcks, CalmQuiet
<1>7. Local(k, p)
  BY <1>1, <1>2, TalksLocal
<1> QED
  BY <1>1, <1>4, <1>6, <1>7, HostSendsQuietly

LEMMA HostClosesStream ==
  ASSUME StreamIInv, LoopInv', NEW k \in Sess, OutputRead(k), HostCloses(k)
  PROVE  StreamIInv'
<1>1. PICK p \in Packets : /\ p = Pkt("CLSE", host[k].rid, host[k].lid, 0)
                           /\ p.cmd = "CLSE" /\ p.a0 = host[k].rid /\ p.a1 = host[k].lid
  <2>1. host[k].rid \in Nat /\ host[k].lid \in Nat /\ 0 \in Nat
    BY HostNats, SMTT(60)
  <2>2. IsPkt(Pkt("CLSE", host[k].rid, host[k].lid, 0),
              "CLSE", host[k].rid, host[k].lid, 0)
    BY <2>1, PktIs
  <2> QED
    BY <2>2 DEF IsPkt
<1>2. host[k] \in Hosts /\ Talks(host[k])
  BY StreamParts DEF HostCloses, Talks
<1>3. PICK h \in Hosts : h = [host[k] EXCEPT !.strm = "closed"]
  BY <1>2 DEF Hosts
<1>4. HostSends(k, p, h)
  BY <1>1, <1>3 DEF HostCloses
<1>5. host'[k] = h
  BY <1>4, OneHost DEF HostSends
<1>6. Local(k, p) /\ Clear(up, OpensOf(host[k].rid))
  BY <1>1, <1>2, TalksLocal
<1>7. Clear(up', OpensOf(host[k].rid))
  <2>1. Puts(up, up', k, p)
    BY <1>4 DEF HostSends, Puts
  <2>2. UpQuiet
    BY <1>1, <1>6, <2>1, UpAppend
  <2>3. NoNewOpens
    BY <2>2 DEF UpQuiet, NoNewOpens
  <2> QED
    BY <1>6, <2>3, AnsweredKept
<1>8. HostQuiet(k)
  BY <1>2, <1>3, <1>5, <1>7, CalmCloses, CalmQuiet
<1> QED
  BY <1>1, <1>4, <1>6, <1>8, HostSendsQuietly

(* The host sends the next packet of its stream: the turn was its own and  *)
(* is in the WRTE now.                                                     *)
Writing(g, h) ==
  /\ g \in Hosts /\ g.strm = "open" /\ ~g.wait
  /\ h = [g EXCEPT !.sent = @ + 1, !.wait = TRUE]

LEMMA WritesHost ==
  ASSUME NEW g, NEW h, Writing(g, h)
  PROVE  /\ h \in Hosts /\ h.rid = g.rid /\ h.lid = g.lid /\ h.strm = "open"
         /\ h.sent = g.sent + 1 /\ Talks(g) /\ Streams(g) /\ Turn(g, g.lid)
         /\ HostSane(g) => HostSane(h)
         /\ \A j : ~Turn(h, j)
<1>0. g \in Hosts
  BY DEF Writing
<1>1. g.sent \in Nat /\ g.sent + 1 \in Nat
  BY <1>0, SMTT(60) DEF Hosts
<1>2. h \in Hosts
  BY <1>0, <1>1 DEF Hosts, Writing
<1>3. /\ h.rid = g.rid /\ h.lid = g.lid /\ h.strm = "open" /\ h.sent = g.sent + 1
      /\ h.wait /\ ~g.wait /\ g.strm = "open"
  BY SMTT(60) DEF Hosts, Writing
<1> QED
  BY <1>2, <1>3 DEF Talks, Streams, Turn, HostSane

(* One host at most has the turn of a socket.                              *)
LEMMA OneHostTurn ==
  ASSUME StreamIInv, NEW k \in Sess, NEW i, Turn(host[k], i)
  PROVE  /\ i \in Socks /\ Created(i) /\ sk[i].rid = host[k].rid /\ host[k].lid = i
         /\ host[k].rid # 0
         /\ NoWrite(i) /\ NoAck(i) /\ sk[i].q = <<>>
         /\ \A l \in Sess : host[l].rid = host[k].rid => l = k
         /\ \A l \in Sess : Turn(host[l], i) => l = k
<1>1. Talks(host[k]) /\ host[k].lid = i /\ host[k].strm = "open"
  BY DEF Turn, Talks
<1>2. Created(i) /\ sk[i].rid = host[k].rid /\ i \in Socks /\ host[k].rid # 0
  BY <1>1, StreamParts DEF HostInv, Created, HostSane
<1>3. NoWrite(i) /\ NoAck(i) /\ sk[i].q = <<>>
  <2>1. ~NoHostTurn(i)
    BY DEF NoHostTurn
  <2>2. OneTurn(i)
    BY <1>2, StreamParts
  <2> QED
    BY <2>1, <2>2 DEF OneTurn
<1>4. \A l \in Sess : host[l].rid = host[k].rid => l = k
  BY <1>2, StreamParts DEF HostIds
<1>5. ASSUME NEW l \in Sess, Turn(host[l], i)
      PROVE  l = k
  <2>1. Talks(host[l]) /\ host[l].lid = i
    BY <1>5 DEF Turn, Talks
  <2>2. sk[i].rid = host[l].rid
    BY <2>1, StreamParts DEF HostInv
  <2> QED
    BY <1>2, <1>4, <2>2
<1> QED
  BY <1>1, <1>2, <1>3, <1>4, <1>5

LEMMA HostWritesStream ==
  ASSUME StreamIInv, LoopInv', NEW k \in Sess, OutputRead(k), HostWrites(k)
  PROVE  StreamIInv'
<1>0. /\ sk' = sk /\ down' = down /\ SentGrows /\ AllSameId
      /\ host[k] \in Hosts /\ host[k].strm = "open" /\ ~host[k].wait
  <2>1. sk' = sk /\ down' = down /\ sent' = sent + 1 /\ sent \in Nat
    BY StreamParts DEF OutputRead
  <2>2. SentGrows
    BY <2>1, SMTT(60) DEF SentGrows
  <2>3. AllSameId
    BY <2>1 DEF AllSameId, SameId
  <2> QED
    BY <2>1, <2>2, <2>3, StreamParts DEF HostWrites
<1>1. PICK p \in Packets :
        /\ p = Pkt("WRTE", host[k].rid, host[k].lid, host[k].sent + 1)
        /\ p.cmd = "WRTE" /\ p.a0 = host[k].rid /\ p.a1 = host[k].lid
        /\ p.data = host[k].sent + 1
  <2>1. host[k].rid \in Nat /\ host[k].lid \in Nat /\ host[k].sent + 1 \in Nat
    BY HostNats
  <2>2. IsPkt(Pkt("WRTE", host[k].rid, host[k].lid, host[k].sent + 1),
              "WRTE", host[k].rid, host[k].lid, host[k].sent + 1)
    BY <2>1, PktIs
  <2> QED
    BY <2>2 DEF IsPkt
<1>2. PICK h : h = [host[k] EXCEPT !.sent = @ + 1, !.wait = TRUE]
  OBVIOUS
<1>3. /\ h \in Hosts /\ h.rid = host[k].rid /\ h.lid = host[k].lid /\ h.strm = "open"
      /\ h.sent = host[k].sent + 1 /\ Talks(host[k]) /\ Streams(host[k])
      /\ Turn(host[k], host[k].lid)
      /\ HostSane(host[k]) => HostSane(h)
      /\ \A j : ~Turn(h, j)
  <2>1. Writing(host[k], h)
    BY <1>0, <1>2 DEF Writing
  <2> QED
    BY <2>1, WritesHost
<1>4. HostSends(k, p, h)
  BY <1>1, <1>2 DEF HostWrites
<1>5. host'[k] = h /\ \A l \in Sess : l # k => host'[l] = host[l]
  BY <1>3, <1>4, OneHost DEF HostSends
<1>6. PICK i : i = host[k].lid
  OBVIOUS
<1>7. /\ i \in Socks /\ Created(i) /\ sk[i].rid = host[k].rid /\ host[k].rid # 0
      /\ NoWrite(i) /\ NoAck(i) /\ sk[i].q = <<>>
      /\ \A l \in Sess : host[l].rid = host[k].rid => l = k
      /\ \A l \in Sess : Turn(host[l], i) => l = k
  <2>1. Turn(host[k], i)
    BY <1>3, <1>6
  <2> QED
    BY <2>1, OneHostTurn
<1>8. up \in [Sess -> Seq(Packets)] /\ Puts(up, up', k, p)
  BY <1>4, StreamParts DEF HostSends, Puts
<1>9. Extra(up, up', k, p)
  BY <1>8, HasAppend
<1>10. \A r \in Nat : Once(up', OpensOf(r))
  <2>1. ASSUME NEW r \in Nat
        PROVE  Once(up', OpensOf(r))
    <3>1. p \notin OpensOf(r) /\ Once(up, OpensOf(r))
      BY <1>1, UpOnce DEF OpensOf
    <3> QED
      BY <1>8, <3>1, OnceAppend
  <2> QED
    BY <2>1
<1>11. ASSUME NEW j \in Socks
       PROVE  Once(up', WrtesTo(j))
  <2>1. p \in WrtesTo(j) => j = i
    BY <1>1, <1>6 DEF WrtesTo
  <2>2. Once(up, WrtesTo(j)) /\ (p \in WrtesTo(j) => Clear(up, WrtesTo(j)))
    BY <1>7, <2>1, UpOnce DEF NoWrite
  <2> QED
    BY <1>8, <2>2, OnceAppend
<1>12. NoNewOpens
  BY <1>1, <1>9 DEF NoNewOpens, Extra
<1>13. \A l \in Sess, w \in Packets :
         Has(up', l, w) /\ Addressed(w) => Has(up, l, w) \/ Local(l, w)
  <2>1. Local(k, p)
    BY <1>1, <1>3, TalksLocal
  <2> QED
    BY <1>9, <2>1 DEF Extra
<1>14. \A l \in Sess : HostMoves(l)
  <2>1. HostMoves(k)
    <3>1. HostSane(host[k])
      BY StreamParts DEF HostInv
    <3> QED
      BY <1>0, <1>3, <1>5, <3>1 DEF HostMoves
  <2>2. ASSUME NEW l \in Sess, l # k
        PROVE  HostMoves(l)
    <3>1. Calm(host[l], host'[l]) /\ host'[l].strm = host[l].strm
      BY <1>5, <2>2, StreamParts, CalmSame
    <3> QED
      BY <3>1, CalmQuiet, QuietMoves
  <2> QED
    BY <2>1, <2>2
<1>15. OneTurn(i)'
  <2>1. Once(up', WrtesTo(i)) /\ Once(down', OkaysFrom(i))
    BY <1>0, <1>7, <1>11, UpOnce
  <2>2. NoAck(i)'
    BY <1>0, <1>7 DEF NoAck
  <2>3. NoHostTurn(i)'
    BY <1>3, <1>5, <1>7 DEF NoHostTurn
  <2>4. sk'[i].q = <<>> /\ Len(sk'[i].q) <= 1
    BY <1>0, <1>7, StreamParts DEF OneTurn
  <2> QED
    BY <2>1, <2>2, <2>3, <2>4 DEF OneTurn
<1>16. Numbered(i)'
  <2>1. ~NoWrite(i)'
    <3>1. Has(up', k, p) /\ p \in WrtesTo(i)
      BY <1>1, <1>6, <1>9 DEF Extra, WrtesTo
    <3> QED
      BY <3>1 DEF NoWrite, Clear
  <2>2. ASSUME sk[i].st = "open"
        PROVE  host[k].sent = Taken(sk[i])
    <3>1. Numbered(i)
      BY <1>7, StreamParts
    <3> QED
      BY <1>3, <1>7, <2>2, <3>1 DEF Numbered
  <2>3. ASSUME NEW l \in Sess, NEW w \in WrtesTo(i), Has(up', l, w)
        PROVE  w = p
    <3>1. ~Has(up, l, w)
      BY <1>7 DEF NoWrite, Clear
    <3> QED
      BY <1>9, <2>3, <3>1 DEF Extra
  <2>4. ASSUME NEW l \in Sess, host'[l].rid = sk'[i].rid
        PROVE  host'[l].sent = host[k].sent + 1
    <3>1. host'[l].rid = host[l].rid
      BY <1>3, <1>5
    <3>2. l = k
      BY <1>0, <1>7, <2>4, <3>1
    <3> QED
      BY <1>3, <1>5, <3>2
  <2> QED
    BY <1>0, <1>1, <2>1, <2>2, <2>3, <2>4 DEF Numbered
<1>17. ASSUME NEW j \in Socks, j # i
       PROVE  OneTurn(j)' /\ Numbered(j)' /\ SocketOf(sk'[j])
  <2>1. OneTurn(j) /\ Numbered(j) /\ Stays(sk[j], sk'[j]) /\ SocketOf(sk'[j])
    BY <1>0, StreamParts, SameStays
  <2>2. Once(up', WrtesTo(j)) /\ Once(down', OkaysFrom(j))
    BY <1>0, <1>11, UpOnce
  <2>3. p \notin WrtesTo(j)
    BY <1>1, <1>6, <1>17 DEF WrtesTo
  <2>4. /\ \A l \in Sess : \A w \in WrtesTo(j) : Has(up', l, w) => Has(up, l, w)
        /\ NoWrite(j)' => NoWrite(j)
    BY <1>9, <2>3 DEF Extra, NoWrite, Clear
  <2>5. \A l \in Sess : \A w \in OkaysFrom(j) : Has(down', l, w) => Has(down, l, w)
    BY <1>0
  <2>6. \A l \in Sess : Turn(host'[l], j) => Turn(host[l], j)
    BY <1>3, <1>5
  <2>7. ASSUME NEW l \in Sess, sk'[j].st = "open", host'[l].rid = sk'[j].rid,
               Streams(host'[l])
        PROVE  host[l].rid = sk[j].rid /\ Streams(host[l]) /\ host'[l].sent = host[l].sent
    <3>1. Created(j)
      BY <1>0, <2>7 DEF Created
    <3>2. sk[j].rid # sk[i].rid
      BY <1>7, <1>17, <3>1, StreamParts DEF SockIds
    <3>3. l # k
      BY <1>0, <1>3, <1>5, <1>7, <2>7, <3>2
    <3> QED
      BY <1>0, <1>5, <2>7, <3>3
  <2> QED
    BY <2>1, <2>2, <2>4, <2>5, <2>6, <2>7, TurnKept
<1>18. TurnInv'
  <2>1. SocketOf(sk'[i])
    BY <1>0, <1>7, StreamParts
  <2> QED
    BY <1>15, <1>16, <1>17, <2>1 DEF TurnInv
<1>19. \A l \in Sess, w \in Packets : Has(down', l, w) => Has(down, l, w) \/ Known(w)'
  BY <1>0
<1> QED
  BY <1>0, <1>10, <1>12, <1>13, <1>14, <1>18, <1>19, TurnStep

(* The host opens a stream: its number is new.                             *)
Opening(g, h, r) ==
  g \in Hosts /\ g.strm = "none" /\ h = [g EXCEPT !.strm = "opening", !.rid = r]

LEMMA OpensHost ==
  ASSUME NEW g, NEW h, NEW r \in Nat, r # 0, Opening(g, h, r), HostSane(g)
  PROVE  /\ h \in Hosts /\ h.rid = r /\ h.strm = "opening" /\ HostSane(h) /\ ~Talks(h)
         /\ \A j : ~Turn(h, j)
<1>0. g \in Hosts
  BY DEF Opening
<1>1. h \in Hosts
  BY <1>0 DEF Hosts, Opening
<1>2. /\ h.rid = r /\ h.strm = "opening" /\ h.sent = 0 /\ ~h.wait /\ ~h.owed
  BY SMTT(60) DEF Hosts, Opening, HostSane
<1> QED
  BY <1>1, <1>2 DEF Talks, Turn, HostSane

LEMMA NewNumber ==
  ASSUME NEW n \in Nat
  PROVE  /\ n + 1 \in Nat /\ n + 1 # 0 /\ n + 1 \in 1..(n + 1)
         /\ \A r \in 1..n : r \in 1..(n + 1) /\ r # n + 1 /\ r \in Nat
         /\ \A r \in Nat : r <= n => r <= n + 1 /\ r # n + 1
         /\ n + 1 <= n + 1
  BY SMTT(60)

LEMMA HostOpensStream ==
  ASSUME StreamIInv, LoopInv', NEW k \in Sess, OutputRead(k), HostOpens(k)
  PROVE  StreamIInv'
<1>0. /\ sk' = sk /\ down' = down /\ sent' = sent + 1 /\ sent \in Nat
      /\ host[k] \in Hosts /\ host[k].strm = "none" /\ HostSane(host[k])
  BY StreamParts DEF OutputRead, HostOpens, HostInv
<1>1. PICK r \in Nat :
        /\ r = sent + 1 /\ r # 0 /\ r \in 1..sent' /\ r <= sent'
        /\ \A n \in 1..sent : n \in 1..sent' /\ n # r /\ n \in Nat
        /\ \A n \in Nat : n <= sent => n <= sent' /\ n # r
  BY <1>0, NewNumber
<1>2. PICK p \in Packets : p = Pkt("OPEN", r, 0, 0) /\ p.cmd = "OPEN" /\ p.a0 = r
  <2>1. 0 \in Nat
    BY SMTT(60)
  <2>2. IsPkt(Pkt("OPEN", r, 0, 0), "OPEN", r, 0, 0)
    BY <2>1, PktIs
  <2> QED
    BY <2>2 DEF IsPkt
<1>3. PICK h : h = [host[k] EXCEPT !.strm = "opening", !.rid = r]
  OBVIOUS
<1>4. /\ h \in Hosts /\ h.rid = r /\ h.strm = "opening" /\ HostSane(h) /\ ~Talks(h)
      /\ \A j : ~Turn(h, j)
  <2>1. Opening(host[k], h, r)
    BY <1>0, <1>3 DEF Opening
  <2> QED
    BY <1>0, <1>1, <2>1, OpensHost
<1>5. HostSends(k, p, h)
  BY <1>1, <1>2, <1>3 DEF HostOpens
<1>6. host'[k] = h /\ \A l \in Sess : l # k => host'[l] = host[l]
  BY <1>4, <1>5, OneHost DEF HostSends
<1>7. \A l \in Sess : host[l].rid \in Nat /\ host[l].rid <= sent
  BY HostNats, StreamParts DEF HostIds
<1>8. up \in [Sess -> Seq(Packets)] /\ Puts(up, up', k, p)
  BY <1>5, StreamParts DEF HostSends, Puts
<1>9. Extra(up, up', k, p)
  BY <1>8, HasAppend
<1>10. \A i : Created(i)' <=> Created(i)
  BY <1>0 DEF Created
<1>11. ASSUME NEW n \in 1..sent, Clear(up, OpensOf(n))
       PROVE  Clear(up', OpensOf(n))
  <2>1. p \notin OpensOf(n)
    BY <1>1, <1>2 DEF OpensOf
  <2> QED
    BY <1>9, <1>11, <2>1 DEF Extra, Clear
<1>12. \A j \in Socks : Created(j) => /\ sk[j].rid \in 1..sent /\ sk[j].rid # r
                                      /\ Clear(up', OpensOf(sk[j].rid))
  BY <1>1, <1>11, StreamParts DEF SockIds
<1>13. SockIds'
  BY <1>0, <1>1, <1>10, <1>12, StreamParts DEF SockIds
<1>14. HostIds'
  <2>1. \A l \in Sess : host'[l].rid <= sent'
    BY <1>1, <1>4, <1>6, <1>7
  <2>2. ASSUME NEW l \in Sess, NEW m \in Sess, host'[l].rid # 0, host'[l].rid = host'[m].rid
        PROVE  l = m
    <3>1. CASE l # k /\ m # k
      BY <1>6, <2>2, <3>1, StreamParts DEF HostIds
    <3>2. CASE l = k \/ m = k
      BY <1>1, <1>4, <1>6, <1>7, <2>2, <3>2
    <3> QED
      BY <3>1, <3>2
  <2> QED
    BY <2>1, <2>2 DEF HostIds
<1>15. Joined'
  <2>1. ASSUME NEW j \in Socks, NEW l \in Sess, Created(j), sk[j].rid = host'[l].rid
        PROVE  sk[j].peer \in {0, l}
    <3>1. l # k
      BY <1>4, <1>6, <1>12, <2>1
    <3> QED
      BY <1>6, <2>1, <3>1, StreamParts DEF Joined
  <2> QED
    BY <1>0, <1>10, <2>1 DEF Joined
<1>16. OpenInv'
  <2>1. ASSUME NEW l \in Sess, NEW w \in Packets, Has(up, l, w), w.cmd = "OPEN"
        PROVE  /\ w.a0 \in 1..sent' /\ w.a0 # r
               /\ \A m \in Sess : host'[m].rid = w.a0 => m = l /\ host'[m].strm = "opening"
    <3>1. /\ w.a0 \in 1..sent
          /\ \A m \in Sess : host[m].rid = w.a0 => m = l /\ host[m].strm = "opening"
      BY <2>1, StreamParts DEF OpenInv
    <3>2. w.a0 \in 1..sent' /\ w.a0 # r
      BY <1>1, <3>1
    <3> QED
      BY <1>4, <1>6, <3>1, <3>2
  <2>2. \A m \in Sess : host'[m].rid = r => m = k /\ host'[m].strm = "opening"
    BY <1>1, <1>4, <1>6, <1>7
  <2>3. ASSUME NEW n \in Nat
        PROVE  Once(up', OpensOf(n))
    <3>1. Once(up, OpensOf(n))
      BY UpOnce
    <3>2. p \in OpensOf(n) => Clear(up, OpensOf(n))
      <4>1. SUFFICES ASSUME n = r, NEW l \in Sess, NEW w \in OpensOf(n), Has(up, l, w)
                     PROVE  FALSE
        BY <1>2 DEF OpensOf, Clear
      <4>2. w \in Packets /\ w.cmd = "OPEN" /\ w.a0 = r
        BY <4>1 DEF OpensOf
      <4> QED
        BY <2>1, <4>1, <4>2
    <3> QED
      BY <1>8, <3>1, <3>2, OnceAppend
  <2>4. \A l \in Sess, w \in Packets : Has(up', l, w) /\ w.cmd = "OPEN" =>
          /\ w.a0 \in 1..sent'
          /\ \A m \in Sess : host'[m].rid = w.a0 => m = l /\ host'[m].strm = "opening"
    <3>1. \A l \in Sess : \A w : Has(up', l, w) => Has(up, l, w) \/ (l = k /\ w = p)
      BY <1>9 DEF Extra
    <3>2. ASSUME NEW l \in Sess, NEW w \in Packets, Has(up', l, w), w.cmd = "OPEN"
          PROVE  /\ w.a0 \in 1..sent'
                 /\ \A m \in Sess :
                      host'[m].rid = w.a0 => m = l /\ host'[m].strm = "opening"
      <4>1. CASE Has(up, l, w)
        BY <2>1, <3>2, <4>1
      <4>2. CASE l = k /\ w = p
        <5>1. w.a0 = r
          BY <1>2, <4>2
        <5> QED
          BY <1>1, <2>2, <4>2, <5>1
      <4> QED
        BY <3>1, <3>2, <4>1, <4>2
    <3> QED
      BY <3>2
  <2> QED
    BY <2>3, <2>4 DEF OpenInv
<1>17. HostInv'
  <2>1. ASSUME NEW l \in Sess
        PROVE  HostSane(host'[l])
    BY <1>4, <1>6, StreamParts DEF HostInv
  <2>2. ASSUME NEW l \in Sess, Talks(host'[l])
        PROVE  Created(host[l].lid)' /\ sk'[host'[l].lid].rid = host'[l].rid
    <3>1. l # k
      BY <1>4, <1>6, <2>2
    <3>2. host'[l] = host[l] /\ Talks(host[l])
      BY <1>6, <2>2, <3>1
    <3>3. PICK j : j = host[l].lid /\ Created(j) /\ sk[j].rid = host[l].rid
      BY <3>2, StreamParts DEF HostInv
    <3>4. host'[l].lid = j /\ j \in Socks /\ sk[j].st # "none"
      BY <3>2, <3>3 DEF Created
    <3> QED
      BY <1>0, <3>2, <3>3, <3>4 DEF Created
  <2> QED
    BY <2>1, <2>2 DEF HostInv
<1>18. UpInv'
  <2>1. ASSUME NEW l \in Sess, NEW w \in Packets, Has(up', l, w), Addressed(w)
        PROVE  Local(l, w)'
    <3>1. w # p
      BY <1>2, <2>1 DEF Addressed
    <3>2. Has(up, l, w)
      BY <1>9, <2>1, <3>1 DEF Extra
    <3>3. Local(l, w)
      BY <2>1, <3>2, StreamParts DEF UpInv
    <3> QED
      BY <1>0, <1>10, <3>3 DEF Local
  <2> QED
    BY <2>1 DEF UpInv, Addressed
<1>19. DownInv'
  <2>1. ASSUME NEW l \in Sess, NEW w \in Packets, Has(down, l, w)
        PROVE  Known(w)'
    <3>1. Known(w)
      BY <2>1, StreamParts DEF DownInv
    <3>2. Addressed(w) => w.a1 \in 1..sent' /\ Clear(up', OpensOf(w.a1))
      BY <1>1, <1>11, <3>1 DEF Known
    <3>3. w.cmd = "OKAY" => Created(w.a0)' /\ sk'[w.a0].rid = w.a1
      BY <1>0, <1>10, <3>1 DEF Known
    <3> QED
      BY <3>2, <3>3 DEF Known, Addressed
  <2> QED
    BY <1>0, <2>1 DEF DownInv
<1>20. ASSUME NEW j \in Socks
       PROVE  OneTurn(j)' /\ Numbered(j)' /\ SocketOf(sk'[j])
  <2>1. OneTurn(j) /\ Numbered(j) /\ Stays(sk[j], sk'[j]) /\ SocketOf(sk'[j])
    BY <1>0, StreamParts, SameStays
  <2>2. p \notin WrtesTo(j)
    BY <1>2 DEF WrtesTo
  <2>3. Once(up, WrtesTo(j)) /\ Once(down', OkaysFrom(j))
    BY <1>0, UpOnce
  <2>4. Once(up', WrtesTo(j))
    BY <1>8, <2>2, <2>3, OnceAppend
  <2>5. /\ \A l \in Sess : \A w \in WrtesTo(j) : Has(up', l, w) => Has(up, l, w)
        /\ NoWrite(j)' => NoWrite(j)
    BY <1>9, <2>2 DEF Extra, NoWrite, Clear
  <2>6. \A l \in Sess : \A w \in OkaysFrom(j) : Has(down', l, w) => Has(down, l, w)
    BY <1>0
  <2>7. \A l \in Sess : Turn(host'[l], j) => Turn(host[l], j)
    BY <1>4, <1>6
  <2>8. ASSUME NEW l \in Sess, sk'[j].st = "open", host'[l].rid = sk'[j].rid,
               Streams(host'[l])
        PROVE  host[l].rid = sk[j].rid /\ Streams(host[l]) /\ host'[l].sent = host[l].sent
    <3>1. Created(j)
      BY <1>0, <2>8 DEF Created
    <3>2. l # k
      BY <1>0, <1>4, <1>6, <1>12, <2>8, <3>1
    <3> QED
      BY <1>0, <1>6, <2>8, <3>2
  <2> QED
    BY <2>1, <2>3, <2>4, <2>5, <2>6, <2>7, <2>8, TurnKept
<1>21. TurnInv'
  BY <1>20 DEF TurnInv
<1> QED
  BY <1>13, <1>14, <1>15, <1>16, <1>17, <1>18, <1>19, <1>21 DEF StreamIInv

LEMMA OutputReadStream ==
  ASSUME StreamIInv, LoopInv', NEW k \in Sess, OutputRead(k)
  PROVE  StreamIInv'
  BY HostConnectsStream, HostOpensStream, HostWritesStream, HostAcksStream,
     HostClosesStream DEF OutputRead

(* What a packet does to the host that reads it.                           *)
Answers(g, h, i) ==
  /\ h.rid = g.rid /\ h.lid = i /\ h.strm = "open" /\ h.sent = g.sent
  /\ Streams(g) /\ HostSane(h)
GetsOutcome(g, p, h) ==
  \/ Calm(g, h) /\ h.strm = g.strm
  \/ Calm(g, h) /\ p.cmd = "CLSE" /\ p.a1 = g.rid
  \/ p.cmd = "OKAY" /\ p.a1 = g.rid /\ g.strm = "opening" /\ Answers(g, h, p.a0)
  \/ p.cmd = "OKAY" /\ p.a1 = g.rid /\ g.strm = "open" /\ Answers(g, h, g.lid)

LEMMA AnswersOpen ==
  ASSUME NEW g \in Hosts, HostSane(g), g.strm = "opening", NEW i
  PROVE  Answers(g, [g EXCEPT !.strm = "open", !.lid = i], i)
  BY SMTT(60) DEF Hosts, HostSane, Answers, Streams

LEMMA AnswersReady ==
  ASSUME NEW g \in Hosts, HostSane(g), g.strm = "open"
  PROVE  Answers(g, [g EXCEPT !.wait = FALSE], g.lid)
  BY SMTT(60) DEF Hosts, HostSane, Answers, Streams

LEMMA HostGetsOutcome ==
  ASSUME NEW g \in Hosts, HostSane(g), NEW p \in Packets
  PROVE  HostGets(g, p) \in Hosts /\ GetsOutcome(g, p, HostGets(g, p))
<1>0. HostGets(g, p) \in Hosts
  BY HostGetsCases
<1>1. CASE p.cmd = "CNXN"
  <2>1. HostGets(g, p) = [g EXCEPT !.online = TRUE]
    BY <1>1 DEF HostGets
  <2> QED
    BY <1>0, <2>1, CalmSame DEF GetsOutcome
<1>2. CASE p.cmd = "OKAY" /\ p.a1 = g.rid /\ g.strm = "opening"
  <2>1. HostGets(g, p) = [g EXCEPT !.strm = "open", !.lid = p.a0]
    BY <1>2 DEF HostGets
  <2>2. Answers(g, HostGets(g, p), p.a0)
    BY <1>2, <2>1, AnswersOpen
  <2> QED
    BY <1>0, <1>2, <2>2 DEF GetsOutcome
<1>3. CASE p.cmd = "OKAY" /\ p.a1 = g.rid /\ g.strm = "open"
  <2>1. HostGets(g, p) = [g EXCEPT !.wait = FALSE]
    BY <1>3 DEF HostGets
  <2>2. Answers(g, HostGets(g, p), g.lid)
    BY <1>3, <2>1, AnswersReady
  <2> QED
    BY <1>0, <1>3, <2>2 DEF GetsOutcome
<1>4. CASE p.cmd = "WRTE" /\ p.a1 = g.rid /\ g.strm = "open"
  <2>1. HostGets(g, p) = [g EXCEPT !.owed = TRUE]
    BY <1>4 DEF HostGets
  <2> QED
    BY <1>0, <1>4, <2>1, CalmOwes DEF GetsOutcome
<1>5. CASE p.cmd = "CLSE" /\ p.a1 = g.rid
  <2>1. HostGets(g, p) = [g EXCEPT !.strm = "closed"]
    BY <1>5 DEF HostGets
  <2> QED
    BY <1>0, <1>5, <2>1, CalmCloses DEF GetsOutcome
<1>6. CASE /\ p.cmd # "CNXN" /\ ~(p.cmd = "OKAY" /\ p.a1 = g.rid /\ g.strm = "opening")
           /\ ~(p.cmd = "OKAY" /\ p.a1 = g.rid /\ g.strm = "open")
           /\ ~(p.cmd = "WRTE" /\ p.a1 = g.rid /\ g.strm = "open")
           /\ ~(p.cmd = "CLSE" /\ p.a1 = g.rid)
  <2>1. HostGets(g, p) = g
    BY <1>6 DEF HostGets
  <2> QED
    BY <1>0, <2>1, CalmSame DEF GetsOutcome
<1> QED
  BY <1>1, <1>2, <1>3, <1>4, <1>5, <1>6

(* The input thread takes a packet.                                        *)
LEMMA InputTaken ==
  ASSUME StreamIInv, NEW k \in Sess, InputPacket(k)
  PROVE  LET p == Head(down[k])
         IN /\ p \in Packets /\ Known(p)
            /\ \A l \in Sess : \A q : Has(down', l, q) => Has(down, l, q)
            /\ \A j \in Socks : Once(down', OkaysFrom(j))
            /\ \A j \in Socks : p \in OkaysFrom(j) => NoAck(j)' /\ ~NoAck(j)
            /\ sk' = sk /\ up' = up /\ sent' = sent
<1>1. down \in [Sess -> Seq(Packets)] /\ Takes(down, down', k)
  BY StreamParts DEF InputPacket, Takes
<1>2. /\ Has(down, k, Head(down[k])) /\ Head(down[k]) \in Packets
      /\ \A l \in Sess : \A q : Has(down', l, q) => Has(down, l, q)
  <2>1. /\ Has(down, k, Head(down[k]))
        /\ \A l \in Sess : \A q : Has(down, l, q) <=> Has(down', l, q) \/ (l = k /\ q = Head(down[k]))
    BY <1>1, HasTail
  <2>2. Head(down[k]) \in Packets
    BY <1>1, PairTail DEF Takes
  <2> QED
    BY <2>1, <2>2
<1>3. \A j \in Socks : /\ Once(down', OkaysFrom(j))
                       /\ Head(down[k]) \in OkaysFrom(j) => Clear(down', OkaysFrom(j))
  BY <1>1, UpOnce, OnceTail
<1>4. Known(Head(down[k]))
  BY <1>2, StreamParts DEF DownInv
<1>5. \A j \in Socks : Head(down[k]) \in OkaysFrom(j) => ~NoAck(j)
  BY <1>2 DEF NoAck, Clear
<1> QED
  BY <1>2, <1>3, <1>4, <1>5 DEF NoAck, InputPacket

LEMMA InputQuietly ==
  ASSUME StreamIInv, LoopInv', NEW k \in Sess, InputPacket(k),
         \A l \in Sess : HostQuiet(l)
  PROVE  StreamIInv'
<1>1. sk' = sk /\ up' = up /\ sent' = sent
  BY InputTaken
<1>2. SkQuiet /\ UpQuiet /\ SentGrows
  BY <1>1, StreamParts, SameFades, SkFades, UpSame, SentSame
<1>3. DownQuiet
  BY InputTaken DEF DownQuiet
<1> QED
  BY <1>2, <1>3, QuietStep

(* The OKAY of socket i gives the turn to the host that has its stream.    *)
LEMMA InputHandsTurn ==
  ASSUME StreamIInv, LoopInv', NEW k \in Sess, InputPacket(k), NEW u \in Sess, NEW i,
         Head(down[k]).cmd = "OKAY", Head(down[k]).a0 = i,
         Head(down[k]).a1 = host[u].rid, Answers(host[u], host'[u], i),
         \A l \in Sess : l # u => host'[l] = host[l]
  PROVE  StreamIInv'
<1>0. /\ Head(down[k]) \in Packets /\ Known(Head(down[k]))
      /\ \A l \in Sess : \A q : Has(down', l, q) => Has(down, l, q)
      /\ \A j \in Socks : Once(down', OkaysFrom(j))
      /\ \A j \in Socks : Head(down[k]) \in OkaysFrom(j) => NoAck(j)' /\ ~NoAck(j)
      /\ sk' = sk /\ up' = up /\ sent' = sent
  BY InputTaken
<1>1. /\ Created(i) /\ i \in Socks /\ sk[i].rid = host[u].rid
      /\ Clear(up, OpensOf(host[u].rid))
  BY <1>0 DEF Known, Created, Addressed
<1>2. NoAck(i)' /\ ~NoAck(i)
  BY <1>0, <1>1 DEF OkaysFrom
<1>3. NoWrite(i) /\ sk[i].q = <<>>
  <2>1. OneTurn(i)
    BY <1>1, StreamParts
  <2> QED
    BY <1>2, <2>1 DEF OneTurn
<1>4. /\ host'[u].rid = host[u].rid /\ host'[u].lid = i /\ host'[u].strm = "open"
      /\ host'[u].sent = host[u].sent /\ Streams(host[u]) /\ HostSane(host'[u])
  BY DEF Answers
<1>5. \A l \in Sess : host'[l].rid = host[l].rid /\ host'[l].sent = host[l].sent
                      /\ (Streams(host'[l]) => Streams(host[l]))
  BY <1>4
<1>6. OneTurn(i)'
  <2>1. Once(up', WrtesTo(i)) /\ Once(down', OkaysFrom(i)) /\ NoWrite(i)'
    BY <1>0, <1>1, <1>3, UpOnce DEF NoWrite
  <2>2. sk'[i].q = <<>> /\ Len(sk'[i].q) <= 1
    BY <1>0, <1>1, <1>3, StreamParts DEF OneTurn
  <2> QED
    BY <1>2, <2>1, <2>2 DEF OneTurn
<1>7. Numbered(i)'
  <2>1. Numbered(i) /\ (NoWrite(i)' <=> NoWrite(i))
    BY <1>0, <1>1, StreamParts DEF NoWrite
  <2> QED
    BY <1>0, <1>5, <2>1 DEF Numbered
<1>8. ASSUME NEW j \in Socks, j # i
      PROVE  OneTurn(j)' /\ Numbered(j)' /\ SocketOf(sk'[j])
  <2>1. OneTurn(j) /\ Numbered(j) /\ Stays(sk[j], sk'[j]) /\ SocketOf(sk'[j])
    BY <1>0, StreamParts, SameStays
  <2>2. Once(up', WrtesTo(j)) /\ Once(down', OkaysFrom(j)) /\ (NoWrite(j)' => NoWrite(j))
    BY <1>0, UpOnce DEF NoWrite
  <2>3. /\ \A l \in Sess : \A w \in WrtesTo(j) : Has(up', l, w) => Has(up, l, w)
        /\ \A l \in Sess : \A w \in OkaysFrom(j) : Has(down', l, w) => Has(down, l, w)
    BY <1>0
  <2>4. \A l \in Sess : Turn(host'[l], j) => Turn(host[l], j)
    <3>1. ~Turn(host'[u], j)
      BY <1>4, <1>8 DEF Turn
    <3> QED
      BY <3>1
  <2>5. \A l \in Sess :
          sk'[j].st = "open" /\ host'[l].rid = sk'[j].rid /\ Streams(host'[l]) =>
            host[l].rid = sk[j].rid /\ Streams(host[l]) /\ host'[l].sent = host[l].sent
    BY <1>0, <1>5
  <2> QED
    BY <2>1, <2>2, <2>3, <2>4, <2>5, TurnKept
<1>9. TurnInv'
  <2>1. SocketOf(sk'[i])
    BY <1>0, <1>1, StreamParts
  <2> QED
    BY <1>6, <1>7, <1>8, <2>1 DEF TurnInv
<1>10. AllSameId /\ NoNewOpens /\ SentGrows
  BY <1>0, SentSame DEF AllSameId, SameId, NoNewOpens
<1>11. \A l \in Sess : HostMoves(l)
  <2>1. HostMoves(u)
    BY <1>0, <1>1, <1>4 DEF HostMoves
  <2>2. ASSUME NEW l \in Sess, l # u
        PROVE  HostMoves(l)
    <3>1. Calm(host[l], host'[l]) /\ host'[l].strm = host[l].strm
      BY <2>2, StreamParts, CalmSame
    <3> QED
      BY <3>1, CalmQuiet, QuietMoves
  <2> QED
    BY <2>1, <2>2
<1>12. \A r \in Nat : Once(up', OpensOf(r))
  BY <1>0, UpOnce
<1>13. /\ \A l \in Sess, w \in Packets :
            Has(up', l, w) /\ Addressed(w) => Has(up, l, w) \/ Local(l, w)
       /\ \A l \in Sess, w \in Packets : Has(down', l, w) => Has(down, l, w) \/ Known(w)'
  BY <1>0
<1> QED
  BY <1>9, <1>10, <1>11, <1>12, <1>13, TurnStep

LEMMA InputPacketStream ==
  ASSUME StreamIInv, LoopInv', NEW k \in Sess, InputPacket(k)
  PROVE  StreamIInv'
<1>1. CASE host' = host
  BY <1>1, HostSame, InputQuietly
<1>2. CASE host' # host
  <2>1. PICK u, p : u = usbFd /\ p = Head(down[k])
    OBVIOUS
  <2>2. u # 0 /\ host' = [host EXCEPT ![u] = HostGets(host[u], p)]
    BY <1>2, <2>1 DEF InputPacket
  <2>3. u \in Sess
    BY <2>1, <2>2, StreamParts, SMTT(60) DEF AdbTypeOK, Sess
  <2>4. host[u] \in Hosts /\ HostSane(host[u]) /\ p \in Packets /\ Known(p)
    BY <2>1, <2>3, StreamParts, InputTaken DEF HostInv
  <2>5. PICK h : h = HostGets(host[u], p)
    OBVIOUS
  <2>6. h \in Hosts /\ GetsOutcome(host[u], p, h)
    BY <2>4, <2>5, HostGetsOutcome
  <2>7. host'[u] = h /\ \A l \in Sess : l # u => host'[l] = host[l]
    BY <2>2, <2>3, <2>5, <2>6, OneHost
  <2>8. CASE Calm(host[u], h) /\ (h.strm = host[u].strm \/ (p.cmd = "CLSE" /\ p.a1 = host[u].rid))
    <3>1. p.cmd = "CLSE" /\ p.a1 = host[u].rid => Clear(up', OpensOf(host[u].rid))
      BY <2>4, InputTaken DEF Known, Addressed
    <3>2. HostQuiet(u)
      BY <2>3, <2>7, <2>8, <3>1, CalmQuiet
    <3> QED
      BY <2>3, <2>7, <3>2, OtherHosts, InputQuietly
  <2>9. CASE p.cmd = "OKAY" /\ p.a1 = host[u].rid /\ Answers(host[u], h, p.a0)
    BY <2>1, <2>3, <2>7, <2>9, InputHandsTurn
  <2>10. CASE /\ p.cmd = "OKAY" /\ p.a1 = host[u].rid /\ host[u].strm = "open"
              /\ Answers(host[u], h, host[u].lid)
    <3>1. Created(p.a0) /\ sk[p.a0].rid = host[u].rid
      BY <2>4, <2>10 DEF Known
    <3>2. Created(host[u].lid) /\ sk[host[u].lid].rid = host[u].rid
      BY <2>3, <2>10, StreamParts DEF HostInv, Talks
    <3>3. p.a0 = host[u].lid
      BY <3>1, <3>2, StreamParts DEF SockIds, Created
    <3>4. Answers(host[u], h, p.a0)
      BY <2>10, <3>3
    <3> QED
      BY <2>1, <2>3, <2>7, <2>10, <3>4, InputHandsTurn
  <2> QED
    BY <2>6, <2>8, <2>9, <2>10 DEF GetsOutcome
<1> QED
  BY <1>1, <1>2

-----------------------------------------------------------------------------
LEMMA NothingSent ==
  ASSUME NEW d, \A k \in Sess : d[k] = <<>>, NEW S
  PROVE  Clear(d, S) /\ Once(d, S) /\ \A k \in Sess : \A p : ~Has(d, k, p)
<1>1. Len(<<>>) = 0 /\ 1..0 = {}
  BY SMTT(60)
<1> QED
  BY <1>1 DEF Clear, Once, Has

LEMMA StreamInitial ==
  ASSUME AdbInit
  PROVE  StreamIInv
<1>0. LoopInv
  BY AdbInitial
<1>1. /\ \A k \in Sess : up[k] = <<>> /\ down[k] = <<>> /\ host[k] = NoHost
      /\ \A i \in Socks : sk[i] = NoSocket
      /\ sent = 0
  BY DEF AdbInit
<1>2. /\ NoHost.strm = "none" /\ NoHost.rid = 0 /\ NoHost.sent = 0
      /\ ~NoHost.wait /\ ~NoHost.owed
  BY DEF NoHost
<1>3. /\ NoSocket.st = "none" /\ NoSocket.q = <<>> /\ NoSocket.fd = <<>>
      /\ NoSocket.got = <<>>
  BY DEF NoSocket
<1>4. /\ \A i : ~Created(i)
      /\ \A k \in Sess : HostSane(host[k]) /\ ~Talks(host[k]) /\ host[k].rid = 0
      /\ \A k \in Sess : \A i : ~Turn(host[k], i)
  BY <1>1, <1>2, <1>3 DEF Created, HostSane, Talks, Turn
<1>5. /\ \A S : Clear(up, S) /\ Once(up, S) /\ Clear(down, S) /\ Once(down, S)
      /\ \A k \in Sess : \A p : ~Has(up, k, p) /\ ~Has(down, k, p)
  BY <1>1, NothingSent
<1>6. Len(<<>>) = 0 /\ 1..0 = {} /\ 0 <= 1 /\ 0 <= 0
  BY SMTT(60)
<1>7. SockIds /\ HostIds /\ Joined
  BY <1>1, <1>4, <1>6 DEF SockIds, HostIds, Joined
<1>8. OpenInv /\ HostInv /\ UpInv /\ DownInv
  BY <1>4, <1>5 DEF OpenInv, HostInv, UpInv, DownInv
<1>9. ASSUME NEW i \in Socks
      PROVE  OneTurn(i) /\ Numbered(i) /\ SocketOf(sk[i])
  <2>1. sk[i].st = "none" /\ sk[i].q = <<>> /\ sk[i].fd = <<>> /\ sk[i].got = <<>>
    BY <1>1, <1>3
  <2>2. NoWrite(i) /\ NoAck(i) /\ NoHostTurn(i)
    BY <1>4, <1>5 DEF NoWrite, NoAck, NoHostTurn
  <2>3. OneTurn(i)
    BY <1>5, <1>6, <2>1, <2>2 DEF OneTurn
  <2> QED
    BY <1>6, <2>1, <2>3 DEF Numbered, SocketOf, InOrder
<1> QED
  BY <1>0, <1>7, <1>8, <1>9 DEF StreamIInv, TurnInv

LEMMA OpenStream ==
  ASSUME StreamIInv, NEW k \in Sess, TransportSocket(k), HandleOpen(k, Head(up[k]))
  PROVE  StreamIInv'
<1>0. LoopInv' /\ Head(up[k]).cmd = "OPEN"
  BY StreamParts, HandleOpenDoes DEF HandleOpen
<1>1. \/ sk' = sk /\ Puts(down, down', k, Pkt("CLSE", 0, Head(up[k]).a0, 0))
      \/ \E i \in Socks :
           /\ sk[i].st = "none" /\ sk' = [sk EXCEPT ![i] = ServiceSocket(k, Head(up[k]).a0)]
           /\ Puts(down, down', k, Pkt("OKAY", i, Head(up[k]).a0, 0))
  BY StreamParts, HandleOpenDoes DEF Puts
<1>2. CASE sk' = sk /\ Puts(down, down', k, Pkt("CLSE", 0, Head(up[k]).a0, 0))
  BY <1>0, <1>2, OpenFailsStream
<1>3. ASSUME NEW i \in Socks, sk[i].st = "none",
             sk' = [sk EXCEPT ![i] = ServiceSocket(k, Head(up[k]).a0)],
             Puts(down, down', k, Pkt("OKAY", i, Head(up[k]).a0, 0))
      PROVE  StreamIInv'
  BY <1>0, <1>3, OpenTakesStream
<1> QED
  BY <1>1, <1>2, <1>3

LEMMA TransportSocketStream ==
  ASSUME StreamIInv, NEW k \in Sess, TransportSocket(k)
  PROVE  StreamIInv'
<1>1. HandlePacket(k, Head(up[k]))
  BY DEF TransportSocket
<1> QED
  BY <1>1, GreetingStream, OpenStream, ReadyStream, CloseStream, WriteStream,
     NothingStream DEF HandlePacket

(* The steps that touch no stream.                                         *)
LEMMA ElsewhereStream ==
  ASSUME StreamIInv, LoopInv',
         \/ Opener \/ UNCHANGED adbVars
         \/ \E k \in Sess : Unplug(k) \/ CloseAllSockets(k)
         \/ \E k \in Sess, th \in {"out", "inp"} : ThreadKick(k, th) \/ ThreadUnref(k, th)
  PROVE  StreamIInv'
<1>1. up' = up /\ host' = host /\ sent' = sent
  BY DEF Opener, UsbOpen, RegisterUsbTransport, Unplug, CloseAllSockets, ThreadKick,
         ThreadUnref, adbVars, loopVars
<1>2. sk' = sk /\ down' = down
  <2>1. CASE \E k \in Sess : CloseAllSockets(k)
    BY <2>1, StreamParts, CloseAllStep
  <2>2. CASE ~\E k \in Sess : CloseAllSockets(k)
    BY <2>2 DEF Opener, UsbOpen, RegisterUsbTransport, Unplug, ThreadKick,
                ThreadUnref, adbVars, loopVars
  <2> QED
    BY <2>1, <2>2
<1> QED
  BY <1>1, <1>2, SameStep

(* One step per action of the daemon and its host.                         *)
LEMMA StreamInductive ==
  ASSUME StreamIInv, [AdbNext]_adbVars
  PROVE  StreamIInv'
<1>0. LoopInv'
  BY StreamParts, LoopInductive
<1>1. CASE EventLoop
  BY <1>0, <1>1, FdeventStream, RegistrationStream, TransportSocketStream,
     LocalSocketStream DEF EventLoop
<1>2. ASSUME NEW k \in Sess, Unplug(k) \/ OutputRead(k) \/ Threads(k)
      PROVE  StreamIInv'
  BY <1>0, <1>2, OutputReadStream, OutputSyncStream, InputPacketStream, ElsewhereStream
     DEF Threads
<1>3. ASSUME NEW i \in Socks, Service(i)
      PROVE  StreamIInv'
  BY <1>0, <1>3, ServiceStream
<1>4. CASE Opener \/ UNCHANGED adbVars
  BY <1>0, <1>4, ElsewhereStream
<1> QED
  BY <1>1, <1>2, <1>3, <1>4 DEF AdbNext

LEMMA JoinCounts ==
  ASSUME NEW f \in Seq(Nat), NEW q \in Seq(Nat),
         \A n \in 1..Len(f) : f[n] = n,
         \A n \in 1..Len(q) : q[n] = Len(f) + n
  PROVE  \A n \in 1..Len(f \o q) : (f \o q)[n] = n
<1>1. /\ Len(f) \in Nat /\ Len(q) \in Nat
      /\ Len(f \o q) = Len(f) + Len(q)
      /\ \A n \in 1..(Len(f) + Len(q)) :
           (f \o q)[n] = IF n <= Len(f) THEN f[n] ELSE q[n - Len(f)]
  BY SeqConcat, LenType
<1>2. ASSUME NEW n \in 1..(Len(f) + Len(q))
      PROVE  (f \o q)[n] = n
  <2>1. CASE n <= Len(f)
    <3>1. n \in 1..Len(f)
      BY <1>1, <2>1, SMTT(60)
    <3> QED
      BY <1>1, <2>1, <3>1
  <2>2. CASE ~(n <= Len(f))
    <3>1. n - Len(f) \in 1..Len(q) /\ Len(f) + (n - Len(f)) = n
      BY <1>1, <2>2, SMTT(60)
    <3> QED
      BY <1>1, <2>2, <3>1
  <2> QED
    BY <2>1, <2>2
<1> QED
  BY <1>1, <1>2

LEMMA AllInOrder ==
  ASSUME NEW s \in Sockets, InOrder(s)
  PROVE  \A n \in 1..Len(s.got \o s.fd \o s.q) : (s.got \o s.fd \o s.q)[n] = n
<1>1. PICK g \in Seq(Nat), f \in Seq(Nat), q \in Seq(Nat) :
        g = s.got /\ f = s.fd /\ q = s.q
  BY SocketType
<1>2. /\ \A n \in 1..Len(g) : g[n] = n
      /\ \A n \in 1..Len(f) : f[n] = Len(g) + n
      /\ \A n \in 1..Len(q) : q[n] = Len(g) + Len(f) + n
  BY <1>1 DEF InOrder
<1>3. g \o f \in Seq(Nat) /\ Len(g \o f) = Len(g) + Len(f)
  BY SeqConcat
<1>4. PICK e \in Seq(Nat) : e = g \o f
  BY <1>3
<1>5. \A n \in 1..Len(e) : e[n] = n
  BY <1>2, <1>4, JoinCounts
<1>6. \A n \in 1..Len(q) : q[n] = Len(e) + n
  BY <1>2, <1>3, <1>4
<1>7. \A n \in 1..Len(e \o q) : (e \o q)[n] = n
  BY <1>5, <1>6, JoinCounts
<1> QED
  BY <1>1, <1>4, <1>7

LEMMA StreamSafe ==
  ASSUME StreamIInv
  PROVE  StreamInv
<1>1. ASSUME NEW i \in Socks
      PROVE  /\ sk[i] \in Sockets /\ InOrder(sk[i]) /\ Len(sk[i].q) <= 1
             /\ sk[i].st = "open" => sk[i].okays + Len(sk[i].q) = sk[i].wrtes
  BY StreamParts DEF SocketOf, OneTurn
<1>2. StreamInOrder
  BY <1>1, AllInOrder DEF StreamInOrder
<1>3. AckOnce
  BY <1>1 DEF AckOnce
<1> QED
  BY <1>2, <1>3 DEF StreamInv

(* Every stream between a host and a service of minadbd gets its packets   *)
(* once and in order, with one of them in flight and each acknowledged     *)
(* once, for any number of sessions, sockets and packets, whenever the     *)
(* cable is pulled and put back (adb.c, sockets.c, transport.c).           *)
THEOREM AdbStreamsKept == DaemonSpec => []StreamInv
<1>1. AdbInit => StreamIInv
  BY StreamInitial
<1>2. StreamIInv /\ [DaemonNext]_daemonVars => StreamIInv'
  BY StreamInductive, DaemonSteps
<1>3. StreamIInv => StreamInv
  BY StreamSafe
<1> QED
  BY <1>1, <1>2, <1>3, PTL DEF DaemonSpec, DaemonInit
=============================================================================
