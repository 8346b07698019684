-------------------------- MODULE VoldClientProofs --------------------------
(***************************************************************************)
(* The client of the volume daemon, for every set of volumes, any number   *)
(* of insertions and removals, and vold crashing or not: commands are      *)
(* counted exactly, the list of volumes stays in step with vold, the event *)
(* thread is never shut out by vold_unmount_all, and a reboot after an     *)
(* undisturbed one finds nothing mounted.                                  *)
(*                                                                         *)
(* VoldInv is inductive; one lemma for each of its parts follows, with one *)
(* step for each action that touches the part.                             *)
(***************************************************************************)
EXTENDS VoldClientSteps, FiniteSetTheorems, TLAPS

(* A leaf that names no prover is for Zenon; the ones that need arithmetic *)
(* or the theory of functions and records name SMT.                        *)
USE ZenonT(60)

-----------------------------------------------------------------------------
(* The results in a queue of messages are counted by their positions.      *)

LEMMA FiniteAnswers ==
  ASSUME NEW q \in Seq(Messages)
  PROVE  IsFiniteSet(Answers(q)) /\ Cardinality(Answers(q)) \in Nat
<1>1. Len(q) \in Nat /\ Answers(q) \in SUBSET (1..Len(q))
  BY SMTT(60) DEF Answers
<1>2. IsFiniteSet(1..Len(q))
  BY <1>1, FS_Interval, SMTT(60)
<1>3. QED
  BY <1>1, <1>2, FS_Subset, FS_CardinalityType

LEMMA OneMoreAnswer ==
  ASSUME NEW q \in Seq(Messages), NEW m \in Messages
  PROVE  /\ m.type # "result" => Answers(Append(q, m)) = Answers(q)
         /\ m.type = "result" =>
              /\ Answers(Append(q, m)) = Answers(q) \cup {Len(q) + 1}
              /\ Cardinality(Answers(Append(q, m))) = Cardinality(Answers(q)) + 1
<1>1. /\ Len(q) \in Nat /\ Len(Append(q, m)) = Len(q) + 1
      /\ \A i \in 1..Len(q) : Append(q, m)[i] = q[i]
      /\ Append(q, m)[Len(q) + 1] = m
  BY SeqAppend, SMTT(60)
<1>2. 1..(Len(q) + 1) = 1..Len(q) \cup {Len(q) + 1} /\ Len(q) + 1 \notin 1..Len(q)
  BY <1>1, SMTT(60)
<1>3. CASE m.type # "result"
  BY <1>1, <1>2, <1>3 DEF Answers
<1>4. CASE m.type = "result"
  <2>1. Answers(Append(q, m)) = Answers(q) \cup {Len(q) + 1}
    BY <1>1, <1>2, <1>4 DEF Answers
  <2>2. Len(q) + 1 \notin Answers(q)
    BY <1>2 DEF Answers
  <2>3. QED
    BY <1>4, <2>1, <2>2, FiniteAnswers, FS_AddElement
<1>5. QED
  BY <1>3, <1>4

LEMMA OneLessAnswer ==
  ASSUME NEW q \in Seq(Messages), q # <<>>
  PROVE  Cardinality(Answers(q)) = Cardinality(Answers(Tail(q)))
                                   + (IF Head(q).type = "result" THEN 1 ELSE 0)
<1>1. /\ Tail(q) \in Seq(Messages) /\ Len(Tail(q)) = Len(q) - 1
      /\ Len(q) \in Nat \ {0} /\ Head(q) = q[1]
      /\ \A i \in 1..(Len(q) - 1) : Tail(q)[i] = q[i + 1]
  BY SeqTail
<1> DEFINE P == Answers(q)
           T == Answers(Tail(q))
           f == [i \in T |-> i + 1]
<1>2. \A i \in T : i \in 1..(Len(q) - 1) /\ i + 1 \in P \ {1}
  BY <1>1, SMTT(60) DEF Answers
<1>3. ASSUME NEW i \in P \ {1}
      PROVE  i - 1 \in T /\ i = (i - 1) + 1
  <2>1. i \in 1..Len(q) /\ q[i].type = "result" /\ i # 1
    BY DEF Answers
  <2>2. i - 1 \in 1..(Len(q) - 1) /\ i = (i - 1) + 1
    BY <1>1, <2>1, SMTT(60)
  <2>3. Tail(q)[i - 1] = q[i]
    BY <1>1, <2>2
  <2>4. QED
    BY <1>1, <2>1, <2>2, <2>3 DEF Answers
<1>4. /\ IsFiniteSet(P) /\ Cardinality(P) \in Nat
      /\ IsFiniteSet(T) /\ Cardinality(T) \in Nat
  BY <1>1, FiniteAnswers
<1>5. Head(q).type = "result" <=> 1 \in P
  BY <1>1, SMTT(60) DEF Answers
<1> HIDE DEF P, T
<1>6. f \in Bijection(T, P \ {1})
  <2>1. f \in [T -> P \ {1}]
    BY <1>2
  <2>2. \A i, j \in T : f[i] = f[j] => i = j
    BY <1>1, <1>2, SMTT(60)
  <2>3. \A j \in P \ {1} : \E i \in T : f[i] = j
    BY <1>3
  <2>4. QED
    BY <2>1, <2>2, <2>3 DEF Bijection, Injection, Surjection, IsInjective
<1>7. Cardinality(P \ {1}) = Cardinality(T)
  <2>1. ExistsBijection(T, P \ {1})
    BY <1>6 DEF ExistsBijection
  <2>2. QED
    BY <1>4, <2>1, FS_Bijection
<1>8. Cardinality(P \ {1}) = IF 1 \in P THEN Cardinality(P) - 1 ELSE Cardinality(P)
  BY <1>4, FS_RemoveElement
<1>9. Cardinality(P) = Cardinality(T) + (IF Head(q).type = "result" THEN 1 ELSE 0)
  BY <1>4, <1>5, <1>7, <1>8, SMTT(60)
<1>10. QED
  BY <1>9 DEF P, T

LEMMA NoAnswers ==
  /\ Answers(<<>>) = {}
  /\ \A q \in Seq(Messages) : Cardinality(Answers(q)) = 0 <=> Answers(q) = {}
<1>1. Answers(<<>>) = {}
  BY SMTT(60) DEF Answers
<1>2. QED
  BY <1>1, FiniteAnswers, FS_EmptySet, FS_CardinalityType

LEMMA Counting == CountLaws
  BY FiniteAnswers, OneMoreAnswer, OneLessAnswer, NoAnswers DEF CountLaws

USE Counting

-----------------------------------------------------------------------------
(* The news of a command.                                                  *)

LEMMA NewsStep ==
  ASSUME VoldInv, Next, TypeOK'
  PROVE  NewsInv'
<1> USE DEF voldVars, sharedVars, mainVars, eventVars
<1> DEFINE BusyOk == \A v \in Volumes : vstate[v] = Busy =>
                       exec # <<>> /\ exec[1].op # "list" /\ exec[1].vol = v
           SentOk == sock = "open" =>
                       \A i \in DOMAIN toClient : toClient[i].type = "state" =>
                         exec # <<>> \/ \E j \in Owing : j > i
           ReadOk == sock = "open" =>
                       (epc = "dispatch" /\ msg.type = "state" =>
                          exec # <<>> \/ Owing # {})
<1>0. TypeOK /\ ThreadInv /\ ConnectionInv /\ BusyOk /\ SentOk /\ ReadOk
  BY DEF VoldInv, NewsInv
<1>a. SUFFICES BusyOk' /\ SentOk' /\ ReadOk'
  BY DEF NewsInv
<1>b. toClient \in Seq(Messages)
  BY <1>0, PendingCounts
<1>1. CASE VoldTakes
  BY <1>0, <1>1 DEF VoldTakes
<1>2. CASE VoldLists
  BY <1>0, <1>2 DEF VoldLists
<1>3. CASE VoldBegins
  <2>1. exec # <<>> /\ exec' = exec
    BY <1>3 DEF VoldBegins
  <2>2. BusyOk'
    BY <1>0, <1>3, <2>1, BeginsSends DEF TypeOK
  <2>3. QED
    BY <2>1, <2>2
<1>4. CASE VoldEnds
  <2>1. BusyOk'
    BY <1>0, <1>4, EndsSends DEF TypeOK
  <2>2. PICK m \in Messages :
          /\ m.type = "result"
          /\ \/ toClient' = Append(toClient, m)
             \/ \E e \in Messages : toClient' = Append(Append(toClient, e), m)
    BY <1>0, <1>4, EndsSends
  <2>3. PICK q \in Seq(Messages) : toClient' = Append(q, m)
    BY <1>b, <2>2, SeqAppend
  <2>4. /\ DOMAIN toClient' = 1..(Len(q) + 1) /\ Len(q) \in Nat
        /\ toClient'[Len(q) + 1] = m
    BY <2>3, SeqAppend, SMTT(60)
  <2>5. Len(q) + 1 \in Owing'
    BY <2>2, <2>4, SMTT(60) DEF Owing
  <2>6. \A i \in DOMAIN toClient' : toClient'[i].type = "state" => Len(q) + 1 > i
    BY <2>2, <2>4, SMTT(60)
  <2>7. QED
    BY <2>1, <2>5, <2>6
<1>5. CASE VoldRestart
  BY <1>0, <1>5 DEF VoldRestart, Owing
<1>6. CASE MediaEvent
  <2>1. PICK v \in Volumes, m \in Messages :
          /\ m.type \in {"inserted", "removed"}
          /\ Tells(m) \in {Idle, NoMedia}
          /\ vstate' = [vstate EXCEPT ![v] = Tells(m)]
          /\ toClient' = IF sock # "open" THEN toClient ELSE Append(toClient, m)
    BY <1>0, <1>6, MediaSends
  <2>2. UNCHANGED <<sock, exec, epc, msg>>
    BY <1>6 DEF MediaEvent
  <2>3. BusyOk'
    BY <1>0, <2>1, <2>2, SMTT(60) DEF TypeOK, Busy, Idle, NoMedia
  <2>4. CASE sock # "open"
    BY <2>2, <2>3, <2>4
  <2>5. CASE sock = "open"
    <3>1. toClient' = Append(toClient, m)
      BY <2>1, <2>5
    <3>2. Owing' = Owing
      BY <1>0, <2>1, <2>2, <3>1, SentPending DEF InHand
    <3>3. /\ DOMAIN toClient' = DOMAIN toClient \cup {Len(toClient) + 1}
          /\ \A i \in DOMAIN toClient : toClient'[i] = toClient[i]
          /\ toClient'[Len(toClient) + 1] = m
      BY <1>b, <3>1, SeqAppend, SMTT(60)
    <3>4. QED
      BY <1>0, <2>1, <2>2, <2>3, <3>2, <3>3
  <2>6. QED
    BY <2>4, <2>5
<1>7. CASE VoldCrash
  <2>1. sock' # "open"
    BY <1>7 DEF VoldCrash
  <2>2. \A v \in Volumes : vstate'[v] # Busy
    BY <1>7, SMTT(60) DEF VoldCrash, Busy, Idle, NoMedia
  <2>3. QED
    BY <2>1, <2>2
<1>8. CASE MainSkips \/ MainDies \/ MainWakes \/ MainReturns \/ MainCalls \/ MainUnmountsAll
  <2>1. UNCHANGED <<sock, toClient, exec, vstate, epc, msg>>
    BY <1>8 DEF MainSkips, MainDies, MainWakes, MainReturns, MainCalls, MainUnmountsAll
  <2>2. QED
    BY <1>0, <2>1 DEF Owing
<1>9. CASE MainSends \/ EventConnects
  <2>1. /\ UNCHANGED <<toClient, exec, vstate, msg>> /\ sock' = Connected
        /\ epc' = epc \/ epc' = "monitor"
    BY <1>9 DEF MainSends, Send, EventConnects
  <2>2. CASE sock = "none"
    BY <1>0, <2>1, <2>2, SMTT(60) DEF ConnectionInv
  <2>3. CASE sock # "none"
    BY <1>0, <2>1, <2>3 DEF Connected, Owing
  <2>4. QED
    BY <2>2, <2>3
<1>10. CASE EventReads
  <2>1. /\ toClient # <<>> /\ msg' = toClient[1]
        /\ toClient' = Tail(toClient) /\ Len(toClient) \in Nat \ {0}
        /\ DOMAIN toClient = 1..Len(toClient)
        /\ DOMAIN toClient' = 1..(Len(toClient) - 1)
        /\ \A i \in 1..(Len(toClient) - 1) : toClient'[i] = toClient[i + 1]
        /\ UNCHANGED <<sock, exec, vstate>>
    BY <1>b, <1>10, SeqTail DEF EventReads
  <2>2. ASSUME NEW j \in Owing, NEW i \in Nat, j > i + 1
        PROVE  j - 1 \in Owing' /\ j - 1 > i
    <3>1. j \in 1..Len(toClient) /\ toClient[j].type = "result"
      BY <2>1 DEF Owing
    <3>2. j - 1 \in 1..(Len(toClient) - 1) /\ (j - 1) + 1 = j /\ j - 1 > i
      BY <2>1, <2>2, <3>1, SMTT(60)
    <3>3. toClient'[j - 1] = toClient[j]
      BY <2>1, <3>2
    <3>4. QED
      BY <2>1, <3>1, <3>2, <3>3 DEF Owing
  <2>3. ReadOk'
    <3>1. ASSUME sock = "open", msg'.type = "state", exec = <<>>
          PROVE  Owing' # {}
      <4>1. PICK j \in Owing : j > 1
        BY <1>0, <2>1, <3>1, SMTT(60)
      <4>2. j - 1 \in Owing'
        BY <2>2, <4>1, SMTT(60)
      <4>3. QED
        BY <4>2
    <3>2. QED
      BY <2>1, <3>1
  <2>4. SentOk'
    <3>1. ASSUME sock = "open", NEW i \in DOMAIN toClient',
                 toClient'[i].type = "state", exec = <<>>
          PROVE  \E j \in Owing' : j > i
      <4>1. i \in Nat /\ i + 1 \in DOMAIN toClient /\ toClient'[i] = toClient[i + 1]
        BY <2>1, SMTT(60)
      <4>2. PICK j \in Owing : j > i + 1
        BY <1>0, <3>1, <4>1
      <4>3. QED
        BY <2>2, <4>1, <4>2
    <3>2. QED
      BY <2>1, <3>1
  <2>5. QED
    BY <1>0, <2>1, <2>3, <2>4
<1>11. CASE EventLosesConnection
  BY <1>0, <1>11 DEF EventLosesConnection
<1>12. CASE DispatchList \/ DispatchState \/ DispatchDisk \/ DispatchResult \/ CompleteCommand
  <2>1. UNCHANGED <<sock, toClient, exec, vstate>> /\ epc' # "dispatch"
    BY <1>12 DEF DispatchList, DispatchState, DispatchDisk, DispatchResult,
       CompleteCommand
  <2>2. QED
    BY <1>0, <2>1 DEF Owing
<1>13. CASE AutomountSends \/ AutomountDies
  <2>1. UNCHANGED <<toClient, exec, vstate>> /\ epc' # "dispatch" /\ sock # "none"
    BY <1>0, <1>13 DEF AutomountSends, AutomountDies, ConnectionInv
  <2>2. sock' = sock
    BY <1>13, <2>1 DEF AutomountSends, AutomountDies, Send, Connected
  <2>3. QED
    BY <1>0, <2>1, <2>2 DEF Owing
<1>14. QED
  BY <1>1, <1>2, <1>3, <1>4, <1>5, <1>6, <1>7, <1>8, <1>9, <1>10, <1>11, <1>12,
     <1>13 DEF Next, Vold, Main, Event

-----------------------------------------------------------------------------
(* The list agrees with vold.                                              *)

LEMMA ToldAppend ==
  ASSUME NEW q \in Seq(Messages), NEW m \in Messages, NEW v
  PROVE  /\ About(m, v) => Told(Append(q, m), v, Tells(m))
         /\ \A s : ~About(m, v) /\ Told(q, v, s) => Told(Append(q, m), v, s)
         /\ ~About(m, v) /\ Silent(q, v) => Silent(Append(q, m), v)
<1> DEFINE r == Append(q, m)
<1>1. /\ Len(q) \in Nat /\ DOMAIN q = 1..Len(q) /\ DOMAIN r = 1..(Len(q) + 1)
      /\ \A i \in 1..Len(q) : r[i] = q[i]
      /\ r[Len(q) + 1] = m
  BY SeqAppend, SMTT(60)
<1> HIDE DEF r
<1>2. Len(q) + 1 \in DOMAIN r /\ \A j \in DOMAIN r : j <= Len(q) + 1
  BY <1>1, SMTT(60)
<1>3. DOMAIN r = DOMAIN q \cup {Len(q) + 1}
  BY <1>1, SMTT(60)
<1>4. About(m, v) => Told(r, v, Tells(m))
  BY <1>1, <1>2 DEF Told
<1>5. \A s : ~About(m, v) /\ Told(q, v, s) => Told(r, v, s)
  BY <1>1, <1>3 DEF Told
<1>6. ~About(m, v) /\ Silent(q, v) => Silent(r, v)
  BY <1>1, <1>3 DEF Silent
<1>7. QED
  BY <1>4, <1>5, <1>6 DEF r

LEMMA ToldTail ==
  ASSUME NEW q \in Seq(Messages), q # <<>>, NEW v, NEW s
  PROVE  /\ Told(q, v, s) =>
              \/ Told(Tail(q), v, s)
              \/ Silent(Tail(q), v) /\ About(q[1], v) /\ Tells(q[1]) = s
         /\ Silent(q, v) => Silent(Tail(q), v) /\ ~About(q[1], v)
<1> DEFINE r == Tail(q)
<1>1. /\ Len(q) \in Nat \ {0} /\ DOMAIN q = 1..Len(q)
      /\ DOMAIN r = 1..(Len(q) - 1)
      /\ \A i \in 1..(Len(q) - 1) : r[i] = q[i + 1]
  BY SeqTail
<1> HIDE DEF r
<1>2. \A i \in DOMAIN r : i + 1 \in DOMAIN q /\ r[i] = q[i + 1] /\ i \in Nat
  BY <1>1, SMTT(60)
<1>3. Silent(q, v) => Silent(r, v) /\ ~About(q[1], v)
  BY <1>1, <1>2, SMTT(60) DEF Silent
<1>4. ASSUME Told(q, v, s)
      PROVE  Told(r, v, s) \/ (Silent(r, v) /\ About(q[1], v) /\ Tells(q[1]) = s)
  <2>1. PICK i \in DOMAIN q :
          /\ About(q[i], v) /\ Tells(q[i]) = s
          /\ \A j \in DOMAIN q : About(q[j], v) => j <= i
    BY <1>4 DEF Told
  <2>2. CASE i = 1
    <3>1. \A j \in DOMAIN r : ~About(r[j], v)
      BY <1>1, <1>2, <2>1, <2>2, SMTT(60)
    <3>2. QED
      BY <2>1, <2>2, <3>1 DEF Silent
  <2>3. CASE i # 1
    <3>1. i - 1 \in DOMAIN r /\ r[i - 1] = q[i]
      BY <1>1, <2>3, SMTT(60)
    <3>2. \A j \in DOMAIN r : About(r[j], v) => j <= i - 1
      BY <1>1, <1>2, <2>1, SMTT(60)
    <3>3. QED
      BY <2>1, <3>1, <3>2 DEF Told
  <2>4. QED
    BY <2>2, <2>3
<1>5. QED
  BY <1>3, <1>4 DEF r

(* The list agrees with vold on one volume.                                *)
AgreesOn(v) ==
  \/ Told(toClient, v, vstate[v])
  \/ /\ Silent(toClient, v)
     /\ IF epc = "dispatch" /\ About(msg, v) THEN Tells(msg) = vstate[v]
        ELSE list[v] \in {Absent, vstate[v]}

LEMMA AgreesStep ==
  ASSUME VoldInv, ListAgrees, Next
  PROVE  ListAgrees'
<1> USE DEF voldVars, sharedVars, mainVars, eventVars
<1>0. TypeOK /\ ThreadInv /\ ConnectionInv
  BY DEF VoldInv
<1>a. sock = "open" => \A v \in Volumes : AgreesOn(v)
  BY DEF ListAgrees, AgreesOn
<1>b. SUFFICES ASSUME sock' = "open", NEW v \in Volumes
               PROVE  AgreesOn(v)'
  BY DEF ListAgrees, AgreesOn
<1>c. toClient \in Seq(Messages)
  BY <1>0, PendingCounts
<1>d. ASSUME sock = "open", UNCHANGED <<toClient, vstate, list, msg>>,
             epc' = epc \/ (epc # "dispatch" /\ epc' # "dispatch")
      PROVE  AgreesOn(v)'
  BY <1>a, <1>d DEF AgreesOn
<1>1. CASE VoldTakes \/ VoldRestart
  <2>1. UNCHANGED <<toClient, vstate, list, msg, epc, sock>>
    BY <1>1 DEF VoldTakes, VoldRestart
  <2>2. QED
    BY <1>b, <1>d, <2>1
<1>2. ASSUME NEW q \in Seq(Messages), NEW m \in Messages,
             toClient' = Append(q, m), UNCHANGED <<sock, list, epc, msg>>,
             \/ About(m, v) /\ Tells(m) = vstate'[v]
             \/ /\ ~About(m, v)
                /\ \/ Told(q, v, vstate'[v])
                   \/ q = toClient /\ vstate'[v] = vstate[v]
      PROVE  AgreesOn(v)'
  <2>1. CASE About(m, v) /\ Tells(m) = vstate'[v]
    <3>1. Told(toClient', v, Tells(m))
      BY <1>2, <2>1, ToldAppend
    <3>2. QED
      BY <2>1, <3>1 DEF AgreesOn
  <2>2. CASE ~About(m, v) /\ Told(q, v, vstate'[v])
    <3>1. Told(toClient', v, vstate'[v])
      BY <1>2, <2>2, ToldAppend
    <3>2. QED
      BY <3>1 DEF AgreesOn
  <2>3. CASE ~About(m, v) /\ q = toClient /\ vstate'[v] = vstate[v]
    <3>1. AgreesOn(v)
      BY <1>a, <1>b, <1>2
    <3>2. CASE Told(toClient, v, vstate[v])
      <4>1. Told(toClient', v, vstate'[v])
        BY <1>2, <2>3, <3>2, ToldAppend
      <4>2. QED
        BY <4>1 DEF AgreesOn
    <3>3. CASE Silent(toClient, v) /\ ~Told(toClient, v, vstate[v])
      <4>1. Silent(toClient', v)
        BY <1>2, <2>3, <3>3, ToldAppend
      <4>2. QED
        BY <1>2, <2>3, <3>1, <3>3, <4>1 DEF AgreesOn
    <3>4. QED
      BY <3>1, <3>2, <3>3 DEF AgreesOn
  <2>4. QED
    BY <1>2, <2>1, <2>2, <2>3
<1>3. CASE VoldLists
  <2>1. PICK w \in Volumes, m \in Messages :
          /\ m.type = "list" /\ m.vol = w /\ m.state = vstate[w]
          /\ toClient' = Append(toClient, m)
    BY <1>0, <1>3, ListsSends
  <2>2. UNCHANGED <<sock, list, epc, msg, vstate>>
    BY <1>3 DEF VoldLists
  <2>3. (About(m, v) <=> v = w) /\ Tells(m) = vstate'[w]
    BY <2>1, <2>2 DEF About, Tells
  <2>4. QED
    BY <1>c, <1>2, <2>1, <2>2, <2>3
<1>4. CASE VoldBegins
  <2>1. PICK m \in Messages :
          /\ m.type = "state" /\ m.vol = exec[1].vol /\ m.state = Busy
          /\ toClient' = Append(toClient, m)
    BY <1>0, <1>4, BeginsSends
  <2>2. UNCHANGED <<sock, list, epc, msg>>
    BY <1>4 DEF VoldBegins
  <2>3. (About(m, v) <=> v = exec[1].vol) /\ Tells(m) = Busy
    BY <2>1 DEF About, Tells
  <2>4. vstate'[v] = IF v = exec[1].vol THEN Busy ELSE vstate[v]
    BY <1>0, <1>4, BeginsSends DEF TypeOK
  <2>5. QED
    BY <1>c, <1>2, <2>1, <2>2, <2>3, <2>4
<1>5. CASE VoldEnds
  <2>1. UNCHANGED <<sock, list, epc, msg>>
    BY <1>0, <1>5, EndsSends
  <2>2. PICK m \in Messages :
          /\ m.type = "result"
          /\ \/ toClient' = Append(toClient, m) /\ vstate' = vstate
             \/ \E e \in Messages :
                  /\ e.type = "state" /\ e.vol = exec[1].vol
                  /\ vstate' = [vstate EXCEPT ![exec[1].vol] = e.state]
                  /\ toClient' = Append(Append(toClient, e), m)
    BY <1>0, <1>5, EndsSends
  <2>3. ~About(m, v)
    BY <2>2 DEF About
  <2>4. CASE toClient' = Append(toClient, m) /\ vstate' = vstate
    BY <1>c, <1>2, <2>1, <2>3, <2>4
  <2>5. ASSUME NEW e \in Messages, e.type = "state", e.vol = exec[1].vol,
               vstate' = [vstate EXCEPT ![exec[1].vol] = e.state],
               toClient' = Append(Append(toClient, e), m)
        PROVE  AgreesOn(v)'
    <3>1. (About(e, v) <=> v = exec[1].vol) /\ Tells(e) = e.state
      BY <2>5 DEF About, Tells
    <3>2. vstate'[v] = IF v = exec[1].vol THEN e.state ELSE vstate[v]
      BY <1>0, <2>5 DEF TypeOK
    <3>3. Append(toClient, e) \in Seq(Messages)
      BY <1>c, SeqAppend
    <3>4. CASE v = exec[1].vol
      <4>1. Told(Append(toClient, e), v, vstate'[v])
        BY <1>c, <3>1, <3>2, <3>4, ToldAppend
      <4>2. QED
        BY <1>2, <2>1, <2>3, <2>5, <3>3, <4>1
    <3>5. CASE v # exec[1].vol
      <4>1. AgreesOn(v) /\ vstate'[v] = vstate[v] /\ ~About(e, v)
        BY <1>a, <1>b, <2>1, <3>1, <3>2, <3>5
      <4>2. CASE Told(toClient, v, vstate[v])
        <5>1. Told(Append(toClient, e), v, vstate'[v])
          BY <1>c, <4>1, <4>2, ToldAppend
        <5>2. QED
          BY <1>2, <2>1, <2>3, <2>5, <3>3, <5>1
      <4>3. CASE Silent(toClient, v) /\ ~Told(toClient, v, vstate[v])
        <5>1. Silent(Append(toClient, e), v)
          BY <1>c, <4>1, <4>3, ToldAppend
        <5>2. Silent(toClient', v)
          BY <2>3, <2>5, <3>3, <5>1, ToldAppend
        <5>3. QED
          BY <2>1, <4>1, <4>3, <5>2 DEF AgreesOn
      <4>4. QED
        BY <4>1, <4>2, <4>3 DEF AgreesOn
    <3>6. QED
      BY <3>4, <3>5
  <2>6. QED
    BY <2>2, <2>4, <2>5
<1>6. CASE MediaEvent
  <2>1. PICK w \in Volumes, m \in Messages :
          /\ m.type \in {"inserted", "removed"} /\ m.vol = w
          /\ vstate' = [vstate EXCEPT ![w] = Tells(m)]
          /\ toClient' = IF sock # "open" THEN toClient ELSE Append(toClient, m)
    BY <1>0, <1>6, MediaSends
  <2>2. UNCHANGED <<sock, list, epc, msg>>
    BY <1>6 DEF MediaEvent
  <2>3. About(m, v) <=> v = w
    BY <2>1 DEF About
  <2>4. vstate'[v] = IF v = w THEN Tells(m) ELSE vstate[v]
    BY <1>0, <2>1 DEF TypeOK
  <2>5. toClient' = Append(toClient, m)
    BY <1>b, <2>1, <2>2
  <2>6. QED
    BY <1>c, <1>2, <2>2, <2>3, <2>4, <2>5
<1>7. CASE VoldCrash
  BY <1>b, <1>7 DEF VoldCrash
<1>8. CASE MainSkips \/ MainDies \/ MainWakes \/ MainReturns \/ MainCalls \/ MainUnmountsAll
  <2>1. UNCHANGED <<toClient, vstate, list, msg, epc, sock>>
    BY <1>8 DEF MainSkips, MainDies, MainWakes, MainReturns, MainCalls, MainUnmountsAll
  <2>2. QED
    BY <1>b, <1>d, <2>1
<1>9. CASE MainSends \/ EventConnects
  <2>1. /\ UNCHANGED <<toClient, vstate, list, msg>> /\ sock' = Connected
        /\ epc' = epc \/ (epc = "connect" /\ epc' = "monitor")
    BY <1>9 DEF MainSends, Send, EventConnects
  <2>2. CASE sock = "none"
    <3>1. toClient' = <<>> /\ epc' # "dispatch" /\ list'[v] = Absent
      BY <1>0, <2>1, <2>2 DEF ConnectionInv
    <3>2. QED
      BY <3>1, SMTT(60) DEF AgreesOn, Silent
  <2>3. CASE sock # "none"
    <3>1. sock = "open"
      BY <1>b, <2>1, <2>3 DEF Connected
    <3>2. QED
      BY <1>d, <2>1, <3>1
  <2>4. QED
    BY <2>2, <2>3
<1>10. CASE EventReads
  <2>1. /\ toClient # <<>> /\ msg' = toClient[1] /\ toClient' = Tail(toClient)
        /\ UNCHANGED <<sock, vstate, list>> /\ epc = "monitor" /\ epc' = "dispatch"
    BY <1>c, <1>10, SeqTail DEF EventReads
  <2>2. AgreesOn(v)
    BY <1>a, <1>b, <2>1
  <2>3. /\ Told(toClient, v, vstate[v]) =>
             \/ Told(toClient', v, vstate[v])
             \/ Silent(toClient', v) /\ About(msg', v) /\ Tells(msg') = vstate[v]
        /\ Silent(toClient, v) => Silent(toClient', v) /\ ~About(msg', v)
    BY <1>c, <2>1, ToldTail
  <2>4. QED
    BY <2>1, <2>2, <2>3 DEF AgreesOn
<1>11. CASE EventLosesConnection
  BY <1>b, <1>11 DEF EventLosesConnection
<1>12. ASSUME epc = "dispatch", epc' # "dispatch",
              UNCHANGED <<sock, toClient, vstate>>,
              About(msg, v) => list'[v] \in {Absent, Tells(msg)},
              ~About(msg, v) => list'[v] \in {Absent, list[v]}
       PROVE  AgreesOn(v)'
  <2>1. AgreesOn(v)
    BY <1>a, <1>b, <1>12
  <2>2. QED
    BY <1>12, <2>1 DEF AgreesOn
<1>13. CASE DispatchList
  <2>1. msg.type = "list" /\ msg.vol \in Volumes
    BY <1>0, <1>13, MessageInHand, MessageKinds DEF DispatchList
  <2>2. (About(msg, v) <=> v = msg.vol) /\ Tells(msg) = msg.state
    BY <2>1 DEF About, Tells
  <2>3. list'[v] = IF v = msg.vol THEN msg.state ELSE IF listing THEN list[v] ELSE Absent
    BY <1>0, <1>13, <2>1 DEF DispatchList, TypeOK
  <2>4. QED
    BY <1>12, <1>13, <2>2, <2>3 DEF DispatchList
<1>14. CASE DispatchState \/ DispatchDisk
  <2>1. msg.type \in {"state", "inserted", "removed"} /\ msg.vol \in Volumes
    BY <1>0, <1>14, MessageInHand, MessageKinds DEF DispatchState, DispatchDisk
  <2>2. (About(msg, v) <=> v = msg.vol) /\ SetState(msg.vol, Tells(msg))
    BY <1>14, <2>1 DEF DispatchState, DispatchDisk, About, Tells
  <2>3. list'[v] = IF v = msg.vol /\ list[v] # Absent THEN Tells(msg) ELSE list[v]
    BY <1>0, <2>1, <2>2 DEF SetState, TypeOK
  <2>4. /\ epc = "dispatch" /\ epc' # "dispatch" /\ UNCHANGED <<sock, toClient, vstate>>
    BY <1>14 DEF DispatchState, DispatchDisk
  <2>5. QED
    BY <1>12, <2>2, <2>3, <2>4
<1>15. CASE DispatchResult
  <2>1. ~About(msg, v)
    BY <1>15 DEF DispatchResult, About
  <2>2. QED
    BY <1>12, <1>15, <2>1 DEF DispatchResult
<1>16. CASE AutomountSends \/ AutomountDies \/ CompleteCommand
  <2>1. UNCHANGED <<toClient, vstate, list, msg>> /\ epc # "dispatch" /\ epc' # "dispatch"
    BY <1>16 DEF AutomountSends, AutomountDies, CompleteCommand
  <2>2. sock = "open"
    BY <1>0, <1>b, <1>16 DEF AutomountSends, AutomountDies, CompleteCommand, Send,
       Connected, ConnectionInv
  <2>3. QED
    BY <1>d, <2>1, <2>2
<1>17. QED
  BY <1>1, <1>3, <1>4, <1>5, <1>6, <1>7, <1>8, <1>9, <1>10, <1>11,
     <1>13, <1>14, <1>15, <1>16 DEF Next, Vold, Main, Event

-----------------------------------------------------------------------------
(* vold_unmount_all.                                                       *)

LEMMA StepsStep ==
  ASSUME VoldInv, Next
  PROVE  StepsInv'
<1> USE DEF voldVars, sharedVars, mainVars, eventVars
<1>0. TypeOK /\ ThreadInv /\ StepsInv
  BY DEF VoldInv
<1>a. ASSUME todo # <<>>, todo' = Tail(todo), held' = held
      PROVE  StepsInv'
  <2>1. todo \in Seq(Steps)
    BY <1>0 DEF TypeOK
  <2>2. \A i \in DOMAIN todo' : /\ i + 1 \in DOMAIN todo /\ todo'[i] = todo[i + 1]
                                /\ i \in Nat
    BY <1>a, <2>1, SeqTail, SMTT(60)
  <2>3. QED
    BY <1>0, <1>a, <2>2, SMTT(60) DEF StepsInv
<1>b. ASSUME UNCHANGED <<todo, held>> PROVE StepsInv'
  BY <1>0, <1>b DEF StepsInv
<1>1. CASE Vold \/ MediaEvent \/ VoldCrash
  BY <1>b, <1>1, VoldThreads
<1>2. CASE MainSkips \/ MainWakes
  BY <1>0, <1>a, <1>2 DEF MainSkips, MainWakes, ThreadInv
<1>3. CASE MainSends \/ MainDies
  BY <1>b, <1>3 DEF MainSends, MainDies
<1>4. CASE MainReturns
  BY <1>4 DEF MainReturns, StepsInv
<1>5. CASE MainCalls
  BY <1>0, <1>5 DEF MainCalls, ThreadInv, StepsInv
<1>6. CASE MainUnmountsAll
  <2>1. PICK nodes \in Bijection(1..Cardinality(Volumes), Volumes) :
          todo' = UnmountSteps(nodes)
    BY <1>6 DEF MainUnmountsAll
  <2>2. QED
    BY <2>1, AllSteps DEF StepsInv
<1>7. CASE EventConnects
  <2>1. CASE mpc = "start"
    BY <1>0, <1>7, <2>1 DEF EventConnects, ThreadInv, StepsInv
  <2>2. CASE mpc # "start"
    BY <1>b, <1>7, <2>2 DEF EventConnects
  <2>3. QED
    BY <2>1, <2>2
<1>8. CASE \/ EventReads \/ EventLosesConnection \/ DispatchList \/ DispatchState
           \/ DispatchDisk \/ DispatchResult
  BY <1>b, <1>8 DEF EventReads, EventLosesConnection, DispatchList, DispatchState,
     DispatchDisk, DispatchResult
<1>9. CASE AutomountSends \/ AutomountDies \/ CompleteCommand
  BY <1>b, <1>9 DEF AutomountSends, AutomountDies, CompleteCommand
<1>10. QED
  BY <1>1, <1>2, <1>3, <1>4, <1>5, <1>6, <1>7, <1>8, <1>9 DEF Next, Main, Event

(* With no command under way the list says of every mounted or shared      *)
(* volume what vold says: the state checks of vold_unmount_all are right.  *)
LEMMA ListIsTrue ==
  ASSUME VoldInv, ListAgrees, automount, sock = "open", inflight = 0,
         NEW v \in Volumes, vstate[v] \in {Shared, Mounted}
  PROVE  StateOf(v) = vstate[v]
<1>0. TypeOK /\ ThreadInv /\ NewsInv /\ Listed
  BY DEF VoldInv, ListingInv, Steady
<1>1. NoEntry /\ list[v] # Absent
  BY <1>0, NoEntries DEF Listed
<1>2. toClient \in Seq(Messages)
  BY <1>0, PendingCounts
<1>3. exec = <<>> /\ Owing = {}
  BY CountFacts, SMTT(60)
<1>4. ASSUME NEW m \in Messages, Tells(m) = vstate[v], m.type # "list", About(m, v)
      PROVE  m.type = "state"
  BY <1>4, MessageKinds, SMTT(60) DEF Tells, About, Shared, Mounted, Idle, NoMedia
<1>5. ~Told(toClient, v, vstate[v])
  <2>1. SUFFICES ASSUME NEW i \in DOMAIN toClient, About(toClient[i], v),
                        Tells(toClient[i]) = vstate[v]
                 PROVE  FALSE
    BY DEF Told
  <2>2. toClient[i] \in Messages /\ toClient[i].type # "list"
    BY <1>1, <1>2, SMTT(60) DEF NoEntry
  <2>3. toClient[i].type = "state"
    BY <1>4, <2>1, <2>2
  <2>4. QED
    BY <1>0, <1>3, <2>3 DEF NewsInv
<1>6. ~(epc = "dispatch" /\ About(msg, v) /\ Tells(msg) = vstate[v])
  <2>1. SUFFICES ASSUME epc = "dispatch", About(msg, v), Tells(msg) = vstate[v]
                 PROVE  FALSE
    OBVIOUS
  <2>2. msg \in Messages /\ msg.type # "list"
    BY <1>0, <1>1, <2>1, MessageInHand DEF NoEntry
  <2>3. msg.type = "state"
    BY <1>4, <2>1, <2>2
  <2>4. QED
    BY <1>0, <1>3, <2>1, <2>3 DEF NewsInv
<1>7. list[v] = vstate[v]
  BY <1>1, <1>5, <1>6 DEF ListAgrees
<1>8. QED
  BY <1>1, <1>7 DEF StateOf

LEMMA UnmountStep ==
  ASSUME VoldInv, ListAgrees, Next
  PROVE  UnmountInv'
<1> USE DEF voldVars, sharedVars, mainVars, eventVars
<1>0. TypeOK /\ ThreadInv /\ ConnectionInv /\ ListingInv /\ StepsInv /\ UnmountInv
  BY DEF VoldInv
<1> DEFINE Own == [op |-> CommandOf(todo[1].op), vol |-> todo[1].vol, by |-> "main"]
           Calm == held /\ ~disturbed /\ sock = "open" /\ mpc # "dead"
           Few == (mpc = "call" => inflight = 0) /\ (mpc = "waiting" => inflight <= 1)
           Owned == \A c \in Range(toVold) \cup Range(exec) : mpc = "waiting" /\ c = Own
           Covered == \A v \in Volumes :
                        /\ vstate[v] = Shared => Remains("all_unshare", v)
                        /\ vstate[v] = Mounted => Remains("all_unmount", v)
<1>a. UnmountInv <=> (Calm => Few /\ Owned /\ Covered)
  BY DEF UnmountInv
<1>b. UnmountInv' <=> (Calm' => Few' /\ Owned' /\ Covered')
  BY DEF UnmountInv
<1> HIDE DEF Own, Calm, Few, Owned, Covered
<1>c. SUFFICES ASSUME Calm' PROVE Few' /\ Owned' /\ Covered'
  BY <1>b
<1>d. held' /\ ~disturbed' /\ sock' = "open" /\ mpc' # "dead"
  BY <1>c DEF Calm
<1>e. held /\ ~disturbed => Few /\ Owned /\ Covered /\ automount /\ mpc # "start"
                            /\ mpc # "dead" /\ sock = "open"
  <2>1. held => automount /\ mpc # "start" /\ sock # "none"
    BY <1>0 DEF ThreadInv, ConnectionInv
  <2>2. mpc # "dead"
    BY <1>d DEF Next, Vold, VoldTakes, VoldLists, VoldBegins, VoldEnds, VoldRestart,
       MediaEvent, VoldCrash, Main, MainSkips, MainSends, MainDies, MainWakes,
       MainReturns, MainCalls, MainUnmountsAll, Event
  <2>3. sock # "none" => sock = "open"
    BY <1>d DEF Next, Vold, VoldTakes, VoldLists, VoldBegins, VoldEnds, VoldRestart,
       MediaEvent, VoldCrash, Main, MainSkips, MainSends, MainDies, MainWakes,
       MainReturns, MainCalls, MainUnmountsAll, Event, EventConnects, EventReads,
       EventLosesConnection, DispatchList, DispatchState, DispatchDisk,
       DispatchResult, AutomountSends, AutomountDies, CompleteCommand, Send, Connected
  <2>4. QED
    BY <1>0, <1>a, <2>1, <2>2, <2>3 DEF Calm
<1>f. todo \in Seq(Steps) /\ inflight \in Nat /\ toVold \in Seq(Commands)
  BY <1>0 DEF TypeOK
(* Steps that leave the commands, the steps left and the volumes alone.    *)
<1>g. ASSUME UNCHANGED <<held, disturbed, mpc, todo, toVold, exec, vstate>>,
             inflight' = inflight \/ (inflight' = inflight - 1 /\ inflight > 0)
      PROVE  Few' /\ Owned' /\ Covered'
  <2>1. Few /\ Owned /\ Covered
    BY <1>d, <1>e, <1>g
  <2>2. Few'
    BY <1>f, <1>g, <2>1, SMTT(60) DEF Few
  <2>3. Owned' /\ Covered'
    BY <1>g, <2>1 DEF Owned, Own, Covered, Remains
  <2>4. QED
    BY <2>2, <2>3
(* The first step is done with.                                            *)
<1>h. ASSUME todo # <<>>, todo' = Tail(todo), mpc' = "call", vstate' = vstate, Covered,
             \A op, v : todo[1] = Op(op, v) /\ v \in Volumes =>
               \/ vstate[v] # (IF op = "all_unshare" THEN Shared ELSE Mounted)
               \/ mpc = "waiting" /\ toVold = <<>> /\ exec = <<>>
      PROVE  Covered'
  <2>1. \A i \in DOMAIN todo : i # 1 => i - 1 \in DOMAIN todo' /\ todo'[i - 1] = todo[i]
    BY <1>f, <1>h, SeqTail, SMTT(60)
  <2>2. ASSUME NEW v \in Volumes, vstate[v] = Shared
        PROVE  Remains("all_unshare", v)'
    <3>1. PICK i \in DOMAIN todo :
            /\ todo[i] = Op("all_unshare", v)
            /\ i = 1 /\ mpc = "waiting" => toVold # <<>> \/ exec # <<>>
      BY <1>h, <2>2 DEF Covered, Remains
    <3>2. i # 1
      BY <1>h, <2>2, <3>1
    <3>3. QED
      BY <1>h, <2>1, <3>1, <3>2 DEF Remains
  <2>3. ASSUME NEW v \in Volumes, vstate[v] = Mounted
        PROVE  Remains("all_unmount", v)'
    <3>1. PICK i \in DOMAIN todo :
            /\ todo[i] = Op("all_unmount", v)
            /\ i = 1 /\ mpc = "waiting" => toVold # <<>> \/ exec # <<>>
      BY <1>h, <2>3 DEF Covered, Remains
    <3>2. i # 1
      BY <1>h, <2>3, <3>1
    <3>3. QED
      BY <1>h, <2>1, <3>1, <3>2 DEF Remains
  <2>4. QED
    BY <1>h, <2>2, <2>3 DEF Covered
<1>1. CASE VoldTakes
  <2>1. /\ Range(toVold') \cup Range(exec') \subseteq Range(toVold) \cup Range(exec)
        /\ exec' # <<>> /\ UNCHANGED <<held, disturbed, mpc, todo, inflight, vstate>>
    <3>1. /\ toVold # <<>> /\ toVold' = Tail(toVold) /\ exec' = <<toVold[1]>>
      BY <1>f, <1>1, SeqTail DEF VoldTakes
    <3>2. \A c \in Range(toVold') : c \in Range(toVold)
      <4>1. \A i \in DOMAIN toVold' :
              i + 1 \in DOMAIN toVold /\ toVold'[i] = toVold[i + 1]
        BY <1>f, <3>1, SeqTail, SMTT(60)
      <4>2. QED
        BY <4>1 DEF Range
    <3>3. \A c \in Range(exec') : c \in Range(toVold)
      <4>1. 1 \in DOMAIN toVold /\ \A c \in Range(exec') : c = toVold[1]
        BY <1>f, <3>1, SeqTail, SMTT(60) DEF Range
      <4>2. QED
        BY <4>1 DEF Range
    <3>4. exec' # <<>> /\ UNCHANGED <<held, disturbed, mpc, todo, inflight, vstate>>
      BY <1>1, <3>1, SMTT(60) DEF VoldTakes, history
    <3>5. QED
      BY <3>2, <3>3, <3>4
  <2>2. Few /\ Owned /\ Covered
    BY <1>d, <1>e, <2>1
  <2>3. Owned'
    BY <2>1, <2>2 DEF Owned, Own
  <2>4. Few' /\ Covered'
    BY <2>1, <2>2 DEF Few, Covered, Remains
  <2>5. QED
    BY <2>3, <2>4
<1>2. CASE VoldLists
  <2>1. held /\ ~disturbed /\ exec # <<>> /\ exec[1].op = "list"
    BY <1>d, <1>2 DEF VoldLists, history
  <2>2. QED
    BY <1>0, <1>e, <2>1 DEF ListingInv, Steady

<1>3. CASE VoldBegins
  <2>1. /\ UNCHANGED <<held, disturbed, mpc, todo, toVold, exec, inflight>>
        /\ \A v \in Volumes : vstate'[v] \in {vstate[v], Busy}
    BY <1>0, <1>3, BeginsSends DEF VoldBegins, history, TypeOK
  <2>2. Few /\ Owned /\ Covered
    BY <1>d, <1>e, <2>1
  <2>3. Owned' /\ Few'
    BY <2>1, <2>2 DEF Owned, Own, Few
  <2>4. Covered'
    BY <2>1, <2>2, SMTT(60) DEF Covered, Remains, Busy, Shared, Mounted
  <2>5. QED
    BY <2>3, <2>4
<1>4. CASE VoldEnds
  <2>1. /\ exec # <<>> /\ Len(exec) = 1 /\ exec' = <<>> /\ exec[1].vol \in Volumes
        /\ UNCHANGED <<toVold, held, mpc, todo, inflight>>
    BY <1>0, <1>4, EndsSends
  <2>2. PICK m \in Messages :
          /\ disturbed' = (disturbed \/ (exec[1].by = "main" /\ m.code = "failed"))
          /\ \/ exec[1].op = "list"
             \/ vstate' = [vstate EXCEPT ![exec[1].vol] =
                             IF m.code = "okay" THEN To(exec[1].op)
                             ELSE From(exec[1].op)]
             \/ m.code = "failed"
          /\ m.code \in Codes
    BY <1>0, <1>4, EndsSends, MessageKinds
  <2>3. Few /\ Owned /\ Covered /\ automount /\ ~disturbed
    BY <1>d, <1>e, <2>1, <2>2
  <2>4. exec[1] = Own /\ mpc = "waiting"
    <3>1. exec[1] \in Range(exec)
      BY <1>0, <2>1, SMTT(60) DEF TypeOK, Range
    <3>2. QED
      BY <2>3, <3>1 DEF Owned
  <2>5. /\ todo # <<>> /\ 1 \in DOMAIN todo /\ exec[1].vol = todo[1].vol
        /\ exec[1].op \in {"unshare", "unmount"} /\ exec[1].by = "main"
    <3>1. todo # <<>>
      BY <1>0, <2>4 DEF ThreadInv
    <3>2. 1 \in DOMAIN todo
      BY <1>f, <3>1, SeqTail, SMTT(60)
    <3>3. todo[1].op \in {"all_unshare", "all_unmount"}
      BY <1>0, <1>d, <2>1, <3>2 DEF StepsInv
    <3>4. QED
      BY <2>4, <3>1, <3>2, <3>3, SMTT(60) DEF Own, CommandOf
  <2>6. vstate' = [vstate EXCEPT ![exec[1].vol] = Idle]
    <3>1. m.code = "okay"
      BY <1>d, <2>2, <2>5 DEF Codes
    <3>2. To(exec[1].op) = Idle
      BY <2>5 DEF To
    <3>3. QED
      BY <2>2, <2>5, <3>1, <3>2
  <2>7. Few' /\ Owned'
    BY <2>1, <2>3, SMTT(60) DEF Few, Owned, Own, Range
  <2>8. ASSUME NEW v \in Volumes, vstate'[v] \in {Shared, Mounted}
        PROVE  v # todo[1].vol /\ vstate'[v] = vstate[v]
    BY <1>0, <2>1, <2>5, <2>6, <2>8, SMTT(60) DEF TypeOK, Idle, Shared, Mounted
  <2>9. ASSUME NEW v \in Volumes, NEW op, v # todo[1].vol, Remains(op, v)
        PROVE  Remains(op, v)'
    <3>1. PICK i \in DOMAIN todo : todo[i] = Op(op, v)
      BY <2>9 DEF Remains
    <3>2. i # 1
      BY <2>9, <3>1, SMTT(60) DEF Op
    <3>3. QED
      BY <2>1, <3>1, <3>2 DEF Remains
  <2>10. Covered'
    BY <2>3, <2>8, <2>9 DEF Covered
  <2>11. QED
    BY <2>7, <2>10
<1>5. CASE VoldRestart
  BY <1>g, <1>5 DEF VoldRestart, history
<1>6. CASE MediaEvent
  <2>1. UNCHANGED <<held, disturbed, mpc, todo, toVold, exec, inflight>>
    BY <1>6 DEF MediaEvent, history
  <2>2. \A v \in Volumes : vstate'[v] \in {vstate[v], Idle, NoMedia}
    BY <1>0, <1>6, MediaSends DEF TypeOK
  <2>3. Few /\ Owned /\ Covered
    BY <1>d, <1>e, <2>1
  <2>4. Owned' /\ Few'
    BY <2>1, <2>3 DEF Owned, Own, Few
  <2>5. Covered'
    BY <2>1, <2>2, <2>3, SMTT(60) DEF Covered, Remains, Idle, NoMedia, Shared, Mounted
  <2>6. QED
    BY <2>4, <2>5
<1>7. CASE VoldCrash
  BY <1>d, <1>7 DEF VoldCrash
<1>8. CASE MainSkips
  <2>1. /\ UNCHANGED <<held, disturbed, mpc, toVold, exec, vstate, inflight>>
        /\ mpc = "call" /\ todo # <<>> /\ todo' = Tail(todo) /\ Skipped(todo[1])
        /\ 1 \in DOMAIN todo
    BY <1>f, <1>8, SeqTail, SMTT(60) DEF MainSkips, history
  <2>2. Few /\ Owned /\ Covered /\ automount /\ sock = "open"
    BY <1>d, <1>e, <2>1
  <2>3. inflight = 0 /\ toVold = <<>> /\ exec = <<>>
    BY <2>1, <2>2, CountFacts, SMTT(60) DEF Few
  <2>4. ASSUME NEW op, NEW v \in Volumes, todo[1] = Op(op, v)
        PROVE  vstate[v] # (IF op = "all_unshare" THEN Shared ELSE Mounted)
    <3>1. todo[1].op = op /\ todo[1].vol = v
      BY <2>4, SMTT(60) DEF Op
    <3>2. op \in {"all_unshare", "all_unmount"}
      BY <1>0, <1>d, <2>1, <3>1 DEF StepsInv
    <3>3. StateOf(v) # (IF op = "all_unshare" THEN Shared ELSE Mounted)
      BY <2>1, <3>1, <3>2 DEF Skipped
    <3>4. vstate[v] \in {Shared, Mounted} => StateOf(v) = vstate[v]
      BY <2>2, <2>3, ListIsTrue
    <3>5. QED
      BY <3>3, <3>4
  <2>5. Covered'
    BY <1>h, <2>1, <2>2, <2>4
  <2>6. Few' /\ Owned'
    BY <2>1, <2>3, SMTT(60) DEF Few, Owned, Range
  <2>7. QED
    BY <2>5, <2>6
<1>9. CASE MainSends
  <2>1. /\ UNCHANGED <<held, disturbed, todo, exec, vstate>> /\ mpc = "call"
        /\ mpc' = "waiting" /\ todo # <<>> /\ Head(todo) = todo[1] /\ Send(Own)
        /\ inflight' = inflight + 1
    BY <1>f, <1>9, SeqTail DEF MainSends, Send, Own
  <2>2. Few /\ Owned /\ Covered /\ sock = "open"
    BY <1>d, <1>e, <2>1
  <2>3. inflight = 0 /\ toVold = <<>> /\ exec = <<>>
    BY <2>1, <2>2, CountFacts, SMTT(60) DEF Few
  <2>4. toVold' = <<Own>> /\ exec' = <<>>
    BY <2>1, <2>2, <2>3, SMTT(60) DEF Send, Connected
  <2>5. Own' = Own
    BY <2>1 DEF Own
  <2>6. Few'
    BY <2>1, <2>3, SMTT(60) DEF Few
  <2>7. Owned'
    BY <2>1, <2>4, <2>5, SMTT(60) DEF Owned, Range
  <2>8. Covered'
    BY <2>1, <2>2, <2>4 DEF Covered, Remains
  <2>9. QED
    BY <2>6, <2>7, <2>8
<1>10. CASE MainDies
  BY <1>d, <1>10 DEF MainDies
<1>11. CASE MainWakes
  <2>1. /\ UNCHANGED <<held, disturbed, toVold, exec, vstate, inflight>>
        /\ mpc = "waiting" /\ mpc' = "call" /\ todo # <<>> /\ todo' = Tail(todo)
        /\ inflight = 0
    BY <1>0, <1>11 DEF MainWakes, ThreadInv, history
  <2>2. Few /\ Owned /\ Covered
    BY <1>d, <1>e, <2>1
  <2>3. toVold = <<>> /\ exec = <<>>
    BY <2>1, CountFacts, SMTT(60)
  <2>4. Covered'
    BY <1>h, <2>1, <2>2, <2>3
  <2>5. Few' /\ Owned'
    BY <2>1, <2>3, SMTT(60) DEF Few, Owned, Range
  <2>6. QED
    BY <2>4, <2>5
<1>12. CASE MainReturns
  BY <1>d, <1>12 DEF MainReturns
<1>13. CASE MainCalls
  BY <1>0, <1>d, <1>13 DEF MainCalls, ThreadInv
<1>14. CASE MainUnmountsAll
  <2>1. PICK nodes \in Bijection(1..Cardinality(Volumes), Volumes) :
          todo' = UnmountSteps(nodes)
    BY <1>14 DEF MainUnmountsAll
  <2>2. /\ mpc' = "call" /\ inflight' = inflight /\ ~(inflight > 0)
        /\ UNCHANGED <<toVold, exec>>
    BY <1>d, <1>14 DEF MainUnmountsAll
  <2>3. inflight = 0 /\ toVold = <<>> /\ exec = <<>>
    BY <1>f, <2>2, CountFacts, SMTT(60)
  <2>4. Few' /\ Owned'
    BY <2>2, <2>3, SMTT(60) DEF Few, Owned, Range
  <2>5. \A v \in Volumes : Remains("all_unshare", v)' /\ Remains("all_unmount", v)'
    BY <2>1, <2>2, AllSteps DEF Remains
  <2>6. QED
    BY <2>4, <2>5 DEF Covered
<1>15. CASE EventConnects
  <2>1. UNCHANGED <<held, disturbed, toVold, exec, vstate, inflight>>
    BY <1>15 DEF EventConnects, history
  <2>2. mpc # "start"
    BY <1>d, <1>e, <2>1
  <2>3. QED
    BY <1>g, <1>15, <2>1, <2>2 DEF EventConnects
<1>16. CASE EventReads \/ EventLosesConnection \/ DispatchList \/ DispatchState
  BY <1>g, <1>16 DEF EventReads, EventLosesConnection, DispatchList, DispatchState,
     history
<1>17. CASE DispatchDisk \/ DispatchResult
  BY <1>g, <1>17 DEF DispatchDisk, DispatchResult, history
<1>18. CASE AutomountSends \/ AutomountDies
  BY <1>d, <1>18 DEF AutomountSends, AutomountDies
<1>19. CASE CompleteCommand
  <2>1. inflight > 0
    BY <1>19, CountFacts DEF CompleteCommand, InHand
  <2>2. QED
    BY <1>g, <1>19, <2>1 DEF CompleteCommand, history
<1>20. QED
  BY <1>1, <1>2, <1>3, <1>4, <1>5, <1>6, <1>7, <1>8, <1>9, <1>10, <1>11, <1>12,
     <1>13, <1>14, <1>15, <1>16, <1>17, <1>18, <1>19 DEF Next, Vold, Main, Event

-----------------------------------------------------------------------------
(* The theorems.                                                           *)

LEMMA InitInv == Init => VoldInv /\ ListAgrees
<1> SUFFICES ASSUME Init PROVE VoldInv /\ ListAgrees
  OBVIOUS
<1>1. TypeOK
  <2>1. /\ up \in BOOLEAN /\ listing \in BOOLEAN /\ automount \in BOOLEAN
        /\ held \in BOOLEAN /\ disturbed \in BOOLEAN
    BY DEF Init
  <2>2. vstate \in [Volumes -> States]
    <3>1. {NoMedia, Idle} \subseteq States
      BY DEF States
    <3>2. QED
      BY <3>1 DEF Init
  <2>3. list \in [Volumes -> States \cup {Absent}]
    BY DEF Init
  <2>4. events \in 0..MaxEvents
    BY VoldAssumption, SMTT(60) DEF Init
  <2>5. QED
    BY <2>1, <2>2, <2>3, <2>4, SMTT(60) DEF Init, TypeOK
<1>2. Owing = {} /\ ~InHand /\ toClient = <<>> /\ epc = "connect"
  BY SMTT(60) DEF Init, Owing, InHand
<1>3. Pending = 0
  BY <1>1, <1>2, PendingCounts
<1>4. ThreadInv /\ StepsInv /\ UnmountInv /\ ListAgrees
  BY DEF Init, ThreadInv, StepsInv, UnmountInv, ListAgrees
<1>5. ConnectionInv
  BY DEF Init, ConnectionInv
<1>6. CountInv
  BY <1>3, SMTT(60) DEF Init, CountInv, InflightExact
<1>7. \A v \in Volumes : vstate[v] # Busy
  BY SMTT(60) DEF Init, NoMedia, Idle, Busy
<1>8. NewsInv
  BY <1>7 DEF Init, NewsInv
<1>9. Blank
  <2>1. \A v \in Volumes : ~ListMsg(v)
    BY <1>2, SMTT(60) DEF ListMsg
  <2>2. QED
    BY <2>1 DEF Blank, NoListMsg, Init
<1>10. ListingInv
  BY <1>2, <1>9, SMTT(60) DEF ListingInv, Starting, Init
<1>11. QED
  BY <1>1, <1>4, <1>5, <1>6, <1>8, <1>10 DEF VoldInv

LEMMA InvStep ==
  ASSUME VoldInv, ListAgrees, [Next]_vars
  PROVE  VoldInv' /\ ListAgrees'
<1>1. CASE Next
  <2>1. TypeOK /\ ThreadInv /\ CountInv
    BY DEF VoldInv
  <2>2. TypeOK'
    BY <1>1, <2>1, VoldTypes, MainTypes, EventTypes DEF Next
  <2>3. ThreadInv' /\ ConnectionInv' /\ CountInv' /\ ListAgrees'
    BY <1>1, <2>2, ThreadStep, ConnectionStep, CountStep, AgreesStep
  <2>4. ListingInv' /\ NewsInv' /\ StepsInv' /\ UnmountInv'
    BY <1>1, <2>2, <2>3, ListingStep, NewsStep, StepsStep, UnmountStep
  <2>5. QED
    BY <2>2, <2>3, <2>4 DEF VoldInv
<1>2. CASE UNCHANGED vars
  <2>1. /\ UNCHANGED <<sock, toVold, toClient>>
        /\ UNCHANGED <<up, exec, listed, vstate, events>>
        /\ UNCHANGED <<list, listing, inflight, result, automount>>
        /\ UNCHANGED <<mpc, todo, ret, held>> /\ UNCHANGED <<epc, msg>>
        /\ UNCHANGED <<answer, disturbed>>
    BY <1>2 DEF vars, voldVars, sharedVars, mainVars, eventVars, history
  <2>2. TypeOK' /\ ThreadInv' /\ ConnectionInv' /\ StepsInv'
    <3>1. TypeOK /\ ThreadInv /\ ConnectionInv /\ StepsInv
      BY DEF VoldInv
    <3>2. TypeOK'
      BY <2>1, <3>1, SMTT(60) DEF TypeOK
    <3>3. ThreadInv'
      BY <2>1, <3>1 DEF ThreadInv
    <3>4. ConnectionInv'
      BY <2>1, <3>1 DEF ConnectionInv
    <3>5. StepsInv'
      BY <2>1, <3>1 DEF StepsInv
    <3> QED
      BY <3>2, <3>3, <3>4, <3>5
  <2>3. (InHand' <=> InHand) /\ Pending' = Pending /\ Owing' = Owing
    BY <2>1, SamePending DEF InHand
  <2>4. CountInv' /\ NewsInv'
    BY <2>1, <2>3 DEF VoldInv, CountInv, InflightExact, NewsInv
  <2>5. /\ Filling => Filling'
        /\ Blank => Blank'
        /\ Listed => Listed'
    BY <2>1, FillingFrame
  <2>6. ListingInv'
    BY <2>1, <2>3, <2>5 DEF VoldInv, ListingInv, Steady, Starting
  <2>7. UnmountInv'
    BY <2>1 DEF VoldInv, UnmountInv, Remains
  <2>8. ListAgrees'
    BY <2>1 DEF ListAgrees
  <2>9. QED
    BY <2>2, <2>4, <2>6, <2>7, <2>8 DEF VoldInv
<1>3. QED
  BY <1>1, <1>2

(* cmd_inflight counts exactly the commands that still owe a result, the   *)
(* listing is complete before recovery goes on, and vold_unmount_all is as *)
(* far as its remaining steps say, in every state: the invariant behind    *)
(* event_loop.c:165-271 and dispatcher.c:68-199.                           *)
THEOREM VoldInvariant == Spec => []VoldInv
<1>1. VoldInv /\ ListAgrees /\ [Next]_vars => (VoldInv /\ ListAgrees)'
  BY InvStep
<1>2. QED
  BY InitInv, <1>1, PTL DEF Spec

(* While the connection lasts the list of volumes agrees with vold but for *)
(* messages still to be read, and no volume is missing from it once        *)
(* vold_init has returned (dispatcher.c:125-199).                          *)
THEOREM ListStaysInStep == Spec => []ListInStep
<1>1. VoldInv /\ ListAgrees /\ [Next]_vars => (VoldInv /\ ListAgrees)'
  BY InvStep
<1>2. VoldInv /\ ListAgrees => ListInStep
  BY DEF VoldInv, ListingInv, Steady, Listed, ListInStep, ListComplete
<1>3. QED
  BY InitInv, <1>1, <1>2, PTL DEF Spec

(* The event thread never needs the write lock while vold_unmount_all      *)
(* holds the read lock and waits for it (dispatcher.c:72-79, 129, 155).    *)
THEOREM EventThreadNotShutOut == Spec => []WriterNeverShutOut
<1>1. ASSUME VoldInv PROVE WriterNeverShutOut
  <2>1. held => automount
    BY <1>1 DEF VoldInv, ThreadInv
  <2>2. automount => ~listing /\ NoEntry
    BY <1>1, NoEntries DEF VoldInv, ListingInv, Steady, Listed
  <2>3. QED
    BY <2>1, <2>2 DEF WriterNeverShutOut, NoEntry
<1>2. QED
  BY <1>1, VoldInvariant, PTL

(* When an undisturbed vold_unmount_all returns over a live connection, no *)
(* volume is mounted, shared or on its way there (dispatcher.c:68-82).     *)
THEOREM RebootIsClean == Spec => CleanReboot
<1>1. ASSUME VoldInv, [Next]_vars, held, ~held', sock = "open", ~disturbed,
             NEW v \in Volumes
      PROVE  vstate[v] \in {NoMedia, Idle}
  <2>1. MainReturns
    <3>1. ~UNCHANGED vars
      BY <1>1 DEF vars, mainVars
    <3>2. ~(Vold \/ MediaEvent \/ VoldCrash)
      BY <1>1, VoldThreads DEF mainVars
    <3>3. ~(MainSkips \/ MainSends \/ MainDies \/ MainWakes \/ MainCalls \/ MainUnmountsAll)
      BY <1>1 DEF MainSkips, MainSends, MainDies, MainWakes, MainCalls, MainUnmountsAll
    <3>4. ~Event
      BY <1>1 DEF Event, EventConnects, EventReads, EventLosesConnection, DispatchList,
         DispatchState, DispatchDisk, DispatchResult, AutomountSends, AutomountDies,
         CompleteCommand, mainVars
    <3>5. QED
      BY <1>1, <3>1, <3>2, <3>3, <3>4 DEF Next, Main
  <2>2. mpc = "call" /\ todo = <<>>
    BY <2>1 DEF MainReturns
  <2>3. /\ inflight = 0
        /\ vstate[v] = Shared => Remains("all_unshare", v)
        /\ vstate[v] = Mounted => Remains("all_unmount", v)
    BY <1>1, <2>2 DEF VoldInv, UnmountInv
  <2>4. vstate[v] # Shared /\ vstate[v] # Mounted
    BY <2>2, <2>3, SMTT(60) DEF Remains
  <2>5. vstate[v] # Busy
    BY <1>1, <2>3, CountFacts, SMTT(60) DEF VoldInv, NewsInv
  <2>6. vstate[v] \in States
    BY <1>1 DEF VoldInv, TypeOK
  <2>7. QED
    BY <2>4, <2>5, <2>6 DEF States
<1>2. VoldInv /\ [Next]_vars =>
        [ held /\ ~held' /\ sock = "open" /\ ~disturbed =>
            \A v \in Volumes : vstate[v] \in {NoMedia, Idle} ]_vars
  BY <1>1
<1>3. QED
  BY VoldInvariant, <1>2, PTL DEF Spec, CleanReboot

=============================================================================
