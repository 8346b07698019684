-------------------------- MODULE VoldClientSteps ---------------------------
(***************************************************************************)
(* What each step of the client of the volume daemon, of its event thread  *)
(* and of vold does to the types, the connection, the count of commands    *)
(* and the list of volumes.  Lemmas for VoldClientProofs.                  *)
(***************************************************************************)
EXTENDS VoldClient, TLAPS

(* A leaf that names no prover is for Zenon; the ones that need arithmetic *)
(* or the theory of functions and records name SMT.                        *)
USE ZenonT(60)

Messages == Events \cup Results

-----------------------------------------------------------------------------
(* Sequences that lose their head or grow by one entry.                    *)

LEMMA SeqTail ==
  ASSUME NEW S, NEW s \in Seq(S), s # <<>>
  PROVE  /\ Head(s) \in S /\ Head(s) = s[1] /\ Tail(s) \in Seq(S)
         /\ Len(s) \in Nat \ {0} /\ Len(Tail(s)) = Len(s) - 1
         /\ DOMAIN s = 1..Len(s) /\ DOMAIN Tail(s) = 1..(Len(s) - 1)
         /\ \A i \in 1..(Len(s) - 1) : Tail(s)[i] = s[i + 1]
  BY SMTT(60)

LEMMA SeqAppend ==
  ASSUME NEW S, NEW s \in Seq(S), NEW e \in S
  PROVE  /\ Append(s, e) \in Seq(S) /\ Len(s) \in Nat
         /\ Len(Append(s, e)) = Len(s) + 1
         /\ DOMAIN s = 1..Len(s) /\ DOMAIN Append(s, e) = 1..(Len(s) + 1)
         /\ \A i \in 1..Len(s) : Append(s, e)[i] = s[i]
         /\ Append(s, e)[Len(s) + 1] = e
  BY SMTT(60)

(* What a message is made of.                                              *)
LEMMA MessageKinds ==
  ASSUME NEW m \in Messages
  PROVE  /\ m.type \in {"list", "state", "inserted", "removed", "result"}
         /\ m.type = "result" => m \in Results /\ m.code \in Codes
         /\ m.type # "result" => m.vol \in Volumes
         /\ m.type \in {"list", "state"} => m.state \in States
         /\ m # NoMsg
<1>1. CASE m \in [type: {"list", "state"}, vol: Volumes, state: States]
  BY <1>1, SMTT(60) DEF NoMsg
<1>2. CASE m \in [type: {"inserted", "removed"}, vol: Volumes]
  BY <1>2, SMTT(60) DEF NoMsg
<1>3. CASE m \in Results
  BY <1>3, SMTT(60) DEF Results, NoMsg
<1>4. QED
  BY <1>1, <1>2, <1>3 DEF Messages, Events

-----------------------------------------------------------------------------
(* The results in a queue of messages.                                     *)

Answers(q) == {i \in 1..Len(q) : q[i].type = "result"}

(* How many results a queue holds, when it grows by a message and when it  *)
(* loses its head: VoldClientProofs derives these laws of Cardinality, the *)
(* lemmas here only use them.                                              *)
CountLaws ==
  \A q \in Seq(Messages) :
    /\ Cardinality(Answers(q)) \in Nat
    /\ Cardinality(Answers(q)) = 0 <=> Answers(q) = {}
    /\ \A m \in Messages :
         m.type = "result" =>
           Cardinality(Answers(Append(q, m))) = Cardinality(Answers(q)) + 1
    /\ q # <<>> =>
         Cardinality(Answers(q)) = Cardinality(Answers(Tail(q)))
                                   + (IF Head(q).type = "result" THEN 1 ELSE 0)

LEMMA AnswersAppend ==
  ASSUME CountLaws, NEW q \in Seq(Messages), NEW m \in Messages
  PROVE  /\ m.type # "result" => Answers(Append(q, m)) = Answers(q)
         /\ m.type = "result" =>
              /\ Answers(Append(q, m)) = Answers(q) \cup {Len(q) + 1}
              /\ Cardinality(Answers(Append(q, m)))
                   = Cardinality(Answers(q)) + 1
<1>1. /\ Len(q) \in Nat /\ Len(Append(q, m)) = Len(q) + 1
      /\ \A i \in 1..Len(q) : Append(q, m)[i] = q[i]
      /\ Append(q, m)[Len(q) + 1] = m
  BY SeqAppend, SMTT(60)
<1>2. /\ 1..(Len(q) + 1) = 1..Len(q) \cup {Len(q) + 1}
      /\ Len(q) + 1 \notin 1..Len(q)
  BY <1>1, SMTT(60)
<1>3. CASE m.type # "result"
  BY <1>1, <1>2, <1>3 DEF Answers
<1>4. CASE m.type = "result"
  <2>1. Answers(Append(q, m)) = Answers(q) \cup {Len(q) + 1}
    BY <1>1, <1>2, <1>4 DEF Answers
  <2>2. QED
    BY <1>4, <2>1 DEF CountLaws
<1>5. QED
  BY <1>3, <1>4

LEMMA AnswersTail ==
  ASSUME CountLaws, NEW q \in Seq(Messages), q # <<>>
  PROVE  Cardinality(Answers(q)) = Cardinality(Answers(Tail(q)))
                                   + (IF Head(q).type = "result" THEN 1 ELSE 0)
  BY DEF CountLaws

LEMMA AnswersFinite ==
  ASSUME CountLaws, NEW q \in Seq(Messages)
  PROVE  /\ Cardinality(Answers(q)) \in Nat
         /\ Cardinality(Answers(q)) = 0 <=> Answers(q) = {}
  BY DEF CountLaws

(* Pending is a number, and counts the result in hand.                     *)
LEMMA PendingCounts ==
  ASSUME CountLaws, TypeOK
  PROVE  /\ Owing = Answers(toClient) /\ Cardinality(Owing) \in Nat
         /\ toClient \in Seq(Messages)
         /\ Pending \in Nat
         /\ Pending = Cardinality(Answers(toClient)) + (IF InHand THEN 1 ELSE 0)
         /\ Pending = 0 <=> Owing = {} /\ ~InHand
<1>1. toClient \in Seq(Messages)
  BY DEF TypeOK, Messages
<1>2. Owing = Answers(toClient)
  BY <1>1, SMTT(60) DEF Owing, Answers
<1>3. Cardinality(Owing) \in Nat /\ (Cardinality(Owing) = 0 <=> Owing = {})
  BY <1>1, <1>2, AnswersFinite
<1>4. QED
  BY <1>1, <1>2, <1>3, SMTT(60) DEF Pending

-----------------------------------------------------------------------------
(* Types.                                                                  *)

LEMMA SendTypes ==
  ASSUME TypeOK, NEW c \in Commands, Send(c)
  PROVE  /\ sock' \in {"none", "open", "hungup", "closed"}
         /\ toVold' \in Seq(Commands)
         /\ inflight' \in Nat
<1>1. Append(toVold, c) \in Seq(Commands)
  BY SeqAppend DEF TypeOK
<1>2. QED
  BY <1>1, SMTT(60) DEF Send, Connected, TypeOK

LEMMA SetStateTypes ==
  ASSUME TypeOK, NEW v \in Volumes, NEW s \in States, SetState(v, s)
  PROVE  list' \in [Volumes -> States \cup {Absent}]
  BY DEF SetState, TypeOK

(* How vold ends a command: a listing succeeds; another command that had   *)
(* begun succeeds or fails; one that could not begin fails.                *)
Ended(code, s) ==
  /\ toClient' = Append(Append(toClient, StateChange(exec[1].vol, s)),
                        Result(exec[1], code))
  /\ vstate' = [vstate EXCEPT ![exec[1].vol] = s]
Refused(code) ==
  /\ toClient' = Append(toClient, Result(exec[1], code))
  /\ vstate' = vstate

LEMMA HowVoldEnds ==
  ASSUME TypeOK, VoldEnds
  PROVE  /\ exec # <<>> /\ exec[1] \in Commands /\ Len(exec) = 1
         /\ exec' = <<>> /\ listed' = {}
         /\ \E code \in Codes :
              /\ answer' = IF exec[1].by = "main" THEN code ELSE answer
              /\ disturbed' = (disturbed \/ (exec[1].by = "main" /\ code = "failed"))
              /\ \/ exec[1].op = "list" /\ listed = Volumes /\ code = "okay"
                    /\ Refused(code)
                 \/ /\ exec[1].op # "list" /\ vstate[exec[1].vol] = Busy
                    /\ Ended(code, IF code = "okay" THEN To(exec[1].op)
                                   ELSE From(exec[1].op))
                 \/ /\ exec[1].op # "list" /\ code = "failed"
                    /\ vstate[exec[1].vol] \notin {Busy, From(exec[1].op)}
                    /\ Refused(code)
         /\ UNCHANGED <<sock, toVold, up, events, sharedVars, mainVars, eventVars>>
<1>1. exec # <<>> /\ exec[1] \in Commands /\ Len(exec) = 1
  BY SMTT(60) DEF VoldEnds, TypeOK
<1>2. "okay" \in Codes /\ "failed" \in Codes
  BY DEF Codes
<1>3. QED
  BY <1>1, <1>2 DEF VoldEnds, Ended, Refused

LEMMA OpStates == \A op : From(op) \in States \ {Busy} /\ To(op) \in States \ {Busy}
  BY SMTT(60) DEF From, To, States, NoMedia, Idle, Busy, Mounted, Shared

LEMMA VoldTypes ==
  ASSUME TypeOK, Vold \/ MediaEvent \/ VoldCrash
  PROVE  TypeOK'
<1> USE VoldAssumption
<1>1. CASE VoldTakes
  <2>1. toVold' \in Seq(Commands) /\ exec' \in {<<c>> : c \in Commands}
    BY <1>1, SeqTail DEF VoldTakes, TypeOK
  <2>2. QED
    BY <1>1, <2>1, SMTT(60) DEF VoldTakes, TypeOK, sharedVars, mainVars, eventVars, history
<1>2. CASE VoldLists
  <2>1. PICK v \in Volumes \ listed :
          /\ toClient' = Append(toClient,
                           [type |-> "list", vol |-> v, state |-> vstate[v]])
          /\ listed' = listed \cup {v}
    BY <1>2 DEF VoldLists
  <2>2. [type |-> "list", vol |-> v, state |-> vstate[v]] \in Messages
    BY DEF Messages, Events, TypeOK
  <2>3. toClient' \in Seq(Messages)
    BY <2>1, <2>2, SeqAppend DEF TypeOK, Messages
  <2>4. QED
    BY <1>2, <2>1, <2>3, SMTT(60) DEF VoldLists, TypeOK, sharedVars, mainVars, eventVars,
       history, Messages
<1>3. CASE VoldBegins
  <2>1. exec[1] \in Commands
    BY <1>3, SMTT(60) DEF VoldBegins, TypeOK
  <2>2. StateChange(exec[1].vol, Busy) \in Messages
    BY <2>1 DEF StateChange, Messages, Events, Commands, States
  <2>3. toClient' \in Seq(Messages)
    BY <1>3, <2>2, SeqAppend DEF TypeOK, Messages, VoldBegins
  <2>4. vstate' \in [Volumes -> States]
    BY <1>3 DEF VoldBegins, TypeOK, States
  <2>5. QED
    BY <1>3, <2>3, <2>4, SMTT(60) DEF VoldBegins, TypeOK, sharedVars, mainVars, eventVars,
       history, Messages
<1>4. CASE VoldEnds
  <2>1. exec[1] \in Commands
    BY <1>4, SMTT(60) DEF VoldEnds, TypeOK
  <2>2. \A code \in Codes : Result(exec[1], code) \in Messages
    BY <2>1 DEF Result, Messages, Results, Commands
  <2>3. \A s \in States : StateChange(exec[1].vol, s) \in Messages
    BY <2>1 DEF StateChange, Messages, Events, Commands
  <2>4. PICK code \in Codes :
          /\ answer' = IF exec[1].by = "main" THEN code ELSE answer
          /\ disturbed' = (disturbed \/ (exec[1].by = "main" /\ code = "failed"))
          /\ \/ Refused(code)
             \/ Ended(code, IF code = "okay" THEN To(exec[1].op)
                            ELSE From(exec[1].op))
    BY <1>4, HowVoldEnds
  <2>5. toClient' \in Seq(Messages) /\ vstate' \in [Volumes -> States]
    <3>1. ASSUME NEW q \in Seq(Messages)
          PROVE  Append(q, Result(exec[1], code)) \in Seq(Messages)
      BY <2>2, SeqAppend
    <3>2. ASSUME NEW s \in States
          PROVE  Append(toClient, StateChange(exec[1].vol, s)) \in Seq(Messages)
      BY <2>3, SeqAppend DEF TypeOK, Messages
    <3>3. toClient \in Seq(Messages)
      BY DEF TypeOK, Messages
    <3>4. CASE Refused(code)
      BY <3>1, <3>3, <3>4 DEF Refused, TypeOK
    <3>5. ASSUME NEW s \in States, Ended(code, s)
          PROVE  toClient' \in Seq(Messages) /\ vstate' \in [Volumes -> States]
      BY <3>1, <3>2, <3>5 DEF Ended, TypeOK
    <3>6. QED
      BY <2>4, <3>4, <3>5, OpStates
  <2>6. answer' \in Codes \cup {"none"} /\ disturbed' \in BOOLEAN
    BY <2>4 DEF TypeOK
  <2>7. QED
    BY <1>4, <2>5, <2>6, SMTT(60) DEF VoldEnds, TypeOK, sharedVars, mainVars, eventVars,
       Messages
<1>5. CASE VoldRestart
  BY <1>5, SMTT(60) DEF VoldRestart, TypeOK, sharedVars, mainVars, eventVars, history
<1>6. CASE MediaEvent
  <2>1. PICK v \in Volumes :
          LET inserted == vstate[v] = NoMedia IN
            /\ vstate' = [vstate EXCEPT ![v] = IF inserted THEN Idle ELSE NoMedia]
            /\ toClient' =
                 IF sock # "open" THEN toClient
                 ELSE Append(toClient,
                        [type |-> IF inserted THEN "inserted" ELSE "removed",
                         vol  |-> v])
    BY <1>6 DEF MediaEvent
  <2>2. \A b \in {"inserted", "removed"} : [type |-> b, vol |-> v] \in Messages
    BY DEF Messages, Events
  <2>3. toClient' \in Seq(Messages)
    BY <2>1, <2>2, SeqAppend DEF TypeOK, Messages
  <2>4. vstate' \in [Volumes -> States]
    BY <2>1 DEF TypeOK, States
  <2>5. events' \in 0..MaxEvents
    BY <1>6, SMTT(60) DEF MediaEvent, TypeOK
  <2>6. QED
    BY <1>6, <2>3, <2>4, <2>5, SMTT(60) DEF MediaEvent, TypeOK, sharedVars, mainVars,
       eventVars, history, Messages
<1>7. CASE VoldCrash
  <2>1. vstate' \in [Volumes -> States]
    BY <1>7 DEF VoldCrash, TypeOK, States
  <2>2. /\ toVold' = <<>> /\ exec' = <<>> /\ listed' = {} /\ up' \in BOOLEAN
        /\ sock' = IF sock = "open" THEN "hungup" ELSE sock
    BY <1>7 DEF VoldCrash
  <2>3. UNCHANGED <<toClient, events, sharedVars, mainVars, eventVars, history>>
    BY <1>7 DEF VoldCrash
  <2>4. QED
    BY <2>1, <2>2, <2>3, SMTT(60) DEF TypeOK, sharedVars, mainVars, eventVars, history
<1>8. QED
  BY <1>1, <1>2, <1>3, <1>4, <1>5, <1>6, <1>7 DEF Vold

LEMMA OpTypes ==
  ASSUME NEW op \in Ops \cup {"all_unshare", "all_unmount"}, NEW v \in Volumes
  PROVE  Op(op, v) \in Steps
  BY DEF Op, Steps

LEMMA CallTypes ==
  ASSUME NEW s \in Calls
  PROVE  /\ s \in Seq(Steps) /\ s # <<>>
         /\ \A i \in DOMAIN s : s[i].op \in Ops \ {"list"}
<1> DEFINE One(op) == {<<Op(op, v)>> : v \in Volumes}
<1>1. ASSUME NEW op \in Ops \ {"list"}, NEW v \in Volumes, s = <<Op(op, v)>>
      PROVE  /\ s \in Seq(Steps) /\ s # <<>>
             /\ \A i \in DOMAIN s : s[i].op \in Ops \ {"list"}
  <2>1. Op(op, v) \in Steps /\ Op(op, v).op = op
    BY OpTypes DEF Op
  <2>2. QED
    BY <1>1, <2>1, SMTT(60)
<1>2. ASSUME NEW o1 \in Ops \ {"list"}, NEW o2 \in Ops \ {"list"}, NEW v \in Volumes,
             s = <<Op(o1, v), Op(o2, v)>>
      PROVE  /\ s \in Seq(Steps) /\ s # <<>>
             /\ \A i \in DOMAIN s : s[i].op \in Ops \ {"list"}
  <2>1. /\ Op(o1, v) \in Steps /\ Op(o1, v).op = o1
        /\ Op(o2, v) \in Steps /\ Op(o2, v).op = o2
    BY OpTypes DEF Op
  <2>2. QED
    BY <1>2, <2>1, SMTT(60)
<1>3. {"mount", "unmount", "share", "unshare", "format"} \subseteq Ops \ {"list"}
  BY DEF Ops
<1>4. \E v \in Volumes :
        \/ s = <<Op("mount", v)>> \/ s = <<Op("unmount", v)>>
        \/ s = <<Op("format", v)>> \/ s = <<Op("share", v)>>
        \/ s = <<Op("unmount", v), Op("share", v)>>
        \/ s = <<Op("unshare", v), Op("mount", v)>>
  BY DEF Calls
<1>5. QED
  BY <1>1, <1>2, <1>3, <1>4

(* The steps of vold_unmount_all: two for every volume, in order.          *)
LEMMA AllSteps ==
  ASSUME NEW nodes \in Bijection(1..Cardinality(Volumes), Volumes)
  PROVE  LET s == UnmountSteps(nodes) IN
         /\ s \in Seq(Steps)
         /\ \A i \in DOMAIN s : s[i].op \in {"all_unshare", "all_unmount"}
         /\ \A i, j \in DOMAIN s : i < j /\ s[i].vol = s[j].vol =>
              s[i].op = "all_unshare" /\ s[j].op = "all_unmount"
         /\ \A v \in Volumes : /\ \E i \in DOMAIN s : s[i] = Op("all_unshare", v)
                               /\ \E i \in DOMAIN s : s[i] = Op("all_unmount", v)
<1> DEFINE s == UnmountSteps(nodes)
<1> DEFINE n == Cardinality(Volumes)
<1>1. n \in Nat
  BY VoldAssumption
<1> HIDE DEF n
<1>2. /\ nodes \in [1..n -> Volumes]
      /\ \A i, j \in 1..n : nodes[i] = nodes[j] => i = j
      /\ \A v \in Volumes : \E i \in 1..n : nodes[i] = v
  BY DEF Bijection, Injection, Surjection, IsInjective, n
<1>3. ASSUME NEW k \in 1..(2 * n)
      PROVE  (k + 1) \div 2 \in 1..n
  BY <1>1, SMTT(60)
<1>4. ASSUME NEW k \in 1..(2 * n)
      PROVE  /\ s[k] \in Steps
             /\ s[k].op = IF k % 2 = 1 THEN "all_unshare" ELSE "all_unmount"
             /\ s[k].vol = nodes[(k + 1) \div 2]
  <2>1. s[k] = Op(IF k % 2 = 1 THEN "all_unshare" ELSE "all_unmount",
                  nodes[(k + 1) \div 2])
    BY DEF n, UnmountSteps
  <2>2. nodes[(k + 1) \div 2] \in Volumes
    BY <1>2, <1>3
  <2>3. QED
    BY <2>1, <2>2, SMTT(60) DEF Op, Steps
<1>5. s = [k \in 1..(2 * n) |->
             Op(IF k % 2 = 1 THEN "all_unshare" ELSE "all_unmount",
                nodes[(k + 1) \div 2])]
  BY DEF n, UnmountSteps
<1> HIDE DEF s
<1>6. s \in Seq(Steps) /\ DOMAIN s = 1..(2 * n)
  <2>1. \A k \in 1..(2 * n) : Op(IF k % 2 = 1 THEN "all_unshare" ELSE "all_unmount",
                nodes[(k + 1) \div 2]) \in Steps
    BY <1>2, <1>3, OpTypes
  <2>2. s \in [1..(2 * n) -> Steps]
    BY <1>5, <2>1
  <2>3. 2 * n \in Nat
    BY <1>1, SMTT(60)
  <2>4. QED
    BY <2>2, <2>3, SMTT(60)
<1>7. ASSUME NEW i \in 1..(2 * n), NEW j \in 1..(2 * n), i < j,
             s[i].vol = s[j].vol
      PROVE  s[i].op = "all_unshare" /\ s[j].op = "all_unmount"
  <2>1. (i + 1) \div 2 = (j + 1) \div 2
    <3>1. nodes[(i + 1) \div 2] = nodes[(j + 1) \div 2]
      BY <1>4, <1>7
    <3>2. (i + 1) \div 2 \in 1..n /\ (j + 1) \div 2 \in 1..n
      BY <1>3
    <3>3. QED
      BY <1>2, <3>1, <3>2
  <2>2. i % 2 = 1 /\ j % 2 # 1
    BY <1>1, <1>7, <2>1, SMTT(60)
  <2>3. QED
    BY <1>4, <2>2
<1>8. ASSUME NEW v \in Volumes
      PROVE  /\ \E i \in 1..(2 * n) : s[i] = Op("all_unshare", v)
             /\ \E i \in 1..(2 * n) : s[i] = Op("all_unmount", v)
  <2>1. PICK m \in 1..n : nodes[m] = v
    BY <1>2
  <2>2. /\ 2 * m - 1 \in 1..(2 * n) /\ 2 * m \in 1..(2 * n)
        /\ (2 * m - 1) % 2 = 1 /\ (2 * m - 1 + 1) \div 2 = m
        /\ (2 * m) % 2 # 1 /\ (2 * m + 1) \div 2 = m
    BY <1>1, SMTT(60)
  <2>3. s[2 * m - 1] = Op("all_unshare", v) /\ s[2 * m] = Op("all_unmount", v)
    BY <1>5, <2>1, <2>2
  <2>4. QED
    BY <2>2, <2>3
<1>9. \A i \in DOMAIN s : s[i].op \in {"all_unshare", "all_unmount"}
  BY <1>4, <1>6
<1>10. \A i, j \in DOMAIN s : i < j /\ s[i].vol = s[j].vol =>
         s[i].op = "all_unshare" /\ s[j].op = "all_unmount"
  BY <1>6, <1>7
<1>11. \A v \in Volumes : /\ \E i \in DOMAIN s : s[i] = Op("all_unshare", v)
                          /\ \E i \in DOMAIN s : s[i] = Op("all_unmount", v)
  BY <1>6, <1>8
<1>12. QED
  BY <1>6, <1>9, <1>10, <1>11 DEF s

LEMMA CommandTypes ==
  ASSUME NEW st \in Steps
  PROVE  /\ st.vol \in Volumes /\ st.op \in Ops \cup {"all_unshare", "all_unmount"}
         /\ [op |-> CommandOf(st.op), vol |-> st.vol, by |-> "main"] \in Commands
         /\ st = Op(st.op, st.vol)
<1>1. /\ st.vol \in Volumes /\ st.op \in Ops \cup {"all_unshare", "all_unmount"}
      /\ st = Op(st.op, st.vol)
  BY DEF Steps, Op
<1>2. CommandOf(st.op) \in Ops
  BY <1>1 DEF CommandOf, Ops
<1>3. QED
  BY <1>1, <1>2 DEF Commands

LEMMA MainTypes ==
  ASSUME TypeOK, ThreadInv, Main \/ MainCalls \/ MainUnmountsAll
  PROVE  TypeOK'
<1> USE DEF voldVars, sharedVars, eventVars, history
<1>1. CASE MainSkips
  <2>1. todo' \in Seq(Steps)
    BY <1>1, SeqTail DEF MainSkips, TypeOK
  <2>2. QED
    BY <1>1, <2>1, SMTT(60) DEF MainSkips, TypeOK
<1>2. CASE MainSends
  <2>1. Head(todo) \in Steps
    BY <1>2, SeqTail DEF MainSends, TypeOK
  <2>2. /\ sock' \in {"none", "open", "hungup", "closed"}
        /\ toVold' \in Seq(Commands)
        /\ inflight' \in Nat
    BY <1>2, <2>1, CommandTypes, SendTypes DEF MainSends
  <2>3. QED
    BY <1>2, <2>2, SMTT(60) DEF MainSends, TypeOK
<1>3. CASE MainDies
  BY <1>3, SMTT(60) DEF MainDies, TypeOK
<1>4. CASE MainWakes
  <2>1. todo' \in Seq(Steps)
    BY <1>4, SeqTail DEF MainWakes, TypeOK, ThreadInv
  <2>2. QED
    BY <1>4, <2>1, SMTT(60) DEF MainWakes, TypeOK
<1>5. CASE MainReturns
  <2>1. /\ mpc' = "idle" /\ held' \in BOOLEAN /\ automount' \in BOOLEAN
        /\ held' = FALSE /\ automount' = TRUE
    BY <1>5 DEF MainReturns
  <2>2. UNCHANGED <<sock, toVold, toClient, voldVars, list, listing, inflight,
                    result, todo, ret, eventVars, history>>
    BY <1>5 DEF MainReturns
  <2>3. QED
    BY <2>1, <2>2, SMTT(60) DEF TypeOK
<1>6. CASE MainCalls
  <2>1. todo' \in Seq(Steps)
    BY <1>6, CallTypes DEF MainCalls
  <2>2. QED
    BY <1>6, <2>1, SMTT(60) DEF MainCalls, TypeOK
<1>7. CASE MainUnmountsAll
  <2>1. todo' \in Seq(Steps)
    BY <1>7, AllSteps, SMTT(60) DEF MainUnmountsAll
  <2>2. disturbed' \in BOOLEAN
    BY <1>7, SMTT(60) DEF MainUnmountsAll
  <2>3. QED
    BY <1>7, <2>1, <2>2, SMTT(60) DEF MainUnmountsAll, TypeOK
<1>8. QED
  BY <1>1, <1>2, <1>3, <1>4, <1>5, <1>6, <1>7 DEF Main

(* The event thread has a message of the right kind where it uses one.     *)
LEMMA MessageInHand ==
  ASSUME TypeOK, ThreadInv
  PROVE  /\ epc = "dispatch" => msg \in Messages
         /\ epc = "automount" => msg \in Messages /\ msg.vol \in Volumes
         /\ epc = "complete" => msg \in Messages /\ msg.code \in Codes
<1>1. msg \in Messages \cup {NoMsg} /\ NoMsg.type = "none"
  BY DEF TypeOK, Messages, NoMsg
<1>2. QED
  BY <1>1, MessageKinds DEF ThreadInv

LEMMA EventTypes ==
  ASSUME CountLaws, TypeOK, ThreadInv, CountInv, Event
  PROVE  TypeOK'
<1> USE DEF voldVars, sharedVars, mainVars, history
<1>1. CASE EventConnects
  <2>1. todo' \in Seq(Steps) /\ mpc' \in {"start", "idle", "call", "waiting", "dead"}
    <3>1. \A v \in Volumes : <<Op("list", v)>> \in Seq(Steps)
      BY OpTypes, SMTT(60) DEF Ops
    <3>2. QED
      BY <1>1, <3>1 DEF EventConnects, TypeOK
  <2>2. sock' \in {"none", "open", "hungup", "closed"}
    BY <1>1 DEF EventConnects, Connected, TypeOK
  <2>3. QED
    BY <1>1, <2>1, <2>2, SMTT(60) DEF EventConnects, TypeOK
<1>2. CASE EventReads
  <2>1. msg' \in Messages /\ toClient' \in Seq(Messages)
    BY <1>2, PendingCounts, SeqTail DEF EventReads
  <2>2. QED
    BY <1>2, <2>1, SMTT(60) DEF EventReads, TypeOK, Messages
<1>3. CASE EventLosesConnection
  BY <1>3, SMTT(60) DEF EventLosesConnection, TypeOK
<1>4. CASE DispatchList
  <2>1. msg.vol \in Volumes /\ msg.state \in States
    BY <1>4, MessageInHand, MessageKinds DEF DispatchList
  <2>2. list' \in [Volumes -> States \cup {Absent}]
    BY <1>4, <2>1 DEF DispatchList, TypeOK
  <2>3. QED
    BY <1>4, <2>2, SMTT(60) DEF DispatchList, TypeOK
<1>5. CASE DispatchState
  <2>1. msg.vol \in Volumes /\ msg.state \in States
    BY <1>5, MessageInHand, MessageKinds DEF DispatchState
  <2>2. list' \in [Volumes -> States \cup {Absent}]
    BY <1>5, <2>1, SetStateTypes DEF DispatchState
  <2>3. QED
    BY <1>5, <2>2, SMTT(60) DEF DispatchState, TypeOK
<1>6. CASE DispatchDisk
  <2>1. msg.vol \in Volumes
    BY <1>6, MessageInHand, MessageKinds DEF DispatchDisk
  <2>2. Idle \in States /\ NoMedia \in States
    BY DEF States
  <2>3. list' \in [Volumes -> States \cup {Absent}]
    BY <1>6, <2>1, <2>2, SetStateTypes DEF DispatchDisk
  <2>4. QED
    BY <1>6, <2>3, SMTT(60) DEF DispatchDisk, TypeOK
<1>7. CASE DispatchResult
  <2>1. listing' \in BOOLEAN
    BY <1>7 DEF DispatchResult, TypeOK
  <2>2. epc' = "complete" /\ UNCHANGED <<sock, toVold, toClient, voldVars, list,
                     inflight, result, automount, mainVars, msg, history>>
    BY <1>7 DEF DispatchResult
  <2>3. QED
    BY <2>1, <2>2, SMTT(60) DEF TypeOK
<1>8. CASE AutomountSends
  <2>1. [op |-> "mount", vol |-> msg.vol, by |-> "event"] \in Commands
    BY <1>8, MessageInHand DEF AutomountSends, Commands, Ops
  <2>2. /\ sock' \in {"none", "open", "hungup", "closed"}
        /\ toVold' \in Seq(Commands)
        /\ inflight' \in Nat
    BY <1>8, <2>1, SendTypes DEF AutomountSends
  <2>3. QED
    BY <1>8, <2>2, SMTT(60) DEF AutomountSends, TypeOK
<1>9. CASE AutomountDies
  BY <1>9, SMTT(60) DEF AutomountDies, TypeOK, eventVars
<1>10. CASE CompleteCommand
  <2>1. inflight \in Nat /\ inflight >= 1
    BY <1>10, PendingCounts, SMTT(60) DEF CompleteCommand, CountInv, InHand, TypeOK
  <2>2. msg.code \in Codes
    BY <1>10, MessageInHand DEF CompleteCommand
  <2>3. inflight' \in Nat /\ result' \in Codes
    BY <1>10, <2>1, <2>2, SMTT(60) DEF CompleteCommand
  <2>4. QED
    BY <1>10, <2>3, SMTT(60) DEF CompleteCommand, TypeOK
<1>11. QED
  BY <1>1, <1>2, <1>3, <1>4, <1>5, <1>6, <1>7, <1>8, <1>9, <1>10 DEF Event

-----------------------------------------------------------------------------
(* The threads.                                                            *)

LEMMA VoldThreads ==
  ASSUME Vold \/ MediaEvent \/ VoldCrash
  PROVE  UNCHANGED <<sharedVars, mainVars, eventVars>>
<1>1. VoldTakes \/ VoldLists \/ VoldBegins \/ VoldRestart \/ VoldEnds
      => UNCHANGED <<sharedVars, mainVars, eventVars>>
  BY DEF VoldTakes, VoldLists, VoldBegins, VoldRestart, VoldEnds
<1>2. MediaEvent \/ VoldCrash => UNCHANGED <<sharedVars, mainVars, eventVars>>
  BY DEF MediaEvent, VoldCrash
<1>3. QED
  BY <1>1, <1>2 DEF Vold

LEMMA ThreadStep ==
  ASSUME CountLaws, VoldInv, Next
  PROVE  ThreadInv'
<1> USE DEF sharedVars, mainVars, eventVars
<1>0. TypeOK /\ ThreadInv
  BY DEF VoldInv
<1>1. CASE Vold \/ MediaEvent \/ VoldCrash
  BY <1>0, <1>1, VoldThreads, SMTT(60) DEF ThreadInv
<1>2. CASE Main
  BY <1>0, <1>2, SMTT(60) DEF Main, MainSkips, MainSends, MainDies, MainWakes, MainReturns,
     ThreadInv
<1>3. CASE MainCalls \/ MainUnmountsAll
  BY <1>0, <1>3 DEF MainCalls, MainUnmountsAll, ThreadInv
<1>4. CASE EventConnects \/ EventLosesConnection
  BY <1>0, <1>4, SMTT(60) DEF EventConnects, EventLosesConnection, ThreadInv
<1>5. CASE EventReads
  <2>1. msg' \in Messages
    BY <1>0, <1>5, PendingCounts, SeqTail DEF EventReads
  <2>2. QED
    BY <1>0, <1>5, <2>1, MessageKinds DEF EventReads, ThreadInv
<1>6. CASE DispatchList \/ DispatchState \/ DispatchDisk \/ DispatchResult
  BY <1>0, <1>6, SMTT(60) DEF DispatchList, DispatchState, DispatchDisk, DispatchResult,
     ThreadInv
<1>7. CASE AutomountSends \/ AutomountDies \/ CompleteCommand
  BY <1>0, <1>7, SMTT(60) DEF AutomountSends, AutomountDies, CompleteCommand, ThreadInv
<1>8. QED
  BY <1>1, <1>2, <1>3, <1>4, <1>5, <1>6, <1>7 DEF Next, Event

-----------------------------------------------------------------------------
(* The connection.                                                         *)

LEMMA ConnectionStep ==
  ASSUME VoldInv, Next
  PROVE  ConnectionInv'
<1> USE DEF voldVars, sharedVars, mainVars, eventVars
<1>0. TypeOK /\ ThreadInv /\ ConnectionInv
  BY DEF VoldInv
<1>1. CASE VoldTakes \/ VoldLists \/ VoldBegins \/ VoldRestart
  BY <1>0, <1>1, SMTT(60) DEF VoldTakes, VoldLists, VoldBegins, VoldRestart, ConnectionInv
<1>2. CASE VoldEnds
  BY <1>0, <1>2, HowVoldEnds DEF ConnectionInv
<1>3. CASE MediaEvent
  BY <1>0, <1>3 DEF MediaEvent, ConnectionInv
<1>4. CASE VoldCrash
  BY <1>0, <1>4 DEF VoldCrash, ConnectionInv
<1>5. CASE MainSkips \/ MainDies \/ MainWakes \/ MainCalls \/ MainUnmountsAll
  BY <1>0, <1>5, SMTT(60) DEF MainSkips, MainDies, MainWakes, MainCalls, MainUnmountsAll,
     ConnectionInv
<1>6. CASE MainSends
  BY <1>0, <1>6 DEF MainSends, Send, Connected, ConnectionInv
<1>7. CASE MainReturns
  <2>1. sock # "none"
    BY <1>0, <1>7 DEF MainReturns, VoldInv, ListingInv, Starting, ConnectionInv
  <2>2. QED
    BY <1>0, <1>7, <2>1 DEF MainReturns, ConnectionInv
<1>8. CASE EventConnects
  BY <1>0, <1>8 DEF EventConnects, Connected, ConnectionInv
<1>9. CASE EventReads \/ EventLosesConnection
  BY <1>0, <1>9 DEF EventReads, EventLosesConnection, ConnectionInv
<1>10. CASE DispatchList \/ DispatchState \/ DispatchDisk \/ DispatchResult
  BY <1>0, <1>10 DEF DispatchList, DispatchState, DispatchDisk, DispatchResult,
     ConnectionInv
<1>11. CASE AutomountSends \/ AutomountDies \/ CompleteCommand
  BY <1>0, <1>11 DEF AutomountSends, AutomountDies, CompleteCommand, Send,
     Connected, ConnectionInv
<1>12. QED
  BY <1>1, <1>2, <1>3, <1>4, <1>5, <1>6, <1>7, <1>8, <1>9, <1>10, <1>11
     DEF Next, Vold, Main, Event

-----------------------------------------------------------------------------
(* What vold sends.                                                        *)

LEMMA ListsSends ==
  ASSUME TypeOK, VoldLists
  PROVE  \E v \in Volumes \ listed, m \in Messages :
           /\ m.type = "list" /\ m.vol = v /\ m.state = vstate[v]
           /\ toClient' = Append(toClient, m) /\ listed' = listed \cup {v}
<1>1. PICK v \in Volumes \ listed :
        /\ toClient' = Append(toClient,
                         [type |-> "list", vol |-> v, state |-> vstate[v]])
        /\ listed' = listed \cup {v}
  BY DEF VoldLists
<1>2. [type |-> "list", vol |-> v, state |-> vstate[v]] \in Messages
  BY DEF Messages, Events, TypeOK
<1>3. QED
  BY <1>1, <1>2

LEMMA BeginsSends ==
  ASSUME TypeOK, VoldBegins
  PROVE  /\ exec # <<>> /\ exec[1] \in Commands /\ exec[1].op # "list"
         /\ exec[1].vol \in Volumes
         /\ vstate[exec[1].vol] = From(exec[1].op)
         /\ vstate' = [vstate EXCEPT ![exec[1].vol] = Busy]
         /\ \E m \in Messages :
              /\ m.type = "state" /\ m.vol = exec[1].vol /\ m.state = Busy
              /\ toClient' = Append(toClient, m)
<1>1. exec[1] \in Commands
  <2>1. exec # <<>>
    BY DEF VoldBegins
  <2>2. exec \in {<<>>} \cup {<<c>> : c \in Commands}
    BY DEF TypeOK
  <2> QED
    BY <2>1, <2>2, SMTT(60)
<1>2. /\ StateChange(exec[1].vol, Busy) \in Messages
      /\ StateChange(exec[1].vol, Busy).type = "state"
      /\ StateChange(exec[1].vol, Busy).vol = exec[1].vol
      /\ StateChange(exec[1].vol, Busy).state = Busy
      /\ exec[1].vol \in Volumes
  BY <1>1 DEF StateChange, Messages, Events, Commands, States
<1>3. QED
  BY <1>1, <1>2 DEF VoldBegins

LEMMA MediaSends ==
  ASSUME TypeOK, MediaEvent
  PROVE  \E v \in Volumes, m \in Messages :
           /\ m.type \in {"inserted", "removed"} /\ m.vol = v
           /\ Tells(m) \in {Idle, NoMedia}
           /\ vstate' = [vstate EXCEPT ![v] = Tells(m)]
           /\ toClient' = IF sock # "open" THEN toClient ELSE Append(toClient, m)
<1>1. PICK v \in Volumes :
        LET inserted == vstate[v] = NoMedia IN
          /\ vstate' = [vstate EXCEPT ![v] = IF inserted THEN Idle ELSE NoMedia]
          /\ toClient' =
               IF sock # "open" THEN toClient
               ELSE Append(toClient,
                      [type |-> IF inserted THEN "inserted" ELSE "removed",
                       vol  |-> v])
  BY DEF MediaEvent
<1> DEFINE ty == IF vstate[v] = NoMedia THEN "inserted" ELSE "removed"
           m == [type |-> ty, vol |-> v]
<1>2. ty \in {"inserted", "removed"}
  OBVIOUS
<1>3. m \in Messages /\ m.type = ty /\ m.vol = v
  BY <1>2 DEF Messages, Events
<1>4. Tells(m) = IF vstate[v] = NoMedia THEN Idle ELSE NoMedia
  BY <1>3 DEF Tells
<1>5. toClient' = IF sock # "open" THEN toClient ELSE Append(toClient, m)
  BY <1>1
<1>6. vstate' = [vstate EXCEPT ![v] = Tells(m)]
  BY <1>1, <1>4
<1> HIDE DEF m
<1>7. QED
  BY <1>2, <1>3, <1>4, <1>5, <1>6

LEMMA EndsSends ==
  ASSUME TypeOK, VoldEnds
  PROVE  /\ exec # <<>> /\ exec[1] \in Commands /\ Len(exec) = 1
         /\ exec' = <<>> /\ listed' = {} /\ exec[1].vol \in Volumes
         /\ UNCHANGED <<sock, toVold, up, events, sharedVars, mainVars, eventVars>>
         /\ \E m \in Messages :
              /\ m.type = "result"
              /\ disturbed' = (disturbed \/ (exec[1].by = "main" /\ m.code = "failed"))
              /\ \/ /\ exec[1].op = "list" /\ listed = Volumes /\ m.code = "okay"
                    /\ toClient' = Append(toClient, m) /\ vstate' = vstate
                 \/ \E e \in Messages :
                      /\ exec[1].op # "list" /\ vstate[exec[1].vol] = Busy
                      /\ e.type = "state" /\ e.vol = exec[1].vol
                      /\ e.state \in States \ {Busy}
                      /\ e.state = IF m.code = "okay" THEN To(exec[1].op)
                                   ELSE From(exec[1].op)
                      /\ vstate' = [vstate EXCEPT ![exec[1].vol] = e.state]
                      /\ toClient' = Append(Append(toClient, e), m)
                 \/ /\ exec[1].op # "list" /\ m.code = "failed"
                    /\ vstate[exec[1].vol] \notin {Busy, From(exec[1].op)}
                    /\ toClient' = Append(toClient, m) /\ vstate' = vstate
<1>1. /\ exec # <<>> /\ exec[1] \in Commands /\ Len(exec) = 1
      /\ exec' = <<>> /\ listed' = {} /\ exec[1].vol \in Volumes
      /\ UNCHANGED <<sock, toVold, up, events, sharedVars, mainVars, eventVars>>
  BY HowVoldEnds DEF Commands
<1>2. PICK code \in Codes :
        /\ disturbed' = (disturbed \/ (exec[1].by = "main" /\ code = "failed"))
        /\ \/ exec[1].op = "list" /\ listed = Volumes /\ code = "okay"
              /\ Refused(code)
           \/ /\ exec[1].op # "list" /\ vstate[exec[1].vol] = Busy
              /\ Ended(code, IF code = "okay" THEN To(exec[1].op)
                             ELSE From(exec[1].op))
           \/ /\ exec[1].op # "list" /\ code = "failed"
              /\ vstate[exec[1].vol] \notin {Busy, From(exec[1].op)}
              /\ Refused(code)
  BY HowVoldEnds
<1> DEFINE m == Result(exec[1], code)
           s == IF code = "okay" THEN To(exec[1].op) ELSE From(exec[1].op)
           e == StateChange(exec[1].vol, s)
<1>3. m \in Messages /\ m.type = "result" /\ m.code = code
  BY <1>1 DEF Result, Messages, Results, Commands
<1>4. s \in States \ {Busy}
  BY OpStates
<1>5. /\ e \in Messages /\ e.type = "state" /\ e.vol = exec[1].vol
      /\ e.state = s
  BY <1>1, <1>4 DEF StateChange, Messages, Events, Commands
<1>6. CASE exec[1].op = "list" /\ listed = Volumes /\ code = "okay" /\ Refused(code)
  BY <1>1, <1>2, <1>3, <1>6 DEF Refused
<1>7. CASE /\ exec[1].op # "list" /\ code = "failed" /\ Refused(code)
           /\ vstate[exec[1].vol] \notin {Busy, From(exec[1].op)}
  BY <1>1, <1>2, <1>3, <1>7 DEF Refused
<1>8. CASE /\ exec[1].op # "list" /\ vstate[exec[1].vol] = Busy
           /\ Ended(code, s)
  <2>1. /\ toClient' = Append(Append(toClient, e), m)
        /\ vstate' = [vstate EXCEPT ![exec[1].vol] = s]
    BY <1>8 DEF Ended
  <2> HIDE DEF m, e
  <2>2. QED
    BY <1>1, <1>2, <1>3, <1>4, <1>5, <1>8, <2>1
<1>9. QED
  BY <1>2, <1>6, <1>7, <1>8

-----------------------------------------------------------------------------
(* The count of commands in flight.                                        *)

LEMMA SamePending ==
  ASSUME toClient' = toClient, InHand' <=> InHand
  PROVE  Pending' = Pending /\ Owing' = Owing
BY DEF Pending, Owing

LEMMA PendingCountsAfter ==
  ASSUME CountLaws, TypeOK'
  PROVE  /\ Owing' = Answers(toClient') /\ toClient' \in Seq(Messages)
         /\ Pending' \in Nat
         /\ Pending' = Cardinality(Answers(toClient')) + (IF InHand' THEN 1 ELSE 0)
<1>1. toClient' \in Seq(Messages)
  BY DEF TypeOK, Messages
<1>2. Owing' = Answers(toClient')
  BY <1>1, SMTT(60) DEF Owing, Answers
<1>3. Cardinality(Answers(toClient')) \in Nat
  BY <1>1, AnswersFinite
<1>4. QED
  BY <1>1, <1>2, <1>3, SMTT(60) DEF Pending

LEMMA SentPending ==
  ASSUME CountLaws, TypeOK, TypeOK', NEW m \in Messages, toClient' = Append(toClient, m),
         InHand' <=> InHand
  PROVE  /\ m.type # "result" => Pending' = Pending /\ Owing' = Owing
         /\ m.type = "result" =>
              Pending' = Pending + 1 /\ Owing' = Owing \cup {Len(toClient) + 1}
<1>1. /\ toClient \in Seq(Messages) /\ Owing = Answers(toClient)
      /\ Pending = Cardinality(Answers(toClient)) + (IF InHand THEN 1 ELSE 0)
  BY PendingCounts
<1>2. /\ Owing' = Answers(toClient')
      /\ Pending' = Cardinality(Answers(toClient')) + (IF InHand' THEN 1 ELSE 0)
  BY PendingCountsAfter
<1>3. Cardinality(Answers(toClient)) \in Nat
  BY <1>1, AnswersFinite
<1>4. QED
  BY <1>1, <1>2, <1>3, AnswersAppend, SMTT(60)

LEMMA CountStep ==
  ASSUME CountLaws, VoldInv, Next, TypeOK'
  PROVE  CountInv'
<1> USE DEF voldVars, sharedVars, mainVars, eventVars
<1>0. TypeOK /\ ThreadInv /\ ConnectionInv /\ CountInv
  BY DEF VoldInv
<1>a. /\ Pending \in Nat /\ toClient \in Seq(Messages) /\ inflight \in Nat
      /\ Pending = Cardinality(Answers(toClient)) + (IF InHand THEN 1 ELSE 0)
      /\ Cardinality(Answers(toClient)) \in Nat
      /\ toVold \in Seq(Commands) /\ Len(toVold) \in Nat /\ Len(exec) \in Nat
  BY <1>0, PendingCounts, SMTT(60) DEF TypeOK
<1>b. /\ Pending' \in Nat
      /\ Pending' = Cardinality(Answers(toClient')) + (IF InHand' THEN 1 ELSE 0)
  BY PendingCountsAfter
<1>c. /\ Pending \in Nat /\ inflight \in Nat
      /\ Len(toVold) \in Nat /\ Len(exec) \in Nat
  BY <1>a
<1>d. /\ sock = "open" => inflight = Len(toVold) + Len(exec) + Pending
      /\ inflight >= Pending
  BY <1>0 DEF CountInv, InflightExact
<1>1. CASE VoldTakes
  <2>1. Len(toVold') = Len(toVold) - 1 /\ Len(exec') = 1 /\ Len(exec) = 0
    BY <1>a, <1>1, SeqTail DEF VoldTakes
  <2>2. Pending' = Pending /\ inflight' = inflight /\ sock' = sock
    BY <1>1, SamePending DEF VoldTakes, InHand
  <2>3. QED
    BY <1>0, <1>a, <2>1, <2>2, SMTT(60) DEF CountInv, InflightExact
<1>2. CASE VoldLists
  <2>1. PICK m \in Messages : m.type = "list" /\ toClient' = Append(toClient, m)
    BY <1>0, <1>2, ListsSends
  <2>2. Pending' = Pending
    BY <1>0, <1>a, <1>2, <2>1, SentPending DEF VoldLists, InHand
  <2>3. QED
    BY <1>0, <1>2, <2>2 DEF VoldLists, CountInv, InflightExact
<1>3. CASE VoldBegins
  <2>1. PICK m \in Messages : m.type = "state" /\ toClient' = Append(toClient, m)
    BY <1>0, <1>3, BeginsSends
  <2>2. Pending' = Pending
    BY <1>0, <1>a, <1>3, <2>1, SentPending DEF VoldBegins, InHand
  <2>3. QED
    BY <1>0, <1>3, <2>2 DEF VoldBegins, CountInv, InflightExact
<1>4. CASE VoldEnds
  <2>1. /\ Len(exec) = 1 /\ exec' = <<>> /\ sock = "open"
        /\ UNCHANGED <<sock, toVold, inflight, epc, msg>>
    BY <1>0, <1>4, EndsSends DEF ConnectionInv
  <2>2. PICK m \in Messages :
          /\ m.type = "result"
          /\ \/ toClient' = Append(toClient, m)
             \/ \E e \in Messages : /\ e.type = "state"
                                    /\ toClient' = Append(Append(toClient, e), m)
    BY <1>0, <1>4, EndsSends
  <2>3. Cardinality(Answers(toClient')) = Cardinality(Answers(toClient)) + 1
    <3>1. CASE toClient' = Append(toClient, m)
      BY <1>a, <2>2, <3>1, AnswersAppend
    <3>2. ASSUME NEW e \in Messages, e.type = "state",
                 toClient' = Append(Append(toClient, e), m)
          PROVE  Cardinality(Answers(toClient')) = Cardinality(Answers(toClient)) + 1
      <4>1. Append(toClient, e) \in Seq(Messages)
        BY <1>a, SeqAppend
      <4>2. Answers(Append(toClient, e)) = Answers(toClient)
        BY <1>a, <3>2, AnswersAppend
      <4>3. QED
        BY <2>2, <3>2, <4>1, <4>2, AnswersAppend
    <3>3. QED
      BY <2>2, <3>1, <3>2
  <2>4. Pending' = Pending + 1
    BY <1>a, <1>b, <2>1, <2>3, SMTT(60) DEF InHand
  <2>5. /\ Len(exec') = 0 /\ Len(exec) = 1 /\ Len(toVold') = Len(toVold)
        /\ inflight' = inflight /\ sock' = sock
    BY <2>1
  <2>6. inflight = Len(toVold) + 1 + Pending
    BY <1>c, <1>d, <2>1
  <2>7. inflight' = Len(toVold') + Len(exec') + Pending' /\ inflight' >= Pending'
    BY <1>c, <2>4, <2>5, <2>6, SMTT(60)
  <2>8. QED
    BY <2>7 DEF CountInv, InflightExact
<1>5. CASE VoldRestart
  <2>1. Pending' = Pending
    BY <1>5, SamePending DEF VoldRestart, InHand
  <2>2. QED
    BY <1>0, <1>5, <2>1 DEF VoldRestart, CountInv, InflightExact
<1>6. CASE MediaEvent
  <2>1. PICK m \in Messages :
          /\ m.type \in {"inserted", "removed"}
          /\ toClient' = IF sock # "open" THEN toClient ELSE Append(toClient, m)
    BY <1>0, <1>6, MediaSends
  <2>2. Pending' = Pending
    BY <1>0, <1>a, <1>6, <2>1, SentPending, SamePending DEF MediaEvent, InHand
  <2>3. QED
    BY <1>0, <1>6, <2>2 DEF MediaEvent, CountInv, InflightExact
<1>7. CASE VoldCrash
  <2>1. Pending' = Pending /\ sock' # "open" /\ inflight' = inflight
    BY <1>7, SamePending DEF VoldCrash, InHand
  <2>2. QED
    BY <1>0, <2>1 DEF CountInv, InflightExact
<1>8. CASE MainSkips \/ MainDies \/ MainWakes \/ MainCalls \/ MainUnmountsAll
  <2>1. UNCHANGED <<toClient, epc, msg, inflight, toVold, exec, sock>>
    BY <1>8 DEF MainSkips, MainDies, MainWakes, MainCalls, MainUnmountsAll
  <2>2. Pending' = Pending
    BY <2>1, SamePending DEF InHand
  <2>3. QED
    BY <1>0, <2>1, <2>2 DEF CountInv, InflightExact
<1>9. CASE MainReturns
  <2>1. UNCHANGED <<toClient, epc, msg, inflight, toVold, exec, sock>>
    BY <1>9 DEF MainReturns
  <2>2. Pending' = Pending
    BY <2>1, SamePending DEF InHand
  <2>3. QED
    BY <1>0, <2>1, <2>2 DEF CountInv, InflightExact
<1>10. CASE MainSends
  <2>1. PICK c \in Commands : Send(c)
    <3>1. Head(todo) \in Steps
      BY <1>0, <1>10, SeqTail DEF MainSends, TypeOK
    <3>2. QED
      BY <1>10, <3>1, CommandTypes DEF MainSends
  <2>2. Pending' = Pending /\ exec' = exec
    BY <1>10, SamePending DEF MainSends, InHand
  <2>3. sock = "none" => inflight = 0
    BY <1>0, <1>10 DEF MainSends, VoldInv, ConnectionInv, ListingInv, Starting
  <2>4. Len(Append(toVold, c)) = Len(toVold) + 1
    BY <1>a, SeqAppend
  <2>5. sock = "none" => Len(toVold) = 0 /\ Len(exec) = 0 /\ Pending = 0
    BY <1>0, <1>a, <2>3, SMTT(60) DEF ConnectionInv, CountInv
  <2>6. /\ inflight' = inflight + 1 /\ Len(exec') = Len(exec)
        /\ sock' = "open" => Len(toVold') = Len(toVold) + 1
        /\ sock' = "open" => sock \in {"open", "none"}
    BY <2>1, <2>2, <2>4 DEF Send, Connected
  <2>7. QED
    BY <1>c, <1>d, <2>2, <2>3, <2>5, <2>6, SMTT(60) DEF CountInv, InflightExact
<1>11. CASE AutomountSends
  <2>1. PICK c \in Commands : Send(c)
    BY <1>0, <1>11, MessageInHand DEF AutomountSends, Commands, Ops
  <2>2. Pending' = Pending /\ exec' = exec
    BY <1>11, SamePending DEF AutomountSends, InHand
  <2>3. sock = "open"
    BY <1>0, <1>11 DEF AutomountSends, ConnectionInv, TypeOK
  <2>4. Len(Append(toVold, c)) = Len(toVold) + 1
    BY <1>a, SeqAppend
  <2>5. /\ inflight' = inflight + 1 /\ Len(exec') = Len(exec)
        /\ Len(toVold') = Len(toVold) + 1
    BY <2>1, <2>2, <2>3, <2>4 DEF Send, Connected
  <2>6. QED
    BY <1>c, <1>d, <2>2, <2>3, <2>5, SMTT(60) DEF CountInv, InflightExact
<1>12. CASE EventConnects
  <2>1. UNCHANGED <<toClient, msg, inflight, toVold, exec>> /\ sock' = Connected
    BY <1>12 DEF EventConnects
  <2>2. Pending' = Pending
    BY <1>12, <2>1, SamePending DEF InHand, EventConnects
  <2>3. sock = "none" => inflight = 0 /\ Len(toVold) = 0 /\ Len(exec) = 0
    BY <1>0, <1>12 DEF EventConnects, VoldInv, ConnectionInv, ListingInv, Starting
  <2>4. QED
    BY <1>0, <1>a, <2>1, <2>2, <2>3, SMTT(60) DEF Connected, CountInv, InflightExact
<1>13. CASE EventReads
  <2>1. ~InHand /\ toClient # <<>> /\ (InHand' <=> Head(toClient).type = "result")
    BY <1>13 DEF InHand, EventReads
  <2>2. Pending' = Pending
    <3>1. toClient' = Tail(toClient) /\ Tail(toClient) \in Seq(Messages)
      BY <1>a, <1>13, <2>1, SeqTail DEF EventReads
    <3>2. Cardinality(Answers(Tail(toClient))) \in Nat
      BY <3>1, AnswersFinite
    <3>3. QED
      BY <1>a, <1>b, <2>1, <3>1, <3>2, AnswersTail, SMTT(60)
  <2>3. QED
    BY <1>0, <1>13, <2>2 DEF EventReads, CountInv, InflightExact
<1>14. CASE EventLosesConnection
  <2>1. Pending' = Pending
    BY <1>14, SamePending DEF EventLosesConnection, InHand
  <2>2. QED
    BY <1>0, <1>14, <2>1 DEF EventLosesConnection, CountInv, InflightExact
<1>15. CASE DispatchList \/ DispatchState \/ DispatchDisk \/ DispatchResult
  <2>1. UNCHANGED <<toClient, inflight, toVold, exec, sock>> /\ (InHand' <=> InHand)
    BY <1>15 DEF DispatchList, DispatchState, DispatchDisk, DispatchResult, InHand
  <2>2. Pending' = Pending
    BY <2>1, SamePending
  <2>3. QED
    BY <1>0, <2>1, <2>2 DEF CountInv, InflightExact
<1>16. CASE AutomountDies
  <2>1. Pending' = Pending
    BY <1>16, SamePending DEF AutomountDies, InHand
  <2>2. QED
    BY <1>0, <1>16, <2>1 DEF AutomountDies, CountInv, InflightExact
<1>17. CASE CompleteCommand
  <2>1. /\ UNCHANGED <<toClient, toVold, exec, sock>> /\ inflight' = inflight - 1
        /\ InHand /\ ~InHand'
    BY <1>17 DEF CompleteCommand, InHand
  <2>2. Pending' = Pending - 1
    BY <1>a, <1>b, <2>1, SMTT(60)
  <2>3. QED
    BY <1>0, <1>a, <2>1, <2>2, SMTT(60) DEF CountInv, InflightExact
<1>18. QED
  BY <1>1, <1>2, <1>3, <1>4, <1>5, <1>6, <1>7, <1>8, <1>9, <1>10, <1>11, <1>12,
     <1>13, <1>14, <1>15, <1>16, <1>17 DEF Next, Vold, Main, Event

-----------------------------------------------------------------------------
(* The listing.                                                            *)

(* What the count leaves room for.                                         *)
LEMMA CountFacts ==
  ASSUME CountLaws, VoldInv
  PROVE  /\ inflight \in Nat /\ Pending \in Nat
         /\ InHand \/ Owing # {} <=> Pending > 0
         /\ Pending > 0 => inflight > 0
         /\ toVold # <<>> \/ exec # <<>> => sock = "open" /\ inflight > 0
         /\ inflight <= 1 /\ exec # <<>> => toVold = <<>> /\ Pending = 0
         /\ inflight <= 1 /\ toVold # <<>> =>
              Len(toVold) = 1 /\ exec = <<>> /\ Pending = 0
         /\ inflight <= 1 /\ Pending > 0 => toVold = <<>> /\ exec = <<>>
<1>1. TypeOK /\ ConnectionInv /\ CountInv
  BY DEF VoldInv
<1>2. /\ Pending \in Nat /\ inflight \in Nat
      /\ Pending = 0 <=> Owing = {} /\ ~InHand
  BY <1>1, PendingCounts DEF TypeOK
<1>3. /\ Len(toVold) \in Nat /\ (toVold # <<>> <=> Len(toVold) > 0)
  BY <1>1, SMTT(60) DEF TypeOK
<1>4. /\ Len(exec) \in Nat /\ (exec # <<>> <=> Len(exec) > 0)
  BY <1>1, SMTT(60) DEF TypeOK
<1>5. /\ sock = "open" => inflight = Len(toVold) + Len(exec) + Pending
      /\ inflight >= Pending
      /\ sock # "open" => toVold = <<>> /\ exec = <<>>
  BY <1>1 DEF CountInv, InflightExact, ConnectionInv
<1>6. InHand \/ Owing # {} <=> Pending > 0
  BY <1>2, SMTT(60)
<1>7. Pending > 0 => inflight > 0
  BY <1>2, <1>5, SMTT(60)
<1>8. ASSUME sock = "open"
      PROVE  /\ toVold # <<>> \/ exec # <<>> => inflight > 0
             /\ inflight <= 1 /\ exec # <<>> => toVold = <<>> /\ Pending = 0
             /\ inflight <= 1 /\ toVold # <<>> =>
                  Len(toVold) = 1 /\ exec = <<>> /\ Pending = 0
             /\ inflight <= 1 /\ Pending > 0 => toVold = <<>> /\ exec = <<>>
  <2> DEFINE n == Len(toVold)
             k == Len(exec)
             p == Pending
  <2>1. n \in Nat /\ k \in Nat /\ p \in Nat /\ inflight = n + k + p
    BY <1>2, <1>3, <1>4, <1>5, <1>8
  <2>2. (toVold # <<>> <=> n > 0) /\ (exec # <<>> <=> k > 0)
    BY <1>3, <1>4
  <2> HIDE DEF n, k, p
  <2>3. /\ n > 0 \/ k > 0 => inflight > 0
        /\ inflight <= 1 /\ k > 0 => ~(n > 0) /\ p = 0
        /\ inflight <= 1 /\ n > 0 => n = 1 /\ ~(k > 0) /\ p = 0
        /\ inflight <= 1 /\ p > 0 => ~(n > 0) /\ ~(k > 0)
    BY <2>1, SMTT(60)
  <2>4. QED
    BY <2>2, <2>3 DEF n, p
<1>9. QED
  BY <1>2, <1>5, <1>6, <1>7, <1>8

(* No entry of a listing is on its way.                                    *)
NoEntry ==
  /\ epc = "dispatch" => msg.type # "list"
  /\ \A i \in DOMAIN toClient : toClient[i].type # "list"

LEMMA NoEntries ==
  ASSUME CountLaws, TypeOK, ThreadInv
  PROVE  NoListMsg <=> NoEntry
<1>1. epc = "dispatch" => msg \in Messages
  BY MessageInHand
<1>2. toClient \in Seq(Messages)
  BY PendingCounts
<1>3. \A i \in DOMAIN toClient : toClient[i] \in Messages
  BY <1>2, SMTT(60)
<1>4. QED
  BY <1>1, <1>3, MessageKinds DEF NoListMsg, NoEntry, ListMsg

LEMMA NoEntriesAfter ==
  ASSUME CountLaws, TypeOK', ThreadInv'
  PROVE  NoListMsg' <=> NoEntry'
<1>1. (epc = "dispatch" => msg \in Messages)'
  <2>1. (msg \in Messages \cup {NoMsg})'
    BY DEF TypeOK, Messages
  <2>2. QED
    BY <2>1 DEF ThreadInv
<1>2. toClient' \in Seq(Messages)
  BY PendingCountsAfter
<1>3. \A i \in DOMAIN toClient' : toClient'[i] \in Messages
  BY <1>2, SMTT(60)
<1>4. QED
  BY <1>1, <1>3, MessageKinds DEF NoListMsg, NoEntry, ListMsg

(* A message behind the others, and the first one read.                    *)
LEMMA SentList ==
  ASSUME CountLaws, TypeOK, NEW m \in Messages, toClient' = Append(toClient, m),
         UNCHANGED eventVars
  PROVE  /\ NoEntry /\ m.type # "list" => NoEntry'
         /\ \A v \in Volumes : ListMsg(v) => ListMsg(v)'
         /\ m.type = "list" => ListMsg(m.vol)'
<1>1. /\ toClient \in Seq(Messages) /\ Len(toClient) \in Nat
      /\ DOMAIN toClient = 1..Len(toClient)
      /\ DOMAIN toClient' = 1..(Len(toClient) + 1)
      /\ \A i \in 1..Len(toClient) : toClient'[i] = toClient[i]
      /\ toClient'[Len(toClient) + 1] = m
  <2>1. toClient \in Seq(Messages)
    BY PendingCounts
  <2>2. /\ Len(toClient) \in Nat /\ DOMAIN toClient = 1..Len(toClient)
        /\ DOMAIN Append(toClient, m) = 1..(Len(toClient) + 1)
        /\ \A i \in 1..Len(toClient) : Append(toClient, m)[i] = toClient[i]
        /\ Append(toClient, m)[Len(toClient) + 1] = m
    BY <2>1, SeqAppend, SMTT(60)
  <2> QED
    BY <2>1, <2>2
<1>2. DOMAIN toClient' = DOMAIN toClient \cup {Len(toClient) + 1}
  BY <1>1, SMTT(60)
<1>3. NoEntry /\ m.type # "list" => NoEntry'
  BY <1>1, <1>2 DEF NoEntry, eventVars
<1>4. ASSUME NEW v \in Volumes, ListMsg(v) PROVE ListMsg(v)'
  BY <1>1, <1>2, <1>4 DEF ListMsg, eventVars
<1>5. m.type = "list" => ListMsg(m.vol)'
  BY <1>1, <1>2 DEF ListMsg
<1>6. QED
  BY <1>3, <1>4, <1>5

LEMMA ReadList ==
  ASSUME CountLaws, TypeOK, EventReads
  PROVE  /\ NoEntry => NoEntry'
         /\ \A v \in Volumes : ListMsg(v) => ListMsg(v)'
         /\ Pending' = Pending
<1>1. /\ toClient \in Seq(Messages) /\ toClient # <<>> /\ msg' = toClient[1]
      /\ toClient' = Tail(toClient) /\ Len(toClient) \in Nat \ {0}
      /\ DOMAIN toClient = 1..Len(toClient)
      /\ DOMAIN toClient' = 1..(Len(toClient) - 1)
      /\ \A i \in 1..(Len(toClient) - 1) : toClient'[i] = toClient[i + 1]
      /\ epc = "monitor" /\ epc' = "dispatch" /\ Tail(toClient) \in Seq(Messages)
      /\ Head(toClient) = toClient[1]
  BY PendingCounts, SeqTail DEF EventReads
<1>2. NoEntry => NoEntry'
  BY <1>1, SMTT(60) DEF NoEntry
<1>3. ASSUME NEW v \in Volumes, ListMsg(v) PROVE ListMsg(v)'
  <2>1. PICK i \in 1..Len(toClient) : toClient[i].type = "list" /\ toClient[i].vol = v
    BY <1>1, <1>3 DEF ListMsg
  <2>2. CASE i = 1
    BY <1>1, <2>1, <2>2 DEF ListMsg
  <2>3. CASE i # 1
    <3>1. i - 1 \in 1..(Len(toClient) - 1) /\ (i - 1) + 1 = i
      BY <1>1, <2>3, SMTT(60)
    <3>2. toClient'[i - 1] = toClient[i] /\ i - 1 \in DOMAIN toClient'
      BY <1>1, <3>1
    <3>3. QED
      BY <2>1, <3>2 DEF ListMsg
  <2>4. QED
    BY <2>2, <2>3
<1>4. Pending' = Pending
  <2>1. ~InHand /\ (InHand' <=> Head(toClient).type = "result")
    BY <1>1 DEF InHand
  <2>2. /\ Owing = Answers(toClient) /\ Owing' = Answers(toClient')
    BY <1>1, SMTT(60) DEF Owing, Answers
  <2>3. Cardinality(Answers(Tail(toClient))) \in Nat
    BY <1>1, AnswersFinite
  <2>4. QED
    BY <1>1, <2>1, <2>2, <2>3, AnswersTail, SMTT(60) DEF Pending
<1>5. QED
  BY <1>2, <1>3, <1>4

LEMMA SetStateKeeps ==
  ASSUME TypeOK, NEW v \in Volumes, NEW s \in States, SetState(v, s)
  PROVE  \A w \in Volumes : list'[w] = Absent <=> list[w] = Absent
BY SMTT(60) DEF SetState, TypeOK, States, NoMedia, Idle, Busy, Mounted, Shared, Absent

(* What a message does to the list; an entry is never dispatched while the *)
(* rest of recovery runs.                                                  *)
LEMMA DispatchKeeps ==
  ASSUME TypeOK, ThreadInv, DispatchState \/ DispatchDisk \/ DispatchResult
  PROVE  /\ \A w \in Volumes : list'[w] = Absent <=> list[w] = Absent
         /\ NoEntry => NoEntry'
         /\ \A v \in Volumes : ListMsg(v) <=> ListMsg(v)'
         /\ UNCHANGED <<sock, toVold, toClient, exec, listed, vstate, todo, mpc,
                        automount, inflight, msg, held, disturbed>>
<1> USE DEF voldVars, mainVars, history
<1>1. CASE DispatchState
  <2>1. msg.vol \in Volumes /\ msg.state \in States
    BY <1>1, MessageInHand, MessageKinds DEF DispatchState
  <2>2. \A w \in Volumes : list'[w] = Absent <=> list[w] = Absent
    BY <1>1, <2>1, SetStateKeeps DEF DispatchState
  <2>3. QED
    BY <1>1, <2>2 DEF DispatchState, NoEntry, ListMsg
<1>2. CASE DispatchDisk
  <2>1. msg.vol \in Volumes /\ Idle \in States /\ NoMedia \in States
    BY <1>2, MessageInHand, MessageKinds DEF DispatchDisk, States
  <2>2. \A w \in Volumes : list'[w] = Absent <=> list[w] = Absent
    BY <1>2, <2>1, SetStateKeeps DEF DispatchDisk
  <2>3. QED
    BY <1>2, <2>2 DEF DispatchDisk, NoEntry, ListMsg
<1>3. CASE DispatchResult
  BY <1>3 DEF DispatchResult, NoEntry, ListMsg
<1>4. QED
  BY <1>1, <1>2, <1>3

LEMMA SteadyStep ==
  ASSUME CountLaws, VoldInv, Next, TypeOK', ThreadInv', automount
  PROVE  automount' /\ Steady'
<1> USE DEF voldVars, sharedVars, mainVars, eventVars
<1> DEFINE Settled == ~listing /\ NoEntry /\ \A v \in Volumes : list[v] # Absent
           Quiet == /\ \A i \in DOMAIN toVold : toVold[i].op # "list"
                    /\ exec # <<>> => exec[1].op # "list"
           Left == \A i \in DOMAIN todo : todo[i].op # "list"
<1>0. TypeOK /\ ThreadInv /\ ConnectionInv /\ Settled /\ Quiet /\ Left
  BY NoEntries DEF VoldInv, ListingInv, Steady, Listed
<1>a. SUFFICES automount' /\ Settled' /\ Quiet' /\ Left'
  BY NoEntriesAfter DEF Steady, Listed
<1>b. /\ toVold \in Seq(Commands) /\ todo \in Seq(Steps)
      /\ toClient \in Seq(Messages)
  BY <1>0, PendingCounts DEF TypeOK
<1>c. ASSUME todo # <<>>, todo' = Tail(todo)
      PROVE  Left'
  BY <1>0, <1>b, <1>c, SeqTail, SMTT(60)
<1>d. ASSUME NEW c \in Commands, c.op # "list", Send(c), exec' = exec
      PROVE  Quiet'
  <2>1. CASE toVold' = toVold
    BY <1>0, <1>d, <2>1
  <2>2. CASE toVold' = Append(toVold, c)
    <3>1. /\ DOMAIN toVold' = DOMAIN toVold \cup {Len(toVold) + 1}
          /\ \A i \in DOMAIN toVold : toVold'[i] = toVold[i]
          /\ toVold'[Len(toVold) + 1] = c
      BY <1>b, <2>2, SeqAppend, SMTT(60)
    <3>2. QED
      BY <1>0, <1>d, <3>1
  <2>3. QED
    BY <1>d, <2>1, <2>2 DEF Send
<1>1. CASE VoldTakes
  <2>1. Quiet'
    BY <1>0, <1>b, <1>1, SeqTail, SMTT(60) DEF VoldTakes
  <2>2. QED
    BY <1>0, <1>1, <2>1 DEF VoldTakes, NoEntry
<1>2. CASE VoldLists
  BY <1>0, <1>2 DEF VoldLists
<1>3. CASE VoldBegins
  <2>1. PICK m \in Messages : m.type = "state" /\ toClient' = Append(toClient, m)
    BY <1>0, <1>3, BeginsSends
  <2>2. NoEntry'
    BY <1>0, <1>3, <2>1, SentList DEF VoldBegins
  <2>3. QED
    BY <1>0, <1>3, <2>2 DEF VoldBegins
<1>4. CASE VoldEnds
  <2>1. exec' = <<>> /\ UNCHANGED <<sock, toVold, up, events, sharedVars,
                                    mainVars, eventVars>>
    BY <1>0, <1>4, EndsSends
  <2>2. NoEntry'
    <3>1. PICK m \in Messages :
            /\ m.type = "result"
            /\ \/ toClient' = Append(toClient, m)
               \/ \E e \in Messages : /\ e.type = "state"
                                      /\ toClient' = Append(Append(toClient, e), m)
      BY <1>0, <1>4, EndsSends
    <3>2. CASE toClient' = Append(toClient, m)
      BY <1>0, <2>1, <3>1, <3>2, SentList
    <3>3. ASSUME NEW e \in Messages, e.type = "state",
                 toClient' = Append(Append(toClient, e), m)
          PROVE  NoEntry'
      <4>1. /\ Append(toClient, e) \in Seq(Messages) /\ Len(toClient) \in Nat
            /\ Len(Append(toClient, e)) = Len(toClient) + 1
            /\ \A i \in 1..Len(toClient) : Append(toClient, e)[i] = toClient[i]
            /\ Append(toClient, e)[Len(toClient) + 1] = e
        BY <1>b, SeqAppend, SMTT(60)
      <4>2. \A i \in 1..(Len(toClient) + 1) :
              i \in 1..Len(toClient) \/ i = Len(toClient) + 1
        BY <4>1, SMTT(60)
      <4>3. \A i \in 1..(Len(toClient) + 1) : Append(toClient, e)[i].type # "list"
        BY <1>0, <1>b, <3>3, <4>1, <4>2, SMTT(60) DEF NoEntry
      <4>4. /\ DOMAIN toClient' = 1..(Len(toClient) + 2)
            /\ \A i \in 1..(Len(toClient) + 1) :
                 toClient'[i] = Append(toClient, e)[i]
            /\ toClient'[Len(toClient) + 2] = m
        <5>1. /\ DOMAIN toClient' = 1..(Len(Append(toClient, e)) + 1)
              /\ \A i \in 1..Len(Append(toClient, e)) :
                   toClient'[i] = Append(toClient, e)[i]
              /\ toClient'[Len(Append(toClient, e)) + 1] = m
          BY <3>3, <4>1, SeqAppend, SMTT(60)
        <5>2. QED
          BY <4>1, <5>1, SMTT(60)
      <4>5. \A i \in DOMAIN toClient' : toClient'[i].type # "list"
        BY <3>1, <4>1, <4>3, <4>4, SMTT(60)
      <4>6. QED
        BY <1>0, <2>1, <4>5 DEF NoEntry
    <3>4. QED
      BY <3>1, <3>2, <3>3
  <2>3. QED
    BY <1>0, <2>1, <2>2
<1>5. CASE VoldRestart
  BY <1>0, <1>5 DEF VoldRestart, NoEntry
<1>6. CASE MediaEvent
  <2>1. PICK m \in Messages :
          /\ m.type \in {"inserted", "removed"}
          /\ toClient' = IF sock # "open" THEN toClient ELSE Append(toClient, m)
    BY <1>0, <1>6, MediaSends
  <2>2. UNCHANGED <<sock, toVold, exec, sharedVars, mainVars, eventVars>>
    BY <1>6 DEF MediaEvent
  <2>3. NoEntry'
    <3>1. CASE toClient' = toClient
      BY <1>0, <2>2, <3>1 DEF NoEntry
    <3>2. CASE toClient' = Append(toClient, m)
      BY <1>0, <2>1, <2>2, <3>2, SentList
    <3>3. QED
      BY <2>1, <3>1, <3>2
  <2>4. QED
    BY <1>0, <2>2, <2>3
<1>7. CASE VoldCrash
  <2>1. /\ UNCHANGED <<toClient, sharedVars, mainVars, eventVars>>
        /\ toVold' = <<>> /\ exec' = <<>>
    BY <1>7 DEF VoldCrash
  <2>2. NoEntry'
    BY <1>0, <2>1 DEF NoEntry
  <2> QED
    BY <1>0, <2>1, <2>2, SMTT(60)
<1>8. CASE MainSkips \/ MainWakes
  <2>1. todo # <<>> /\ todo' = Tail(todo)
    BY <1>0, <1>8 DEF MainSkips, MainWakes, ThreadInv
  <2>2. UNCHANGED <<toClient, epc, msg, toVold, exec, list, listing, automount>>
    BY <1>8 DEF MainSkips, MainWakes
  <2>3. Left'
    BY <1>c, <2>1
  <2>4. QED
    BY <1>0, <2>2, <2>3 DEF NoEntry
<1>9. CASE MainDies \/ MainReturns
  <2>1. UNCHANGED <<toClient, epc, msg, toVold, exec, list, listing, todo>>
    BY <1>9 DEF MainDies, MainReturns
  <2>2. automount'
    BY <1>9 DEF MainDies, MainReturns
  <2>3. QED
    BY <1>0, <2>1, <2>2 DEF NoEntry
<1>10. CASE MainSends
  <2>1. Head(todo) \in Steps /\ Head(todo).op # "list"
    BY <1>0, <1>b, <1>10, SeqTail, SMTT(60) DEF MainSends
  <2>2. CommandOf(Head(todo).op) # "list"
    BY <2>1, CommandTypes DEF CommandOf
  <2>3. Quiet'
    BY <1>d, <1>10, <2>1, <2>2, CommandTypes DEF MainSends
  <2>4. QED
    BY <1>0, <1>10, <2>3 DEF MainSends, NoEntry
<1>11. CASE MainCalls
  <2>1. Left'
    BY <1>11, CallTypes DEF MainCalls
  <2>2. QED
    BY <1>0, <1>11, <2>1 DEF MainCalls, NoEntry
<1>12. CASE MainUnmountsAll
  <2>1. PICK nodes \in Bijection(1..Cardinality(Volumes), Volumes) :
          todo' = UnmountSteps(nodes)
    BY <1>12 DEF MainUnmountsAll
  <2>2. Left'
    BY <2>1, AllSteps
  <2>3. QED
    BY <1>0, <1>12, <2>2 DEF MainUnmountsAll, NoEntry
<1>13. CASE EventConnects
  <2>1. mpc # "start"
    BY <1>0 DEF ConnectionInv
  <2>2. QED
    BY <1>0, <1>13, <2>1 DEF EventConnects, NoEntry
<1>14. CASE EventReads
  BY <1>0, <1>14, ReadList DEF EventReads
<1>15. CASE EventLosesConnection \/ AutomountDies \/ CompleteCommand
  <2>1. /\ UNCHANGED <<toClient, msg, toVold, exec, list, listing, automount, todo>>
        /\ epc' # "dispatch"
    BY <1>15 DEF EventLosesConnection, AutomountDies, CompleteCommand
  <2>2. QED
    BY <1>0, <2>1 DEF NoEntry
<1>16. CASE DispatchList
  BY <1>0, <1>16 DEF DispatchList, NoEntry
<1>17. CASE DispatchState \/ DispatchDisk \/ DispatchResult
  <2>1. ~listing'
    BY <1>0, <1>17 DEF DispatchState, DispatchDisk, DispatchResult
  <2>2. QED
    BY <1>0, <1>17, <2>1, DispatchKeeps
<1>18. CASE AutomountSends
  <2>1. PICK c \in Commands : Send(c) /\ c.op = "mount"
    BY <1>0, <1>18, MessageInHand, SMTT(60) DEF AutomountSends, Commands, Ops
  <2>2. Quiet'
    BY <1>d, <1>18, <2>1 DEF AutomountSends
  <2>3. QED
    BY <1>0, <1>18, <2>2 DEF AutomountSends, NoEntry
<1>19. QED
  BY <1>1, <1>2, <1>3, <1>4, <1>5, <1>6, <1>7, <1>8, <1>9, <1>10, <1>11, <1>12,
     <1>13, <1>14, <1>15, <1>16, <1>17, <1>18 DEF Next, Vold, Main, Event

(* Steps that touch neither the list nor the messages, and a message that  *)
(* is neither an entry nor a result.                                       *)
LEMMA FillingFrame ==
  ASSUME UNCHANGED <<toClient, msg, list, listing, inflight, listed>>,
         epc' = epc \/ (epc # "dispatch" /\ epc # "complete"
                        /\ epc' # "dispatch" /\ epc' # "complete"),
         toVold' \in {toVold, <<>>}, exec' \in {exec, <<>>},
         sock' = "none" => sock = "none"
  PROVE  /\ Filling => Filling'
         /\ Blank => Blank'
         /\ Listed => Listed'
         /\ Owing' = Owing /\ (InHand' <=> InHand)
<1>1. \A v : ListMsg(v) <=> ListMsg(v)'
  BY DEF ListMsg
<1>2. InHand' <=> InHand
  BY DEF InHand
<1>3. Pending' = Pending /\ Owing' = Owing
  BY <1>2, SamePending
<1>4. NoListMsg => NoListMsg'
  BY <1>1 DEF NoListMsg
<1>5. (Blank => Blank') /\ (Listed => Listed')
  BY <1>4 DEF Blank, Listed
<1>6. Filling => Filling'
  BY <1>1, <1>2, <1>3, <1>5 DEF Filling
<1>7. QED
  BY <1>2, <1>3, <1>5, <1>6

LEMMA FillingSent ==
  ASSUME CountLaws, TypeOK, ThreadInv, TypeOK', ThreadInv', NEW m \in Messages,
         m.type \notin {"list", "result"}, toClient' = Append(toClient, m),
         UNCHANGED <<sock, toVold, exec, listed, sharedVars, eventVars>>
  PROVE  /\ Filling => Filling'
         /\ Blank => Blank'
         /\ Listed => Listed'
         /\ Owing' = Owing /\ (InHand' <=> InHand)
         /\ \A i \in Owing : toClient'[i] = toClient[i]
<1> USE DEF sharedVars, eventVars
<1>1. (NoListMsg => NoListMsg') /\ \A v \in Volumes : ListMsg(v) => ListMsg(v)'
  BY SentList, NoEntries, NoEntriesAfter
<1>2. InHand' <=> InHand
  BY DEF InHand
<1>3. Pending' = Pending /\ Owing' = Owing
  BY <1>2, SentPending, PendingCounts
<1>4. (Blank => Blank') /\ (Listed => Listed')
  BY <1>1 DEF Blank, Listed
<1>5. /\ DOMAIN toClient' = DOMAIN toClient \cup {Len(toClient) + 1}
      /\ \A i \in DOMAIN toClient : toClient'[i] = toClient[i]
      /\ toClient'[Len(toClient) + 1] = m
  BY PendingCounts, SeqAppend, SMTT(60)
<1>6. \A i \in Owing : toClient'[i] = toClient[i]
  BY <1>5 DEF Owing
<1>7. ASSUME Filling PROVE Filling'
  <2>1. \A i, j \in DOMAIN toClient' :
          toClient'[i].type = "result" /\ toClient'[j].type = "list" => j < i
    BY <1>5, <1>7 DEF Filling
  <2>2. InHand => \A i \in DOMAIN toClient' : toClient'[i].type # "list"
    BY <1>5, <1>7 DEF Filling
  <2>3. QED
    BY <1>1, <1>2, <1>3, <1>4, <1>7, <2>1, <2>2 DEF Filling, TypeOK
<1>8. QED
  BY <1>2, <1>3, <1>4, <1>6, <1>7

LEMMA StartingVold ==
  ASSUME CountLaws, VoldInv, Vold \/ MediaEvent \/ VoldCrash, TypeOK', ThreadInv', ~automount
  PROVE  Starting'
<1> USE DEF voldVars, sharedVars, mainVars, eventVars
<1>0. TypeOK /\ ThreadInv /\ ConnectionInv /\ Starting
  BY DEF VoldInv, ListingInv
<1>a. /\ UNCHANGED <<sharedVars, mainVars, eventVars>> /\ (InHand' <=> InHand)
      /\ sock' = "none" => sock = "none"
  <2>1. UNCHANGED <<sharedVars, mainVars, eventVars>>
    BY VoldThreads
  <2>2. sock' = "none" => sock = "none"
    BY DEF Vold, VoldTakes, VoldLists, VoldBegins, VoldEnds, VoldRestart,
       MediaEvent, VoldCrash
  <2>3. QED
    BY <2>1, <2>2 DEF InHand
<1>b. inflight > 0 => mpc \in {"waiting", "dead"}
  <2>1. mpc \in {"start", "idle", "call", "waiting", "dead"}
    BY <1>0 DEF TypeOK
  <2>2. /\ mpc = "start" => inflight = 0
        /\ mpc = "call" => inflight = 0
        /\ mpc # "idle"
    BY <1>0 DEF Starting, ThreadInv
  <2> QED
    BY <2>1, <2>2, SMTT(60)
<1>c. /\ toVold \in Seq(Commands) /\ toClient \in Seq(Messages)
      /\ inflight \in Nat /\ Pending \in Nat
  BY <1>0, PendingCounts DEF TypeOK
<1>1. CASE VoldTakes
  <2>1. /\ toVold # <<>> /\ inflight > 0 /\ exec' = <<toVold[1]>> /\ listed' = {}
        /\ toVold' = Tail(toVold) /\ toClient' = toClient
        /\ \A i \in DOMAIN toVold' : toVold'[i].op = "list"
        /\ exec'[1].op = "list"
    <3>1. /\ toVold # <<>> /\ exec' = <<Head(toVold)>> /\ listed' = {}
          /\ toVold' = Tail(toVold) /\ toClient' = toClient
      BY <1>1 DEF VoldTakes
    <3>2. inflight > 0
      BY <3>1, CountFacts
    <3>3. /\ Head(toVold) = toVold[1] /\ Len(toVold) \in Nat \ {0}
          /\ DOMAIN toVold = 1..Len(toVold)
          /\ DOMAIN Tail(toVold) = 1..(Len(toVold) - 1)
          /\ \A i \in 1..(Len(toVold) - 1) : Tail(toVold)[i] = toVold[i + 1]
      BY <1>c, <3>1, SeqTail
    <3>4. \A i \in DOMAIN toVold : toVold[i].op = "list"
      BY <1>0 DEF Starting
    <3>5. /\ exec' = <<toVold[1]>> /\ exec'[1].op = "list"
          /\ \A i \in DOMAIN toVold' : toVold'[i].op = "list"
      BY <3>1, <3>3, <3>4, SMTT(60)
    <3> QED
      BY <3>1, <3>2, <3>5
  <2>2. Pending' = Pending /\ Owing' = Owing
    BY <1>a, <2>1, SamePending
  <2>3. CASE mpc = "waiting"
    <3>1. Len(toVold) = 1 /\ Filling
      BY <1>0, <2>1, <2>3, CountFacts DEF Starting, Filling
    <3>2. toVold' = <<>>
      BY <1>c, <2>1, <3>1, SMTT(60)
    <3>3. \A v \in Volumes : ListMsg(v) <=> ListMsg(v)'
      BY <1>a, <2>1 DEF ListMsg
    <3>4. Filling'
      <4>1. Listed => Listed'
        BY <1>a, <3>3 DEF Listed, NoListMsg
      <4>2. QED
        BY <1>a, <2>1, <2>2, <3>1, <3>2, <3>3, <4>1 DEF Filling
    <3>5. QED
      BY <1>0, <1>a, <2>1, <2>2, <2>3, <3>4 DEF Starting
  <2>4. CASE mpc = "dead"
    BY <1>0, <1>a, <2>1, <2>2, <2>4 DEF Starting
  <2>5. QED
    BY <1>b, <2>1, <2>3, <2>4
<1>2. CASE VoldLists
  <2>1. PICK v \in Volumes \ listed, m \in Messages :
           /\ m.type = "list" /\ m.vol = v
           /\ toClient' = Append(toClient, m) /\ listed' = listed \cup {v}
    BY <1>0, <1>2, ListsSends
  <2>2. exec # <<>> /\ inflight > 0 /\ UNCHANGED <<toVold, exec, sock>>
    BY <1>2, CountFacts DEF VoldLists
  <2>3. Pending' = Pending /\ Owing' = Owing
    BY <1>0, <1>a, <1>c, <2>1, SentPending
  <2>4. \A i \in Owing : toClient'[i] = toClient[i]
    BY <1>c, <2>1, SeqAppend, SMTT(60) DEF Owing
  <2>5. CASE mpc = "waiting"
    <3>1. Filling /\ toVold = <<>> /\ Pending = 0
      BY <1>0, <2>2, <2>5, CountFacts DEF Starting, Filling
    <3>2. Owing' = {} /\ ~InHand' /\ epc' # "complete" /\ Pending' = 0
      <4>1. Owing = {} /\ ~InHand
        BY <3>1, CountFacts, SMTT(60)
      <4>2. QED
        BY <1>a, <2>3, <3>1, <4>1 DEF InHand
    <3>3. ListMsg(v)' /\ \A w \in Volumes : ListMsg(w) => ListMsg(w)'
      BY <1>0, <1>a, <2>1, SentList
    <3>4. \A w \in listed' : list'[w] # Absent \/ ListMsg(w)'
      BY <1>0, <1>a, <2>1, <2>2, <3>1, <3>3 DEF Filling, TypeOK
    <3>5. \A i \in DOMAIN toClient' : toClient'[i].type # "result"
      BY <3>2 DEF Owing
    <3>6. Filling'
      <4>1. /\ inflight' = inflight /\ list' = list /\ listing' = listing
            /\ epc' = epc /\ toVold' = <<>> /\ inflight # 0 /\ ~(Pending' > 0)
        BY <1>a, <1>c, <2>2, <3>1, <3>2, SMTT(60)
      <4> QED
        BY <3>1, <3>2, <3>4, <3>5, <4>1 DEF Filling
    <3>7. QED
      BY <1>0, <1>a, <2>2, <2>3, <2>4, <2>5, <3>6 DEF Starting
  <2>6. CASE mpc = "dead"
    BY <1>0, <1>a, <2>2, <2>3, <2>4, <2>6 DEF Starting
  <2>7. QED
    BY <1>b, <2>2, <2>5, <2>6
<1>3. CASE VoldBegins
  BY <1>0, <1>3 DEF VoldBegins, Starting
<1>4. CASE VoldEnds
  <2>1. /\ exec # <<>> /\ exec[1].op = "list" /\ exec' = <<>> /\ inflight > 0
        /\ listed' = {} /\ UNCHANGED <<sock, toVold>> /\ sock = "open"
    BY <1>0, <1>4, EndsSends, CountFacts DEF Starting
  <2>2. PICK m \in Messages :
          /\ m.type = "result" /\ m.code = "okay" /\ listed = Volumes
          /\ toClient' = Append(toClient, m)
    BY <1>0, <1>4, <2>1, EndsSends
  <2>3. Pending' = Pending + 1 /\ Owing' = Owing \cup {Len(toClient) + 1}
    BY <1>0, <1>a, <1>c, <2>2, SentPending
  <2>4. /\ DOMAIN toClient = 1..Len(toClient) /\ Len(toClient) \in Nat
        /\ DOMAIN toClient' = 1..(Len(toClient) + 1)
        /\ \A i \in 1..Len(toClient) : toClient'[i] = toClient[i]
        /\ toClient'[Len(toClient) + 1] = m
    <3>1. toClient \in Seq(Messages)
      BY <1>c
    <3>2. /\ DOMAIN toClient = 1..Len(toClient) /\ Len(toClient) \in Nat
          /\ DOMAIN Append(toClient, m) = 1..(Len(toClient) + 1)
          /\ \A i \in 1..Len(toClient) : Append(toClient, m)[i] = toClient[i]
          /\ Append(toClient, m)[Len(toClient) + 1] = m
      BY <3>1, SeqAppend, SMTT(60)
    <3> QED
      BY <2>2, <3>2
  <2>5. \A i \in Owing' : toClient'[i].code = "okay"
    BY <1>0, <2>2, <2>3, <2>4 DEF Starting, Owing
  <2>6. CASE mpc = "waiting"
    <3>1. Filling /\ toVold = <<>> /\ Owing = {} /\ ~InHand
      BY <1>0, <2>1, <2>6, CountFacts DEF Starting, Filling
    <3>2. \A w \in Volumes : list'[w] # Absent \/ ListMsg(w)'
      <4>1. \A w \in Volumes : ListMsg(w) => ListMsg(w)'
        BY <1>0, <1>a, <2>2, SentList
      <4>2. QED
        BY <1>a, <2>1, <2>2, <3>1, <4>1 DEF Filling
    <3>3. \A i, j \in DOMAIN toClient' :
            toClient'[i].type = "result" /\ toClient'[j].type = "list" => j < i
      <4>1. \A i \in 1..Len(toClient) : toClient'[i].type # "result"
        BY <2>4, <3>1 DEF Owing
      <4>2. \A i \in DOMAIN toClient' : toClient'[i].type = "result" =>
              i = Len(toClient) + 1
        BY <2>4, <4>1, SMTT(60)
      <4>3. \A j \in DOMAIN toClient' : toClient'[j].type = "list" =>
              j < Len(toClient) + 1
        BY <2>2, <2>4, SMTT(60)
      <4>4. QED
        BY <4>2, <4>3
    <3>4. epc' # "complete"
      BY <1>a, <3>1 DEF InHand
    <3>5. Filling'
      <4>1. /\ inflight' = inflight /\ list' = list /\ listing' = listing
            /\ epc' = epc /\ exec' = <<>> /\ toVold' = <<>> /\ ~InHand'
        BY <1>a, <2>1, <3>1
      <4>2. inflight # 0
        BY <2>1, SMTT(60)
      <4> QED
        BY <3>1, <3>2, <3>3, <3>4, <4>1, <4>2 DEF Filling
    <3>6. QED
      BY <1>0, <1>a, <2>1, <2>5, <2>6, <3>5 DEF Starting
  <2>7. CASE mpc = "dead"
    BY <1>0, <1>a, <2>1, <2>5, <2>7 DEF Starting
  <2>8. QED
    BY <1>b, <2>1, <2>6, <2>7
<1>5. CASE VoldRestart \/ VoldCrash
  <2>1. /\ toClient' = toClient /\ toVold' \in {toVold, <<>>} /\ exec' \in {exec, <<>>}
        /\ sock' = "none" => sock = "none"
    BY <1>a, <1>5 DEF VoldRestart, VoldCrash
  <2>2. CASE VoldRestart
    <3>1. listed' = listed
      BY <2>2 DEF VoldRestart
    <3>2. QED
      BY <1>0, <1>a, <2>1, <3>1, FillingFrame, SMTT(60) DEF Starting
  <2>3. CASE VoldCrash
    <3>1. exec' = <<>> /\ toVold' = <<>>
      BY <2>3 DEF VoldCrash
    <3>2. \A v \in Volumes : ListMsg(v) <=> ListMsg(v)'
      BY <1>a, <2>1 DEF ListMsg
    <3>3. Pending' = Pending /\ Owing' = Owing
      BY <1>a, <2>1, SamePending
    <3>4. (Blank => Blank') /\ (Listed => Listed')
      BY <1>a, <3>2 DEF Blank, Listed, NoListMsg
    <3>5. Filling => Filling'
      BY <1>a, <2>1, <3>1, <3>2, <3>3, <3>4 DEF Filling
    <3>6. /\ epc' = epc /\ todo' = todo /\ mpc' = mpc /\ msg' = msg
          /\ inflight' = inflight /\ (sock' = "none" => sock = "none")
      BY <1>a, <2>1
    <3>7. \A i \in DOMAIN toVold' : toVold'[i].op = "list"
      BY <3>1, SMTT(60)
    <3>8. \A i \in Owing' : toClient'[i].code = "okay"
      BY <1>0, <2>1, <3>3 DEF Starting
    <3> QED
      BY <1>0, <1>a, <3>1, <3>4, <3>5, <3>6, <3>7, <3>8 DEF Starting
  <2>4. QED
    BY <1>5, <2>2, <2>3
<1>6. CASE MediaEvent
  <2>1. PICK m \in Messages :
          /\ m.type \in {"inserted", "removed"}
          /\ toClient' = IF sock # "open" THEN toClient ELSE Append(toClient, m)
    BY <1>0, <1>6, MediaSends
  <2>2. UNCHANGED <<sock, toVold, exec, listed>>
    BY <1>6 DEF MediaEvent
  <2>3. CASE toClient' = toClient
    BY <1>0, <1>a, <2>2, <2>3, FillingFrame DEF Starting
  <2>4. CASE toClient' = Append(toClient, m)
    <3>1. /\ Filling => Filling'
          /\ Blank => Blank'
          /\ Listed => Listed'
          /\ Owing' = Owing /\ (InHand' <=> InHand)
          /\ \A i \in Owing : toClient'[i] = toClient[i]
      BY <1>0, <1>a, <2>1, <2>2, <2>4, FillingSent
    <3>2. QED
      BY <1>0, <1>a, <2>2, <3>1 DEF Starting
  <2>5. QED
    BY <2>1, <2>3, <2>4
<1>7. QED
  BY <1>1, <1>2, <1>3, <1>4, <1>5, <1>6 DEF Vold

LEMMA StartingMain ==
  ASSUME CountLaws, VoldInv, Main \/ MainCalls \/ MainUnmountsAll, TypeOK', ThreadInv',
         ~automount
  PROVE  ListingInv'
<1> USE DEF voldVars, sharedVars, mainVars, eventVars
<1>0. TypeOK /\ ThreadInv /\ ConnectionInv /\ Starting
  BY DEF VoldInv, ListingInv
<1>a. /\ toVold \in Seq(Commands) /\ todo \in Seq(Steps)
      /\ inflight \in Nat /\ Pending \in Nat
  BY <1>0, PendingCounts DEF TypeOK
<1>b. \A st : st.op = "list" => ~Skipped(st) /\ CommandOf(st.op) = "list"
  BY DEF Skipped, CommandOf
<1>1. CASE MainSkips
  BY <1>0, <1>a, <1>b, <1>1, SeqTail DEF MainSkips, Starting
<1>2. CASE MainSends
  <2>1. /\ todo # <<>> /\ Head(todo) = todo[1] /\ todo[1] \in Steps
        /\ Len(todo) = 1 /\ todo[1].op = "list" /\ inflight = 0 /\ Blank
    BY <1>0, <1>a, <1>2, SeqTail DEF MainSends, Starting
  <2>2. /\ toVold = <<>> /\ exec = <<>> /\ Pending = 0 /\ Owing = {} /\ ~InHand
    BY <2>1, CountFacts, SMTT(60)
  <2>3. /\ UNCHANGED <<toClient, exec, listed, list, listing, automount, todo, epc,
                       msg>>
        /\ mpc' = "waiting" /\ inflight' = 1
    <3>1. /\ UNCHANGED <<toClient, exec, listed, list, listing, automount, todo>>
          /\ UNCHANGED <<epc, msg>> /\ mpc' = "waiting"
      BY <1>2 DEF MainSends
    <3>2. inflight' = inflight + 1
      BY <1>2 DEF MainSends, Send
    <3> QED
      BY <2>1, <3>1, <3>2, SMTT(60)
  <2>4. PICK c \in Commands : c.op = "list" /\ Send(c)
    BY <1>b, <1>2, <2>1, CommandTypes DEF MainSends
  <2>5. \A i \in DOMAIN toVold' : toVold'[i].op = "list"
    <3>1. toVold' = toVold \/ toVold' = <<c>>
      BY <2>2, <2>4, SMTT(60) DEF Send
    <3>2. QED
      BY <2>2, <2>4, <3>1, SMTT(60)
  <2>6. \A v : ListMsg(v) <=> ListMsg(v)'
    BY <2>3 DEF ListMsg
  <2>7. Blank' /\ Owing' = Owing /\ ~InHand'
    BY <2>1, <2>2, <2>3, <2>6 DEF Blank, NoListMsg, InHand, Owing
  <2>8. Pending' = 0
    BY <2>2, <2>3, <2>7, SamePending
  <2>9. Filling'
    <3>1. \A i \in DOMAIN toClient' : toClient'[i].type # "result"
      BY <2>2, <2>7 DEF Owing
    <3>2. epc' # "complete" /\ \A v \in Volumes : list'[v] = Absent
      BY <2>7 DEF InHand, Blank
    <3>3. QED
      BY <2>2, <2>3, <2>7, <2>8, <3>1, <3>2, SMTT(60) DEF Filling
  <2>10. QED
    BY <1>0, <2>1, <2>2, <2>3, <2>5, <2>7, <2>9 DEF Starting, ListingInv
<1>3. CASE MainDies
  <2>1. /\ UNCHANGED <<toClient, toVold, exec, automount, todo, epc, msg, inflight>>
        /\ mpc' = "dead"
    BY <1>3 DEF MainDies
  <2>2. Owing' = Owing /\ (InHand' <=> InHand)
    BY <2>1 DEF Owing, InHand
  <2>3. QED
    BY <1>0, <2>1, <2>2 DEF Starting, ListingInv
<1>4. CASE MainWakes
  <2>1. /\ UNCHANGED <<toClient, toVold, exec, automount, epc, msg, inflight, list,
                       listing, sock>>
        /\ mpc' = "call" /\ todo # <<>> /\ todo' = Tail(todo) /\ inflight = 0
    BY <1>0, <1>4 DEF MainWakes, ThreadInv
  <2>2. todo' = <<>>
    BY <1>0, <1>a, <2>1, SMTT(60) DEF Starting
  <2>3. Owing' = Owing /\ (InHand' <=> InHand) /\ \A v : ListMsg(v) <=> ListMsg(v)'
    BY <2>1 DEF Owing, InHand, ListMsg
  <2>4. Listed /\ sock # "none"
    BY <1>0, <1>4, <2>1 DEF MainWakes, Starting, Filling
  <2>5. Listed'
    BY <2>1, <2>3, <2>4 DEF Listed, NoListMsg
  <2>6. QED
    BY <1>0, <2>1, <2>2, <2>3, <2>4, <2>5 DEF Starting, ListingInv
<1>5. CASE MainReturns
  <2>1. /\ UNCHANGED <<toClient, toVold, exec, epc, msg, list, listing>>
        /\ todo' = <<>> /\ todo = <<>> /\ mpc = "call"
    BY <1>5 DEF MainReturns
  <2>2. automount'
    BY <1>5 DEF MainReturns
  <2>3. inflight = 0 /\ Listed
    BY <1>0, <2>1 DEF Starting
  <2>4. toVold' = <<>> /\ exec' = <<>>
    BY <2>1, <2>3, CountFacts, SMTT(60)
  <2>5. \A v : ListMsg(v) <=> ListMsg(v)'
    BY <2>1 DEF ListMsg
  <2>6. Listed'
    BY <2>1, <2>3, <2>5 DEF Listed, NoListMsg
  <2>7. QED
    BY <2>1, <2>2, <2>4, <2>6, SMTT(60) DEF Steady, ListingInv
<1>6. CASE MainCalls \/ MainUnmountsAll
  BY <1>0, <1>6 DEF MainCalls, MainUnmountsAll, ThreadInv
<1>7. QED
  BY <1>1, <1>2, <1>3, <1>4, <1>5, <1>6 DEF Main

LEMMA StartingEvent ==
  ASSUME CountLaws, VoldInv, Event, TypeOK', ThreadInv', ~automount
  PROVE  Starting'
<1> USE DEF voldVars, sharedVars, mainVars, eventVars
<1>0. TypeOK /\ ThreadInv /\ ConnectionInv /\ Starting
  BY DEF VoldInv, ListingInv
<1>a. /\ toClient \in Seq(Messages) /\ inflight \in Nat /\ Pending \in Nat
  BY <1>0, PendingCounts DEF TypeOK
<1>b. inflight > 0 => mpc = "waiting"
  <2>1. mpc \in {"start", "idle", "call", "waiting", "dead"}
    BY <1>0 DEF TypeOK
  <2>2. /\ mpc = "start" => inflight = 0
        /\ mpc = "call" => inflight = 0
        /\ mpc # "idle" /\ mpc # "dead"
    BY <1>0 DEF Starting, ThreadInv, Event
  <2> QED
    BY <2>1, <2>2, SMTT(60)
<1>1. CASE EventConnects
  <2>1. /\ UNCHANGED <<toVold, toClient, exec, listed, list, listing, inflight,
                       automount, msg>>
        /\ epc = "connect" /\ epc' = "monitor" /\ (sock' = "none" => sock = "none")
    BY <1>1 DEF EventConnects, Connected
  <2>2. /\ Filling => Filling'
        /\ Blank => Blank'
        /\ Listed => Listed'
        /\ Owing' = Owing /\ (InHand' <=> InHand)
    BY <2>1, FillingFrame
  <2>3. CASE mpc = "start"
    <3>1. mpc' = "call" /\ \E v \in Volumes : todo' = <<Op("list", v)>>
      BY <1>1, <2>3 DEF EventConnects
    <3>2. Len(todo') = 1 /\ todo'[1].op = "list" /\ todo' # <<>>
      BY <3>1, SMTT(60) DEF Op
    <3>3. QED
      BY <1>0, <2>1, <2>2, <2>3, <3>1, <3>2 DEF Starting
  <2>4. CASE mpc # "start"
    <3>1. UNCHANGED <<mpc, todo>>
      BY <1>1, <2>4 DEF EventConnects
    <3>2. QED
      BY <1>0, <2>1, <2>2, <2>4, <3>1 DEF Starting
  <2>5. QED
    BY <2>3, <2>4
<1>2. CASE EventReads
  <2>1. /\ toClient # <<>> /\ msg' = toClient[1]
        /\ toClient' = Tail(toClient) /\ Len(toClient) \in Nat \ {0}
        /\ DOMAIN toClient = 1..Len(toClient)
        /\ DOMAIN toClient' = 1..(Len(toClient) - 1)
        /\ \A i \in 1..(Len(toClient) - 1) : toClient'[i] = toClient[i + 1]
        /\ epc = "monitor" /\ epc' = "dispatch"
        /\ UNCHANGED <<sock, toVold, exec, listed, list, listing, inflight,
                       automount, todo, mpc>>
    BY <1>a, <1>2, SeqTail DEF EventReads
  <2>2. /\ NoListMsg => NoListMsg'
        /\ \A v \in Volumes : ListMsg(v) => ListMsg(v)'
        /\ Pending' = Pending
    BY <1>0, <1>2, ReadList, NoEntries, NoEntriesAfter
  <2>3. (Blank => Blank') /\ (Listed => Listed')
    BY <2>1, <2>2 DEF Blank, Listed
  <2>4. \A i \in DOMAIN toClient' :
          i + 1 \in DOMAIN toClient /\ toClient'[i] = toClient[i + 1]
    BY <2>1, SMTT(60)
  <2>5. \A i \in Owing' : toClient'[i].code = "okay"
    BY <1>0, <2>4 DEF Starting, Owing
  <2>6. InHand' => 1 \in Owing /\ msg'.code = "okay"
    BY <1>0, <2>1, SMTT(60) DEF Starting, Owing, InHand
  <2>7. ASSUME Filling PROVE Filling'
    <3>1. InHand' => \A i \in DOMAIN toClient' : toClient'[i].type # "list"
      <4>1. SUFFICES ASSUME 1 \in Owing, NEW i \in DOMAIN toClient',
                            toClient'[i].type = "list"
                     PROVE  FALSE
        BY <2>6
      <4>2. i + 1 < 1
        BY <2>1, <2>4, <2>7, <4>1 DEF Filling, Owing
      <4>3. QED
        BY <2>1, <4>2, SMTT(60)
    <3>2. \A i, j \in DOMAIN toClient' :
            toClient'[i].type = "result" /\ toClient'[j].type = "list" => j < i
      <4>1. SUFFICES ASSUME NEW i \in DOMAIN toClient', NEW j \in DOMAIN toClient',
                            toClient'[i].type = "result", toClient'[j].type = "list"
                     PROVE  j < i
        OBVIOUS
      <4>2. j + 1 < i + 1
        BY <2>4, <2>7, <4>1 DEF Filling
      <4>3. QED
        BY <2>1, <4>2, SMTT(60)
    <3>3. QED
      BY <1>0, <2>1, <2>2, <2>3, <2>7, <3>1, <3>2 DEF Filling, TypeOK
  <2>8. QED
    BY <1>0, <2>1, <2>3, <2>5, <2>6, <2>7 DEF Starting
<1>3. CASE EventLosesConnection
  <2>1. /\ UNCHANGED <<toVold, toClient, exec, listed, list, listing, inflight,
                       automount, msg, mpc, todo>>
        /\ epc = "monitor" /\ epc' = "connect" /\ sock' = "closed"
    BY <1>3 DEF EventLosesConnection
  <2>2. /\ Filling => Filling'
        /\ Blank => Blank'
        /\ Listed => Listed'
        /\ Owing' = Owing /\ (InHand' <=> InHand)
    BY <2>1, FillingFrame
  <2>3. QED
    BY <1>0, <2>1, <2>2 DEF Starting
<1>4. CASE DispatchList
  <2>1. msg \in Messages /\ msg.type = "list" /\ msg.vol \in Volumes
        /\ msg.state \in States /\ msg.state # Absent
    <3>1. epc = "dispatch" /\ msg.type = "list"
      BY <1>4 DEF DispatchList
    <3>2. msg \in Messages
      BY <1>0, <3>1, MessageInHand
    <3>3. msg.vol \in Volumes /\ msg.state \in States
      BY <3>1, <3>2, MessageKinds
    <3>4. Absent \notin States
      BY SMTT(60) DEF States, NoMedia, Idle, Busy, Mounted, Shared, Absent
    <3> QED
      BY <3>1, <3>2, <3>3, <3>4
  <2>2. /\ UNCHANGED <<sock, toVold, toClient, exec, listed, inflight, automount,
                       mpc, todo, msg>>
        /\ epc = "dispatch" /\ epc' = "monitor" /\ listing'
    BY <1>4 DEF DispatchList
  <2>3. ListMsg(msg.vol) /\ ~InHand /\ ~InHand'
    BY <2>1, <2>2 DEF ListMsg, InHand
  <2>4. ~NoListMsg
    BY <2>1, <2>3 DEF NoListMsg
  <2>5. mpc = "waiting" /\ Filling
    BY <1>0, <2>4, CountFacts DEF Starting, ThreadInv, TypeOK, Event, Blank, Listed
  <2>6. toVold = <<>> /\ inflight = 1 /\ inflight # 0
    BY <1>a, <2>4, <2>5, SMTT(60) DEF Filling, Blank, Listed
  <2>7. \A w \in Volumes : list'[w] = IF w = msg.vol THEN msg.state ELSE list[w]
    <3>1. ~listing => \A w \in Volumes : list[w] = Absent
      BY <2>2, <2>5, <2>6 DEF Filling
    <3>2. QED
      BY <1>0, <1>4, <2>1, <3>1 DEF DispatchList, TypeOK
  <2>8. \A w \in Volumes : ListMsg(w) => w = msg.vol \/ ListMsg(w)'
    BY <2>2 DEF ListMsg
  <2>9. \A w \in Volumes :
          list[w] # Absent \/ ListMsg(w) => list'[w] # Absent \/ ListMsg(w)'
    BY <2>1, <2>7, <2>8
  <2>10. Pending' = Pending /\ Owing' = Owing
    BY <2>2, <2>3, SamePending
  <2>11. Filling'
    BY <1>0, <2>2, <2>3, <2>5, <2>6, <2>9, <2>10 DEF Filling, TypeOK
  <2>12. QED
    BY <1>0, <2>2, <2>3, <2>5, <2>10, <2>11 DEF Starting
<1>5. CASE DispatchState \/ DispatchDisk
  <2>1. /\ \A w \in Volumes : list'[w] = Absent <=> list[w] = Absent
        /\ \A v \in Volumes : ListMsg(v) <=> ListMsg(v)'
        /\ UNCHANGED <<sock, toVold, toClient, exec, listed, todo, mpc,
                       automount, inflight, msg>>
    BY <1>0, <1>5, DispatchKeeps
  <2>2. listing' = listing /\ epc' = "monitor" /\ ~InHand /\ ~InHand' /\ epc = "dispatch"
    BY <1>0, <1>5 DEF DispatchState, DispatchDisk, InHand
  <2>3. Pending' = Pending /\ Owing' = Owing
    BY <2>1, <2>2, SamePending
  <2>4. (Blank => Blank') /\ (Listed => Listed')
    BY <2>1, <2>2 DEF Blank, Listed, NoListMsg
  <2>5. Filling => Filling'
    BY <1>0, <2>1, <2>2, <2>3, <2>4 DEF Filling, TypeOK
  <2>6. QED
    BY <1>0, <2>1, <2>2, <2>3, <2>4, <2>5 DEF Starting
<1>6. CASE DispatchResult
  <2>1. /\ \A v \in Volumes : ListMsg(v) <=> ListMsg(v)'
        /\ UNCHANGED <<sock, toVold, toClient, exec, listed, todo, mpc,
                       automount, inflight, msg>>
    BY <1>0, <1>6, DispatchKeeps
  <2>2. /\ epc = "dispatch" /\ epc' = "complete" /\ msg.type = "result" /\ list' = list
        /\ InHand /\ InHand' /\ msg.code = "okay"
    BY <1>0, <1>6 DEF DispatchResult, InHand, Starting
  <2>3. ~listing'
    BY <1>6, <2>2 DEF DispatchResult
  <2>4. Pending > 0 /\ inflight > 0 /\ Pending' = Pending /\ Owing' = Owing
    BY <2>1, <2>2, CountFacts, SamePending
  <2>5. mpc = "waiting" /\ Filling
    BY <1>0, <1>b, <2>4 DEF Starting
  <2>6. toVold = <<>> /\ exec = <<>>
    BY <2>4, <2>5, CountFacts DEF Filling
  <2>7. \A v \in Volumes : ~ListMsg(v)
    BY <2>2, <2>5 DEF Filling, ListMsg
  <2>8. Listed' /\ sock' # "none"
    <3>1. \A v \in Volumes : list[v] # Absent
      BY <2>4, <2>5, <2>7 DEF Filling
    <3>2. sock # "none"
      BY <1>0, <2>2 DEF ConnectionInv
    <3>3. QED
      BY <2>1, <2>2, <2>3, <2>7, <3>1, <3>2 DEF Listed, NoListMsg
  <2>9. Filling'
    BY <2>1, <2>2, <2>4, <2>5, <2>6, <2>8 DEF Filling, Listed
  <2>10. QED
    BY <1>0, <2>1, <2>2, <2>4, <2>5, <2>9 DEF Starting
<1>7. CASE AutomountSends \/ AutomountDies
  BY <1>0, <1>7 DEF AutomountSends, AutomountDies, Starting
<1>8. CASE CompleteCommand
  <2>1. /\ UNCHANGED <<sock, toVold, toClient, exec, listed, todo, mpc,
                       automount, msg, list, listing>>
        /\ epc = "complete" /\ epc' = "monitor" /\ inflight' = inflight - 1
        /\ InHand /\ ~InHand'
    BY <1>8 DEF CompleteCommand, InHand
  <2>2. inflight > 0 /\ Pending > 0
    BY <2>1, CountFacts
  <2>3. mpc = "waiting" /\ Filling
    BY <1>0, <1>b, <2>2 DEF Starting
  <2>4. toVold = <<>> /\ exec = <<>> /\ inflight' = 0 /\ Listed /\ sock # "none"
    BY <1>a, <2>1, <2>2, <2>3, CountFacts, SMTT(60) DEF Filling
  <2>5. Listed'
    BY <2>1, <2>4 DEF Listed, NoListMsg, ListMsg
  <2>6. Owing' = Owing
    BY <2>1 DEF Owing
  <2>7. Filling'
    <3>1. inflight' <= 1 /\ inflight' # 1
      BY <2>4, SMTT(60)
    <3>2. \A v \in Volumes : list'[v] # Absent
      BY <2>5 DEF Listed
    <3>3. /\ toClient' = toClient /\ toVold' = <<>> /\ exec' = <<>>
          /\ ~InHand' /\ sock' # "none"
      BY <2>1, <2>4
    <3> QED
      BY <2>3, <2>5, <3>1, <3>2, <3>3 DEF Filling
  <2>8. QED
    BY <1>0, <2>1, <2>3, <2>6, <2>7 DEF Starting
<1>9. QED
  BY <1>1, <1>2, <1>3, <1>4, <1>5, <1>6, <1>7, <1>8 DEF Event

LEMMA ListingStep ==
  ASSUME CountLaws, VoldInv, Next, TypeOK', ThreadInv'
  PROVE  ListingInv'
<1>1. CASE automount
  BY <1>1, SteadyStep DEF ListingInv
<1>2. CASE ~automount /\ (Main \/ MainCalls \/ MainUnmountsAll)
  BY <1>2, StartingMain
<1>3. CASE ~automount /\ (Vold \/ MediaEvent \/ VoldCrash)
  <2>1. automount' = automount
    BY <1>3, VoldThreads DEF sharedVars
  <2>2. QED
    BY <1>3, <2>1, StartingVold DEF ListingInv
<1>4. CASE ~automount /\ Event
  <2>1. automount' = automount
    BY <1>4 DEF Event, EventConnects, EventReads, EventLosesConnection, DispatchList,
       DispatchState, DispatchDisk, DispatchResult, AutomountSends, AutomountDies,
       CompleteCommand, sharedVars
  <2>2. QED
    BY <1>4, <2>1, StartingEvent DEF ListingInv
<1>5. QED
  BY <1>1, <1>2, <1>3, <1>4 DEF Next

=============================================================================
