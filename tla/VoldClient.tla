----------------------------- MODULE VoldClient -----------------------------
(***************************************************************************)
(* The client of the volume daemon: the main thread sends commands over a  *)
(* socket and waits for them, the event thread reads the socket, keeps the *)
(* list of volumes, mounts inserted disks and completes commands.          *)
(* Sources: voldclient/event_loop.c, dispatcher.c, commands.c and the      *)
(* callbacks of recovery.c.  vold itself is external: it runs one command  *)
(* after the other and sends events of its own in between.                 *)
(*                                                                         *)
(* Each section under the client's mutex or a short read lock is one step; *)
(* the read lock that vold_unmount_all keeps while it waits is a variable. *)
(***************************************************************************)
EXTENDS Integers, Sequences, FiniteSets, Functions

CONSTANTS
  Volumes,      \* the paths vold manages
  MaxEvents,    \* bound on insertions and removals
  VoldCrashes   \* vold may die (and be restarted by init)

ASSUME VoldAssumption ==
  /\ IsFiniteSet(Volumes) /\ Cardinality(Volumes) \in Nat
  /\ MaxEvents \in Nat
  /\ VoldCrashes \in BOOLEAN

(* State_* of vold's Volume.h; one value stands for the passing states     *)
(* Checking, Unmounting and Formatting.                                    *)
NoMedia == 0
Idle    == 1
Busy    == 3
Mounted == 4
Shared  == 7
States  == {NoMedia, Idle, Busy, Mounted, Shared}
Absent  == -1   \* the path has no node in the list

VARIABLES
  (* the socket and vold *)
  sock,       \* "none" (-1), "open", "hungup" (vold has died at the other end)
              \* or "closed" (the number of a descriptor closed since)
  up,         \* vold runs
  toVold,     \* commands written and not yet taken by vold
  toClient,   \* messages sent and not yet read
  exec,       \* the command vold is running (<<>>: none)
  listed,     \* volumes already reported by a running "volume list"
  vstate,     \* vold's state of each volume
  events,     \* insertions and removals so far
  (* shared by the client's threads *)
  list,       \* volume_head: the state in the node of each path
  listing,    \* is_listing_volumes
  inflight,   \* cmd_inflight
  result,     \* cmd_result
  automount,  \* should_automount
  (* the main thread *)
  mpc,        \* "start", "idle", "call", "waiting" (in vold_command), "dead"
  todo,       \* the operations its current call still has to perform
  ret,        \* what the last vold_command that waited returned
  held,       \* it holds the read lock in vold_unmount_all
  (* the event thread *)
  epc,        \* "connect", "monitor", "dispatch", "automount", "complete"
  msg,        \* the message being dispatched
  (* history *)
  answer,     \* vold's answer to the main thread's last command
  disturbed   \* a command failed, or an automount was under way, since
              \* vold_unmount_all began

voldVars   == <<up, exec, listed, vstate, events>>
sharedVars == <<list, listing, inflight, result, automount>>
mainVars   == <<mpc, todo, ret, held>>
eventVars  == <<epc, msg>>
history    == <<answer, disturbed>>
vars == <<sock, toVold, toClient, voldVars, sharedVars, mainVars, eventVars, history>>

Codes    == {"okay", "failed"}
Ops      == {"list", "mount", "unmount", "share", "unshare", "format"}
Commands == [op: Ops, vol: Volumes, by: {"main", "event"}]
Events   == [type: {"list", "state"}, vol: Volumes, state: States]
            \cup [type: {"inserted", "removed"}, vol: Volumes]
Results  == [type: {"result"}, code: Codes, by: {"main", "event"}]
NoMsg    == [type |-> "none"]

(* An operation of the main thread: a command with its state guard, or one *)
(* of the two steps of vold_unmount_all for a volume.                      *)
Steps == [op: Ops \cup {"all_unshare", "all_unmount"}, vol: Volumes]

TypeOK ==
  /\ sock \in {"none", "open", "hungup", "closed"}
  /\ up \in BOOLEAN
  /\ toVold \in Seq(Commands)
  /\ toClient \in Seq(Events \cup Results)
  /\ exec \in {<<>>} \cup {<<c>> : c \in Commands}
  /\ listed \subseteq Volumes
  /\ vstate \in [Volumes -> States]
  /\ events \in 0..MaxEvents
  /\ list \in [Volumes -> States \cup {Absent}]
  /\ listing \in BOOLEAN
  /\ inflight \in Nat
  /\ result \in Codes \cup {"none"}
  /\ automount \in BOOLEAN
  /\ mpc \in {"start", "idle", "call", "waiting", "dead"}
  /\ todo \in Seq(Steps)
  /\ ret \in Codes \cup {"none"}
  /\ held \in BOOLEAN
  /\ epc \in {"connect", "monitor", "dispatch", "automount", "complete"}
  /\ msg \in Events \cup Results \cup {NoMsg}
  /\ answer \in Codes \cup {"none"}
  /\ disturbed \in BOOLEAN

Init ==
  /\ sock = "none"
  /\ up \in IF VoldCrashes THEN BOOLEAN ELSE {TRUE}
  /\ toVold = <<>> /\ toClient = <<>>
  /\ exec = <<>> /\ listed = {}
  /\ vstate \in [Volumes -> {NoMedia, Idle}]
  /\ events = 0
  /\ list = [v \in Volumes |-> Absent]
  /\ listing = FALSE
  /\ inflight = 0 /\ result = "none"
  /\ automount = FALSE
  /\ mpc = "start" /\ todo = <<>> /\ ret = "none" /\ held = FALSE
  /\ epc = "connect" /\ msg = NoMsg
  /\ answer = "none" /\ disturbed = FALSE

-----------------------------------------------------------------------------
(* vold.                                                                   *)

StateChange(v, s) == [type |-> "state", vol |-> v, state |-> s]
Result(c, code)   == [type |-> "result", code |-> code, by |-> c.by]

VoldTakes ==
  /\ up /\ exec = <<>> /\ toVold # <<>>
  /\ exec' = <<Head(toVold)>>
  /\ toVold' = Tail(toVold)
  /\ listed' = {}
  /\ UNCHANGED <<sock, toClient, up, vstate, events, sharedVars, mainVars,
                 eventVars, history>>

VoldLists ==
  /\ exec # <<>> /\ exec[1].op = "list"
  /\ \E v \in Volumes \ listed :
       /\ toClient' = Append(toClient,
                        [type |-> "list", vol |-> v, state |-> vstate[v]])
       /\ listed' = listed \cup {v}
  /\ UNCHANGED <<sock, toVold, up, exec, vstate, events, sharedVars, mainVars,
                 eventVars, history>>

(* The state a command starts from, and the state it leads to.             *)
From(op) == CASE op = "mount" -> Idle  [] op = "unmount" -> Mounted
              [] op = "share" -> Idle  [] op = "unshare" -> Shared
              [] op = "format" -> Idle [] OTHER -> NoMedia
To(op)   == CASE op = "mount" -> Mounted [] op = "share" -> Shared
              [] OTHER -> Idle

VoldBegins ==
  /\ exec # <<>>
  /\ LET c == exec[1] IN
       /\ c.op # "list" /\ vstate[c.vol] = From(c.op)
       /\ vstate' = [vstate EXCEPT ![c.vol] = Busy]
       /\ toClient' = Append(toClient, StateChange(c.vol, Busy))
  /\ UNCHANGED <<sock, toVold, up, exec, listed, events, sharedVars, mainVars,
                 eventVars, history>>

(* A command ends with success, fails and leaves the volume as it was, or  *)
(* cannot start.                                                           *)
VoldEnds ==
  /\ exec # <<>>
  /\ LET c == exec[1]
         Answers(code, sent) ==
           /\ toClient' = Append(sent, Result(c, code))
           /\ answer' = IF c.by = "main" THEN code ELSE answer
           /\ disturbed' = (disturbed \/ (c.by = "main" /\ code = "failed"))
     IN \/ /\ c.op = "list" /\ listed = Volumes
           /\ Answers("okay", toClient)
           /\ UNCHANGED vstate
        \/ /\ c.op # "list" /\ vstate[c.vol] = Busy
           /\ \E code \in Codes :
                LET s == IF code = "okay" THEN To(c.op) ELSE From(c.op) IN
                  /\ vstate' = [vstate EXCEPT ![c.vol] = s]
                  /\ Answers(code, Append(toClient, StateChange(c.vol, s)))
        \/ /\ c.op # "list" /\ vstate[c.vol] \notin {Busy, From(c.op)}
           /\ Answers("failed", toClient)
           /\ UNCHANGED vstate
  /\ exec' = <<>>
  /\ listed' = {}
  /\ UNCHANGED <<sock, toVold, up, events, sharedVars, mainVars, eventVars>>

MediaEvent ==
  /\ up /\ events < MaxEvents
  /\ events' = events + 1
  /\ \E v \in Volumes :
       LET inserted == vstate[v] = NoMedia IN
         /\ vstate' = [vstate EXCEPT ![v] = IF inserted THEN Idle ELSE NoMedia]
         /\ toClient' =
              IF sock # "open" THEN toClient
              ELSE Append(toClient,
                     [type |-> IF inserted THEN "inserted" ELSE "removed",
                      vol  |-> v])
  /\ UNCHANGED <<sock, toVold, up, exec, listed, sharedVars, mainVars,
                 eventVars, history>>

VoldCrash ==
  /\ VoldCrashes /\ up
  /\ up' = FALSE
  /\ sock' = IF sock = "open" THEN "hungup" ELSE sock
  /\ toVold' = <<>> /\ exec' = <<>> /\ listed' = {}
  /\ vstate' = [v \in Volumes |-> IF vstate[v] = NoMedia THEN NoMedia ELSE Idle]
  /\ UNCHANGED <<toClient, events, sharedVars, mainVars,
                 eventVars, history>>

VoldRestart ==
  /\ ~up
  /\ up' = TRUE
  /\ UNCHANGED <<sock, toVold, toClient, exec, listed, vstate, events,
                 sharedVars, mainVars, eventVars, history>>

-----------------------------------------------------------------------------
(* vold_command().                                                         *)

(* vold_connect(): a descriptor > 0 counts as connected, dead or not; a    *)
(* failed attempt returns -1, which the callers take for success.          *)
Connected == IF sock # "none" THEN sock ELSE IF up THEN "open" ELSE "none"

(* One more command is in flight also when the write failed.               *)
Send(c) ==
  /\ sock' = Connected
  /\ toVold' = IF Connected = "open" THEN Append(toVold, c) ELSE toVold
  /\ inflight' = inflight + 1

StateOf(v) == IF list[v] = Absent THEN NoMedia ELSE list[v]

Op(op, v) == [op |-> op, vol |-> v]

(* What the rest of recovery calls; vold_unmount_all goes over the nodes   *)
(* in the order of the list, which is up to vold.                          *)
Calls ==
  {<<Op("mount", v)>> : v \in Volumes}
  \cup {<<Op("unmount", v)>> : v \in Volumes}
  \cup {<<Op("format", v)>> : v \in Volumes}
  \cup {IF StateOf(v) = Mounted THEN <<Op("unmount", v), Op("share", v)>>
        ELSE <<Op("share", v)>> : v \in Volumes}
  \cup {<<Op("unshare", v), Op("mount", v)>> :
          v \in {w \in Volumes : StateOf(w) = Shared}}

MainCalls ==
  /\ mpc = "idle"
  /\ todo' \in Calls
  /\ mpc' = "call"
  /\ UNCHANGED <<sock, toVold, toClient, voldVars, sharedVars, ret, held,
                 eventVars, history>>

(* Mutant: vold_unmount_all refreshes the list under its read lock.        *)
MainUnmountsAllRefreshing ==
  /\ mpc = "idle"
  /\ \E v \in Volumes :
       todo' = <<Op("list", v), Op("all_unshare", v), Op("all_unmount", v)>>
  /\ mpc' = "call"
  /\ held' = TRUE
  /\ disturbed' = (inflight > 0)
  /\ UNCHANGED <<sock, toVold, toClient, voldVars, sharedVars, ret,
                 eventVars, answer>>

(* Each node in turn: unshare, then unmount.                               *)
UnmountSteps(nodes) ==
  [k \in 1..(2 * Cardinality(Volumes)) |->
     Op(IF k % 2 = 1 THEN "all_unshare" ELSE "all_unmount",
        nodes[(k + 1) \div 2])]

MainUnmountsAll ==
  /\ mpc = "idle"
  /\ \E nodes \in Bijection(1..Cardinality(Volumes), Volumes) :
       todo' = UnmountSteps(nodes)
  /\ mpc' = "call"
  /\ held' = TRUE
  /\ disturbed' = (inflight > 0)
  /\ UNCHANGED <<sock, toVold, toClient, voldVars, sharedVars, ret,
                 eventVars, answer>>

(* The state checks of commands.c and dispatcher.c that end an operation   *)
(* before a command is sent.                                               *)
Skipped(step) ==
  LET s == StateOf(step.vol) IN
    CASE step.op = "mount"       -> s # Idle
      [] step.op = "unmount"     -> s # Mounted
      [] step.op = "unshare"     -> s # Shared
      [] step.op = "all_unshare" -> s # Shared
      [] step.op = "all_unmount" -> s # Mounted
      [] OTHER                   -> FALSE

CommandOf(op) ==
  CASE op = "all_unshare" -> "unshare" [] op = "all_unmount" -> "unmount"
    [] OTHER -> op

MainSkips ==
  /\ mpc = "call" /\ todo # <<>>
  /\ Skipped(Head(todo))
  /\ todo' = Tail(todo)
  /\ UNCHANGED <<sock, toVold, toClient, voldVars, sharedVars, mpc, ret, held,
                 eventVars, history>>

(* Mutant: vold_unmount_all does not wait for its commands.                *)
MainSendsUnwaited ==
  /\ mpc = "call" /\ todo # <<>>
  /\ ~Skipped(Head(todo))
  /\ sock # "hungup"
  /\ Send([op |-> CommandOf(Head(todo).op), vol |-> Head(todo).vol,
           by |-> "main"])
  /\ IF held THEN todo' = Tail(todo) /\ UNCHANGED mpc
     ELSE mpc' = "waiting" /\ UNCHANGED todo
  /\ answer' = "none"
  /\ UNCHANGED <<toClient, voldVars, list, listing, result, automount,
                 ret, held, eventVars, disturbed>>

MainSends ==
  /\ mpc = "call" /\ todo # <<>>
  /\ ~Skipped(Head(todo))
  /\ sock # "hungup"
  /\ Send([op |-> CommandOf(Head(todo).op), vol |-> Head(todo).vol,
           by |-> "main"])
  /\ mpc' = "waiting"
  /\ answer' = "none"
  /\ UNCHANGED <<toClient, voldVars, list, listing, result, automount,
                 todo, ret, held, eventVars, disturbed>>

(* A write to a socket whose other end is gone raises SIGPIPE, which       *)
(* recovery does not ignore: the process ends.                             *)
MainDies ==
  /\ mpc = "call" /\ todo # <<>>
  /\ ~Skipped(Head(todo))
  /\ sock = "hungup"
  /\ mpc' = "dead"
  /\ UNCHANGED <<sock, toVold, toClient, voldVars, sharedVars, todo, ret, held,
                 eventVars, history>>

(* "while (cmd_inflight)": the wait ends when no command is in flight, of  *)
(* whichever thread, and returns the latest result.                        *)
MainWakes ==
  /\ mpc = "waiting"
  /\ inflight = 0
  /\ ret' = result
  /\ todo' = Tail(todo)
  /\ mpc' = "call"
  /\ UNCHANGED <<sock, toVold, toClient, voldVars, sharedVars, held,
                 eventVars, history>>

(* The call returns; vold_init turns automounting on when it started.      *)
MainReturns ==
  /\ mpc = "call" /\ todo = <<>>
  /\ mpc' = "idle"
  /\ held' = FALSE
  /\ automount' = TRUE
  /\ UNCHANGED <<sock, toVold, toClient, voldVars, list, listing, inflight,
                 result, todo, ret, eventVars, history>>

-----------------------------------------------------------------------------
(* The event thread.                                                       *)

(* vold_connect() and the first turn of monitor(), which lets              *)
(* vold_client_start() go on to list the volumes.                          *)
EventConnects ==
  /\ epc = "connect"
  /\ sock' = Connected
  /\ epc' = "monitor"
  /\ IF mpc = "start"
     THEN /\ mpc' = "call"
          /\ \E v \in Volumes : todo' = <<Op("list", v)>>
     ELSE UNCHANGED <<mpc, todo>>
  /\ UNCHANGED <<toVold, toClient, voldVars, sharedVars, ret, held, msg, history>>

EventReads ==
  /\ epc = "monitor" /\ sock \in {"open", "hungup"} /\ toClient # <<>>
  /\ msg' = Head(toClient)
  /\ toClient' = Tail(toClient)
  /\ epc' = "dispatch"
  /\ UNCHANGED <<sock, toVold, voldVars, sharedVars, mainVars, history>>

(* At end of file, or when select() rejects the stale number, monitor()    *)
(* returns and the descriptor is closed, but sock keeps its value.  With   *)
(* no descriptor at all select() just times out, again and again.  After   *)
(* an error monitor() unlocks the mutex, which it does not hold; the main  *)
(* thread holds it only to send, and this thread next takes it after it    *)
(* has slept for three seconds and connected again.                        *)
EventLosesConnection ==
  /\ epc = "monitor"
  /\ \/ sock = "hungup" /\ toClient = <<>>
     \/ sock = "closed"
  /\ sock' = "closed"
  /\ epc' = "connect"
  /\ UNCHANGED <<toVold, toClient, voldVars, sharedVars, mainVars, msg, history>>

SetState(v, s) ==
  list' = IF list[v] = Absent THEN list ELSE [list EXCEPT ![v] = s]

(* The first entry of a listing replaces the whole list (write lock).      *)
DispatchList ==
  /\ epc = "dispatch" /\ msg.type = "list"
  /\ ~held
  /\ list' = IF listing THEN [list EXCEPT ![msg.vol] = msg.state]
             ELSE [v \in Volumes |-> IF v = msg.vol THEN msg.state ELSE Absent]
  /\ listing' = TRUE
  /\ epc' = "monitor"
  /\ UNCHANGED <<sock, toVold, toClient, voldVars, inflight, result, automount,
                 mainVars, msg, history>>

DispatchState ==
  /\ epc = "dispatch" /\ msg.type = "state"
  /\ SetState(msg.vol, msg.state)
  /\ epc' = "monitor"
  /\ UNCHANGED <<sock, toVold, toClient, voldVars, listing, inflight, result,
                 automount, mainVars, msg, history>>

(* Mutant: a removal does not reach the list.                              *)
DispatchDiskKept ==
  /\ epc = "dispatch" /\ msg.type \in {"inserted", "removed"}
  /\ IF msg.type = "inserted" THEN SetState(msg.vol, Idle) ELSE UNCHANGED list
  /\ epc' = IF msg.type = "inserted" /\ automount /\ list'[msg.vol] = Idle
            THEN "automount" ELSE "monitor"
  /\ UNCHANGED <<sock, toVold, toClient, voldVars, listing, inflight, result,
                 automount, mainVars, msg, history>>

(* An inserted volume is mounted at once if its node says it is idle.      *)
DispatchDisk ==
  /\ epc = "dispatch" /\ msg.type \in {"inserted", "removed"}
  /\ SetState(msg.vol, IF msg.type = "inserted" THEN Idle ELSE NoMedia)
  /\ epc' = IF msg.type = "inserted" /\ automount /\ list'[msg.vol] = Idle
            THEN "automount" ELSE "monitor"
  /\ UNCHANGED <<sock, toVold, toClient, voldVars, listing, inflight, result,
                 automount, mainVars, msg, history>>

AutomountSends ==
  /\ epc = "automount" /\ sock # "hungup"
  /\ Send([op |-> "mount", vol |-> msg.vol, by |-> "event"])
  /\ epc' = "monitor"
  /\ disturbed' = TRUE
  /\ UNCHANGED <<toClient, voldVars, list, listing, result, automount,
                 mainVars, msg, answer>>

AutomountDies ==
  /\ epc = "automount" /\ sock = "hungup"
  /\ mpc' = "dead"
  /\ UNCHANGED <<sock, toVold, toClient, voldVars, sharedVars, todo, ret, held,
                 eventVars, history>>

(* CommandOkay ends a listing (write lock).                                *)
DispatchResult ==
  /\ epc = "dispatch" /\ msg.type = "result"
  /\ IF msg.code = "okay" /\ listing
     THEN ~held /\ listing' = FALSE
     ELSE UNCHANGED listing
  /\ epc' = "complete"
  /\ UNCHANGED <<sock, toVold, toClient, voldVars, list, inflight, result,
                 automount, mainVars, msg, history>>

(* Mutant: a failed automount is tried again.                              *)
CompleteRetrying ==
  /\ epc = "complete"
  /\ result' = msg.code
  /\ IF msg.by = "event" /\ msg.code = "failed"
     THEN /\ \E v \in Volumes : toVold' = Append(toVold,
               [op |-> "mount", vol |-> v, by |-> "event"])
          /\ UNCHANGED inflight
     ELSE inflight' = inflight - 1 /\ UNCHANGED toVold
  /\ epc' = "monitor"
  /\ UNCHANGED <<sock, toClient, voldVars, list, listing, automount,
                 mainVars, msg, history>>

(* Mutant: only a successful command is completed.                         *)
CompleteOnlyOkay ==
  /\ epc = "complete"
  /\ result' = msg.code
  /\ inflight' = IF msg.code = "okay" THEN inflight - 1 ELSE inflight
  /\ epc' = "monitor"
  /\ UNCHANGED <<sock, toVold, toClient, voldVars, list, listing, automount,
                 mainVars, msg, history>>

CompleteCommand ==
  /\ epc = "complete"
  /\ result' = msg.code
  /\ inflight' = inflight - 1
  /\ epc' = "monitor"
  /\ UNCHANGED <<sock, toVold, toClient, voldVars, list, listing, automount,
                 mainVars, msg, history>>

-----------------------------------------------------------------------------
Vold == VoldTakes \/ VoldLists \/ VoldBegins \/ VoldEnds \/ VoldRestart

Main == MainSkips \/ MainSends \/ MainDies \/ MainWakes \/ MainReturns

Event ==
  /\ mpc # "dead"
  /\ \/ EventConnects \/ EventReads \/ EventLosesConnection
     \/ DispatchList \/ DispatchState \/ DispatchDisk \/ DispatchResult
     \/ AutomountSends \/ AutomountDies \/ CompleteCommand

Next ==
  Vold \/ MediaEvent \/ VoldCrash \/ Main \/ MainCalls \/ MainUnmountsAll \/ Event

Spec == Init /\ [][Next]_vars

-----------------------------------------------------------------------------
(* Properties.                                                             *)

(* A message about volume v, and the state it tells of it; the last of the *)
(* messages q about v tells state s; none of them is about v.              *)
About(m, v) == m.type \notin {"result", "none"} /\ m.vol = v
Tells(m) == IF m.type = "inserted" THEN Idle
            ELSE IF m.type = "removed" THEN NoMedia ELSE m.state
Told(q, v, s) == \E i \in DOMAIN q :
  /\ About(q[i], v) /\ Tells(q[i]) = s
  /\ \A j \in DOMAIN q : About(q[j], v) => j <= i
Silent(q, v) == \A i \in DOMAIN q : ~About(q[i], v)

(* While the connection lasts, the list the state checks of commands.c     *)
(* read lags behind vold only by messages still to be read: the last one   *)
(* about a volume tells the state vold has it in, and when none is left    *)
(* the volume's node does.  An event that arrives before or during the     *)
(* listing loses no update of a listed volume (dispatcher.c:125-199).      *)
ListAgrees ==
  sock = "open" => \A v \in Volumes :
    \/ Told(toClient, v, vstate[v])
    \/ /\ Silent(toClient, v)
       /\ IF epc = "dispatch" /\ About(msg, v) THEN Tells(msg) = vstate[v]
          ELSE list[v] \in {Absent, vstate[v]}

(* Once the main thread is past vold_init every volume has a node, so no   *)
(* later state change, insertion or removal is dropped for want of one     *)
(* (event_loop.c:218, dispatcher.c:160-172).                               *)
ListComplete ==
  sock = "open" /\ automount => \A v \in Volumes : list[v] # Absent

(* The list of volumes in step with vold: what it says is or becomes true, *)
(* and no volume is missing from it.                                       *)
ListInStep == ListAgrees /\ ListComplete

(* The results sent and not yet counted off.                               *)
Owing == {i \in DOMAIN toClient : toClient[i].type = "result"}
InHand == epc = "complete" \/ (epc = "dispatch" /\ msg.type = "result")
Pending == Cardinality(Owing) + (IF InHand THEN 1 ELSE 0)

(* cmd_inflight counts exactly the commands that still owe a result, so a  *)
(* waiter neither leaves early nor waits for an answer that was counted    *)
(* twice (event_loop.c:165-171, 263-271).                                  *)
InflightExact ==
  sock = "open" => inflight = Len(toVold) + Len(exec) + Pending

(* What each thread is at, and what the state of the connection allows.    *)
ThreadInv ==
  /\ mpc = "waiting" => todo # <<>>
  /\ mpc = "idle" => automount /\ ~held
  /\ epc = "dispatch" => msg # NoMsg
  /\ epc = "automount" => msg.type = "inserted"
  /\ epc = "complete" => msg.type = "result"
  /\ held => mpc # "start" /\ automount

ConnectionInv ==
  /\ sock = "open" => up
  /\ sock # "open" => toVold = <<>> /\ exec = <<>>
  /\ sock \in {"none", "closed"} =>
       toClient = <<>> /\ epc \in {"connect", "monitor"}
  /\ sock = "none" => /\ ~automount /\ ~listing
                      /\ \A v \in Volumes : list[v] = Absent
                      /\ epc = "connect" => mpc = "start"
  /\ mpc = "start" => sock = "none" /\ epc = "connect"

(* No result is counted off that was not counted in, connected or not.     *)
CountInv == InflightExact /\ inflight >= Pending

(* "volume list": a message of it on its way, and the list before and      *)
(* after.                                                                  *)
ListMsg(v) ==
  \/ epc = "dispatch" /\ msg.type = "list" /\ msg.vol = v
  \/ \E i \in DOMAIN toClient : toClient[i].type = "list" /\ toClient[i].vol = v
NoListMsg == \A v \in Volumes : ~ListMsg(v)
Blank  == ~listing /\ NoListMsg /\ \A v \in Volumes : list[v] = Absent
Listed == ~listing /\ NoListMsg /\ \A v \in Volumes : list[v] # Absent

(* vold_init asks for the list once, before anything else; no command and  *)
(* no event touches it again.                                              *)
Steady ==
  /\ Listed
  /\ \A i \in DOMAIN toVold : toVold[i].op # "list"
  /\ exec # <<>> => exec[1].op # "list"
  /\ \A i \in DOMAIN todo : todo[i].op # "list"

(* While vold_init waits for its listing: what has been listed has a node  *)
(* or is on its way, and the result comes behind the last entry.           *)
Filling ==
  /\ inflight <= 1
  /\ toVold # <<>> => Blank
  /\ inflight = 1 /\ ~listing /\ epc # "complete" =>
       \A v \in Volumes : list[v] = Absent
  /\ exec # <<>> => \A v \in listed : list[v] # Absent \/ ListMsg(v)
  /\ Pending > 0 => \A v \in Volumes : list[v] # Absent \/ ListMsg(v)
  /\ InHand => \A i \in DOMAIN toClient : toClient[i].type # "list"
  /\ epc = "complete" \/ inflight = 0 => Listed /\ sock # "none"
  /\ \A i, j \in DOMAIN toClient :
       toClient[i].type = "result" /\ toClient[j].type = "list" => j < i

Starting ==
  /\ epc # "automount"
  /\ todo = <<>> \/ (Len(todo) = 1 /\ todo[1].op = "list")
  /\ \A i \in DOMAIN toVold : toVold[i].op = "list"
  /\ exec # <<>> => exec[1].op = "list"
  /\ \A i \in Owing : toClient[i].code = "okay"
  /\ InHand => msg.code = "okay"
  /\ mpc = "start" \/ (mpc = "call" /\ todo # <<>>) => inflight = 0 /\ Blank
  /\ mpc = "waiting" => Filling
  /\ mpc = "call" /\ todo = <<>> => inflight = 0 /\ Listed /\ sock # "none"

ListingInv == IF automount THEN Steady ELSE Starting

(* A volume is busy only with the command vold runs, and the news of a     *)
(* command is on its way only before its result.                           *)
NewsInv ==
  /\ \A v \in Volumes : vstate[v] = Busy =>
       exec # <<>> /\ exec[1].op # "list" /\ exec[1].vol = v
  /\ sock = "open" =>
       /\ \A i \in DOMAIN toClient : toClient[i].type = "state" =>
            exec # <<>> \/ \E j \in Owing : j > i
       /\ epc = "dispatch" /\ msg.type = "state" => exec # <<>> \/ Owing # {}

(* vold_unmount_all: the steps left, each volume's in their order.         *)
StepsInv ==
  held =>
    /\ \A i \in DOMAIN todo : todo[i].op \in {"all_unshare", "all_unmount"}
    /\ \A i, j \in DOMAIN todo : i < j /\ todo[i].vol = todo[j].vol =>
         todo[i].op = "all_unshare" /\ todo[j].op = "all_unmount"

(* Undisturbed, only its own command is under way, and a volume with no    *)
(* step left is neither shared nor mounted.                                *)
Remains(op, v) ==
  \E i \in DOMAIN todo :
    /\ todo[i] = Op(op, v)
    /\ i = 1 /\ mpc = "waiting" => toVold # <<>> \/ exec # <<>>
UnmountInv ==
  held /\ ~disturbed /\ sock = "open" /\ mpc # "dead" =>
    /\ mpc = "call" => inflight = 0
    /\ mpc = "waiting" => inflight <= 1
    /\ \A c \in Range(toVold) \cup Range(exec) :
         /\ mpc = "waiting"
         /\ c = [op |-> CommandOf(todo[1].op), vol |-> todo[1].vol, by |-> "main"]
    /\ \A v \in Volumes :
         /\ vstate[v] = Shared => Remains("all_unshare", v)
         /\ vstate[v] = Mounted => Remains("all_unmount", v)

(* The client's counters and threads are consistent, commands are counted  *)
(* exactly, and the listing and the final unmounting are as far as the     *)
(* messages on their way say: the inductive invariant behind the rest.     *)
VoldInv ==
  /\ TypeOK /\ ThreadInv /\ ConnectionInv /\ CountInv
  /\ ListingInv /\ NewsInv /\ StepsInv /\ UnmountInv

(* The event thread never asks for the write lock while vold_unmount_all   *)
(* holds the read lock and waits for the event thread: no listing is under *)
(* way then (dispatcher.c:72-79, 129, 155).                                *)
WriterNeverShutOut ==
  held /\ epc = "dispatch" =>
    /\ msg.type # "list"
    /\ ~(listing /\ msg.type = "result" /\ msg.code = "okay")

(* When vold_unmount_all returns, no volume is mounted, shared or on its   *)
(* way there, provided that vold failed none of its commands and nothing   *)
(* was automounted meanwhile: the reboot that follows is clean             *)
(* (dispatcher.c:68-82, recovery.c:894-907).                               *)
CleanReboot ==
  [][ held /\ ~held' /\ sock = "open" /\ ~disturbed =>
        \A v \in Volumes : vstate[v] \in {NoMedia, Idle} ]_vars

(* What vold_command returns to the main thread is vold's answer to the    *)
(* command it sent ("waits for completion and returns result code",        *)
(* event_loop.c:226-227).                                                  *)
ResultIsOwn == mpc \notin {"waiting", "dead"} => ret = answer

(* While the connection lasts, vold_command with wait = 1 returns, although*)
(* it waits until the count it shares with the event thread is zero        *)
(* (event_loop.c:265-271).                                                 *)
ConnectedCommandReturns ==
  mpc = "waiting" ~> (mpc # "waiting" \/ sock # "open")

=============================================================================
