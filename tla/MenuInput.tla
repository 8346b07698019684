------------------------------ MODULE MenuInput ------------------------------
(***************************************************************************)
(* The key queue of ui.c between the input thread, the threads that cancel *)
(* a wait and the main thread in a menu (get_menu_selection, recovery.c).  *)
(*                                                                         *)
(* A section under key_queue_mutex is one step, except that the flag of    *)
(* changed volumes is read and cleared by two accesses without a lock of   *)
(* its own.  Times are abstracted: a wait may time out whenever it waits,  *)
(* and a held key is due for its repeat or not.                            *)
(***************************************************************************)
EXTENDS Integers, Sequences, Functions

CONSTANTS
  Keys,           \* key codes
  Repeatable,     \* boardRepeatableKeys
  RepeatEnabled,  \* boardEnableKeyRepeat after ui_init
  KernelRepeats,  \* the driver repeats held keys itself (events of value 2)
  QueueMax,       \* size of key_queue
  MaxPresses,     \* bound on key events that are queued
  Cancel, Timeout, Refresh   \* -2, -1 and -3

ASSUME MenuAssumption ==
  /\ Repeatable \subseteq Keys
  /\ RepeatEnabled \in BOOLEAN /\ KernelRepeats \in BOOLEAN
  /\ QueueMax \in Nat \ {0} /\ MaxPresses \in Nat
  /\ {Cancel, Timeout, Refresh} \cap Keys = {}
  /\ Cancel # Timeout /\ Cancel # Refresh /\ Timeout # Refresh

VARIABLES
  queue,     \* key_queue[0 .. key_queue_len - 1]
  pressed,   \* key_pressed
  repeated,  \* key_last_repeat > 0
  repeatOn,  \* boardEnableKeyRepeat
  changed,   \* v_changed of recovery.c, set by the vold event thread
  pc,        \* where the main thread is, see InputTypeOK
  seen,      \* the first read of v_changed in volumes_changed()
  timedOut,  \* rc == ETIMEDOUT
  key,       \* what ui_wait_key() returned
  presses,   \* key events queued so far
  owed       \* history: events of a key that are queued and not yet answered

menuVars == <<pc, seen, timedOut, key>>
keyVars  == <<queue, pressed, repeated, repeatOn, presses, owed>>
inputVars == <<keyVars, menuVars, changed>>

InputTypeOK ==
  /\ queue \in Seq(Keys \cup {Cancel})
  /\ pressed \in [Keys -> BOOLEAN]
  /\ repeated \in [Keys -> BOOLEAN]
  /\ repeatOn \in BOOLEAN
  /\ changed \in BOOLEAN
  /\ pc \in {"out",                               \* not in a menu
             "wait", "blocked", "polling",        \* ui_wait_key
             "rwait", "rblocked", "rpolling",     \* ui_wait_key_with_repeat
             "rcheck", "rloop",
             "return"}                            \* back in the menu
  /\ seen \in BOOLEAN /\ timedOut \in BOOLEAN
  /\ key \in Keys \cup {Cancel, Timeout, Refresh}
  /\ presses \in 0..MaxPresses
  /\ owed \in [Keys -> Nat]

InputInit ==
  /\ queue = <<>>
  /\ pressed = [k \in Keys |-> FALSE]
  /\ repeated = [k \in Keys |-> FALSE]
  /\ repeatOn = RepeatEnabled
  /\ changed = FALSE
  /\ pc = "out" /\ seen = FALSE /\ timedOut = FALSE /\ key = Timeout
  /\ presses = 0
  /\ owed = [k \in Keys |-> 0]

-----------------------------------------------------------------------------
(* input_callback(), on the input thread.                                  *)

(* The main thread holds the mutex only while it polls for volumes.        *)
MutexFree == pc \notin {"polling", "rpolling"}

(* A full queue drops the key.                                             *)
Enqueue(k) ==
  IF Len(queue) < QueueMax
  THEN /\ queue' = Append(queue, k)
       /\ repeated' = IF repeatOn' THEN [repeated EXCEPT ![k] = FALSE] ELSE repeated
       /\ owed' = [owed EXCEPT ![k] = @ + 1]
  ELSE UNCHANGED <<queue, repeated, owed>>

(* A key that restarts the device (device_reboot_now) ends the behaviour.  *)
KeyEvent(k) ==
  /\ MutexFree
  /\ presses < MaxPresses
  /\ presses' = presses + 1
  /\ Enqueue(k)
  /\ UNCHANGED <<menuVars, changed>>

KeyDown(k) ==
  /\ ~pressed[k]
  /\ pressed' = [pressed EXCEPT ![k] = TRUE]
  /\ UNCHANGED repeatOn
  /\ KeyEvent(k)

(* A repeat by the kernel turns recovery's own repetition off.             *)
KeyRepeat(k) ==
  /\ KernelRepeats /\ pressed[k]
  /\ repeatOn' = FALSE
  /\ UNCHANGED pressed
  /\ KeyEvent(k)

(* The trackball's "fake" keys are not recorded as pressed.                *)
FakeKey(k) ==
  /\ UNCHANGED <<pressed, repeatOn>>
  /\ KeyEvent(k)

KeyUp(k) ==
  /\ MutexFree /\ pressed[k]
  /\ pressed' = [pressed EXCEPT ![k] = FALSE]
  /\ UNCHANGED <<queue, repeated, repeatOn, presses, owed, menuVars, changed>>

Input == \E k \in Keys : KeyDown(k) \/ KeyRepeat(k) \/ FakeKey(k) \/ KeyUp(k)

(* handle_volume_hotswap(), on the vold event thread.                      *)
VolumeHotswap ==
  /\ changed' = TRUE
  /\ UNCHANGED <<keyVars, menuVars>>

(* ui_cancel_wait_key().                                                   *)
CancelWaitKey ==
  /\ MutexFree
  /\ queue' = Append(queue, Cancel)
  /\ UNCHANGED <<pressed, repeated, repeatOn, presses, owed, menuVars, changed>>

(* ui_clear_key_queue(): the unread events are thrown away.                *)
ClearKeyQueue ==
  /\ queue' = <<>>
  /\ owed' = [k \in Keys |-> 0]
  /\ UNCHANGED <<pressed, repeated, repeatOn, presses>>

-----------------------------------------------------------------------------
(* ui_wait_key() and ui_wait_key_with_repeat(), on the main thread.        *)

Answered(k) == [owed EXCEPT ![k] = IF @ = 0 THEN 0 ELSE @ - 1]

Returns(x) ==
  /\ key' = x
  /\ pc' = "return"

(* ui_wait_key() takes the first entry, whatever it is.                    *)
PopFirst ==
  /\ Returns(Head(queue))
  /\ queue' = Tail(queue)
  /\ owed' = IF Head(queue) = Cancel THEN owed ELSE Answered(Head(queue))
  /\ UNCHANGED <<pressed, repeated, repeatOn, presses, seen, timedOut, changed>>

EnterWait ==
  /\ pc = "wait"
  /\ IF repeatOn
     THEN pc' = "rwait" /\ UNCHANGED <<keyVars, seen, timedOut, key, changed>>
     ELSE IF queue # <<>> THEN PopFirst
     ELSE pc' = "blocked" /\ UNCHANGED <<keyVars, seen, timedOut, key, changed>>

EnterRepeatWait ==
  /\ pc = "rwait"
  /\ pc' = IF queue = <<>> THEN "rblocked" ELSE "rcheck"
  /\ timedOut' = FALSE
  /\ UNCHANGED <<keyVars, seen, key, changed>>

(* pthread_cond_timedwait returns, on a signal or at the timeout (or both),*)
(* and volumes_changed() makes its first read.                             *)
Wake ==
  /\ pc \in {"blocked", "rblocked"}
  /\ timedOut' \in IF queue = <<>> THEN {TRUE} ELSE BOOLEAN
  /\ seen' = changed
  /\ pc' = IF pc = "blocked" THEN "polling" ELSE "rpolling"
  /\ UNCHANGED <<keyVars, key, changed>>

ReportChange ==
  /\ pc \in {"polling", "rpolling"} /\ seen
  /\ changed' = FALSE
  /\ Returns(Refresh)
  /\ UNCHANGED <<keyVars, seen, timedOut>>

(* volumes_changed() tests the flag a second time and clears it also when  *)
(* the first read did not see it set, unless the compiler read it once.    *)
ClearUnseen == changed' \in {FALSE, changed}

(* After the last of the timeouts, with USB disconnected, the wait ends.   *)
PollWait ==
  /\ pc = "polling" /\ ~seen
  /\ IF queue # <<>>
     THEN /\ Returns(Head(queue))
          /\ queue' = Tail(queue)
          /\ owed' = IF Head(queue) = Cancel THEN owed ELSE Answered(Head(queue))
     ELSE /\ \/ pc' = "blocked" /\ UNCHANGED key
             \/ Returns(Timeout)
          /\ UNCHANGED <<queue, owed>>
  /\ ClearUnseen
  /\ UNCHANGED <<pressed, repeated, repeatOn, presses, seen, timedOut>>

PollRepeatWait ==
  /\ pc = "rpolling" /\ ~seen
  /\ \/ queue = <<>> /\ pc' = "rblocked"
     \/ pc' = "rcheck"
  /\ ClearUnseen
  /\ UNCHANGED <<keyVars, seen, timedOut, key>>

(* usb_connected() is asked without the mutex.                             *)
CheckTimeout ==
  /\ pc = "rcheck"
  /\ \/ timedOut /\ Returns(Timeout)
     \/ pc' = "rloop" /\ UNCHANGED key
  /\ UNCHANGED <<keyVars, seen, timedOut, changed>>

LoopEnds ==
  /\ pc = "rloop" /\ queue = <<>>
  /\ pc' = "rwait"
  /\ UNCHANGED <<keyVars, seen, timedOut, key, changed>>

LoopCancel ==
  /\ pc = "rloop" /\ queue # <<>> /\ Head(queue) = Cancel
  /\ queue' = Tail(queue)
  /\ Returns(Cancel)
  /\ UNCHANGED <<pressed, repeated, repeatOn, presses, owed, seen, timedOut, changed>>

(* A released key that has repeated is dropped.                            *)
LoopDrop(k) ==
  /\ pc = "rloop" /\ queue # <<>> /\ Head(queue) = k
  /\ ~pressed[k] /\ repeated[k]
  /\ queue' = Tail(queue)
  /\ UNCHANGED <<pressed, repeated, repeatOn, presses, owed, menuVars, changed>>

(* Mutant: it goes back to the front.                                      *)
ReaddedFirst(k) ==
  IF k \in Repeatable /\ pressed[k] THEN queue ELSE Tail(queue)

(* A held repeatable key goes back to the end of the queue.                *)
Readded(k) ==
  IF k \in Repeatable /\ pressed[k] THEN Append(Tail(queue), k) ELSE Tail(queue)

LoopNotReady(k) ==
  /\ pc = "rloop" /\ queue # <<>> /\ Head(queue) = k
  /\ pressed[k] /\ repeated[k] /\ k \in Repeatable
  /\ queue' = Readded(k)
  /\ UNCHANGED <<pressed, repeated, repeatOn, presses, owed, menuVars, changed>>

(* Mutant: released keys are not told from held ones.                      *)
LoopReturnAny(k) ==
  /\ pc = "rloop" /\ queue # <<>> /\ Head(queue) = k
  /\ queue' = Readded(k)
  /\ repeated' = [repeated EXCEPT ![k] = @ \/ k \in Repeatable]
  /\ owed' = Answered(k)
  /\ Returns(k)
  /\ UNCHANGED <<pressed, repeatOn, presses, seen, timedOut, changed>>

LoopReturn(k) ==
  /\ pc = "rloop" /\ queue # <<>> /\ Head(queue) = k
  /\ pressed[k] \/ ~repeated[k]
  /\ queue' = Readded(k)
  /\ repeated' = [repeated EXCEPT ![k] = @ \/ k \in Repeatable]
  /\ owed' = Answered(k)
  /\ Returns(k)
  /\ UNCHANGED <<pressed, repeatOn, presses, seen, timedOut, changed>>

WaitKey ==
  \/ EnterWait \/ EnterRepeatWait \/ Wake \/ ReportChange \/ PollWait
  \/ PollRepeatWait \/ CheckTimeout \/ LoopEnds \/ LoopCancel
  \/ \E k \in Keys : LoopDrop(k) \/ LoopNotReady(k) \/ LoopReturn(k)

-----------------------------------------------------------------------------
(* get_menu_selection().                                                   *)

MenuStarts ==
  /\ pc = "out"
  /\ ClearKeyQueue
  /\ pc' = "wait"
  /\ UNCHANGED <<seen, timedOut, key, changed>>

(* A key that moves the highlight, or a timeout with text on the screen.   *)
MenuGoesOn ==
  /\ pc = "return" /\ key \in Keys \cup {Timeout}
  /\ pc' = "wait"
  /\ UNCHANGED <<keyVars, seen, timedOut, key, changed>>

(* A key that selects; the end of a menu clears the queue again.           *)
MenuChooses ==
  /\ pc = "return" /\ key \in Keys
  /\ ClearKeyQueue
  /\ pc' = "out"
  /\ UNCHANGED <<seen, timedOut, key, changed>>

(* The returns from the middle of the loop leave the queue as it is.       *)
MenuLeaves ==
  /\ pc = "return" /\ key \in {Cancel, Refresh, Timeout}
  /\ pc' = "out"
  /\ UNCHANGED <<keyVars, seen, timedOut, key, changed>>

Menu == MenuStarts \/ MenuGoesOn \/ MenuChooses \/ MenuLeaves

-----------------------------------------------------------------------------
(* Properties.                                                             *)

(* With recovery's own repetition a released key is returned only for a    *)
(* press that was not yet answered: a key that was held never moves the    *)
(* menu after it was let go (ui.c:985-1008).                               *)
NoPhantomKey ==
  [][ \A k \in Keys :
        pc = "rloop" /\ pc' = "return" /\ key' = k /\ ~pressed[k]
          => owed[k] > 0 ]_inputVars

=============================================================================
