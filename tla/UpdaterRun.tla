----------------------------- MODULE UpdaterRun -----------------------------
(***************************************************************************)
(* An update package being installed: try_update_binary of install.c runs  *)
(* the updater (updater/updater.c) as a child and obeys the commands it    *)
(* writes to a pipe, while the progress thread of ui.c moves the bar.      *)
(*                                                                         *)
(* The script is any sequence of at most MaxStmts statements out of        *)
(* Stmts; the interpreter is that of module Edify, one top-level           *)
(* statement a step.  The bar is BarLen units long: one for the            *)
(* verification of the package and the rest for the script.                *)
(***************************************************************************)
EXTENDS Edify

CONSTANTS Stmts, MaxStmts,
          PipeMax,      \* commands the pipe holds
          BarLen        \* length of the progress bar

VARIABLES child,        \* state of the updater process
          status,       \* what waitpid will tell
          dev,          \* the device
          wq, pipe,     \* commands to be written, and in the pipe
          nstmts,       \* statements evaluated
          parent,       \* state of the installer
          props,        \* where the property area is
          bar,          \* [start, size, prog, timed], prog in halves
          asked         \* part of the bar the script has asked for

runVars == <<child, status, dev, wq, pipe, nstmts, parent, props, bar, asked>>

Halves == 2

RunTypeOK ==
    /\ child \in {"none", "run", "aborting", "exited"}
    /\ status \in {"none", "ok", "failed", "killed", "unset"}
    /\ Len(pipe) <= PipeMax
    /\ parent \in {"start", "read", "wait", "success", "error"}
    /\ props \in {"here", "moved", "stuck"}
    /\ bar.prog \in 0 .. Halves

\* The device before the script.
OldSystem ==
    [mounted |-> FALSE, part |-> "files", raw |-> "old",
     file |-> [f \in ScriptFiles |-> "old"], baks |-> {}, out |-> <<>>,
     bg |-> FALSE, dead |-> FALSE, late |-> FALSE, checked |-> {},
     refused |-> FALSE]

RunInit ==
    /\ child = "none" /\ status = "none" /\ nstmts = 0
    /\ dev = OldSystem
    /\ wq = <<>> /\ pipe = <<>>
    /\ parent = "start" /\ props = "here"
    \* the bar after verify_file: its scope is used up or not
    /\ bar \in [start : {0}, size : {1}, prog : {0, Halves}, timed : BOOLEAN]
    /\ asked = 0
-----------------------------------------------------------------------------
(* The parent. *)

\* The package has no update-binary, or it cannot be copied out or opened to
\* see which properties it wants.
NoBinary ==
    /\ parent = "start"
    /\ parent' = "error"
    /\ UNCHANGED <<child, status, dev, wq, pipe, nstmts, props, bar, asked>>

\* set_legacy_props and unset_legacy_props; their failures are only logged.
SetLegacyProps   == props' \in {"here", "moved"}
UnsetLegacyProps == props' \in {"here", "stuck"}

\* The properties for an old updater, the pipe, and fork.
StartUpdater ==
    /\ parent = "start"
    /\ parent' = "read"
    /\ \/ child' = "run" /\ status' = status
       \* fork fails: nobody writes to the pipe, nobody is waited for
       \/ child' = "exited" /\ status' = "unset"
    /\ SetLegacyProps \/ props' = props
    /\ UNCHANGED <<dev, wq, pipe, nstmts, bar, asked>>

\* ui_show_progress: the next scope begins where the last one ends.
ShowProgress(b, p, secs) ==
    [start |-> b.start + b.size, size |-> p, prog |-> 0, timed |-> secs]

SetProgressBack(b, q) == [b EXCEPT !.prog = q]  \* mutant: also backwards

\* ui_set_progress: only forward (and only if a pixel changes).
SetProgress(b, q) ==
    IF q > b.prog THEN [b EXCEPT !.prog = q] ELSE b

WaitsFirst ==   \* mutant: waitpid before the pipe is read
    /\ parent = "read" /\ pipe # <<>> /\ child = "exited"
    /\ pipe' = Tail(pipe)
    /\ UNCHANGED <<child, status, dev, wq, nstmts, parent, props, bar, asked>>

\* The fgets loop.  The script asks for no more than the whole bar; a command
\* it does not know (wipe_cache is one) is only logged.  No function of the
\* updater writes the firmware command of old packages.
ReadCommand ==
    /\ parent = "read" /\ pipe # <<>>
    /\ pipe' = Tail(pipe)
    /\ CASE Head(pipe) = "progress" ->
              \E p \in 0 .. BarLen - 1 - asked, secs \in BOOLEAN :
                 bar' = ShowProgress(bar, p, secs) /\ asked' = asked + p
         [] Head(pipe) = "set_progress" ->
              /\ \E q \in 0 .. Halves : bar' = SetProgress(bar, q)
              /\ UNCHANGED asked
         [] OTHER -> UNCHANGED <<bar, asked>>
    /\ UNCHANGED <<child, status, dev, wq, nstmts, parent, props>>

\* End of file: nobody holds the other end of the pipe.
ReadEnds ==
    /\ parent = "read" /\ pipe = <<>> /\ child = "exited" /\ ~dev.bg
    /\ parent' = "wait"
    /\ UNCHANGED <<child, status, dev, wq, pipe, nstmts, props, bar, asked>>

KilledIsSuccess ==  \* mutant: WIFEXITED is not asked
    /\ parent = "wait"
    /\ parent' = IF status # "failed" THEN "success" ELSE "error"
    /\ props' = "here"
    /\ UNCHANGED <<child, status, dev, wq, pipe, nstmts, bar, asked>>

\* waitpid, the properties put back, and the result; after a failed fork
\* waitpid leaves the variable for the status as it was, uninitialised.
WaitUpdater ==
    /\ parent = "wait"
    /\ IF props = "moved" THEN UnsetLegacyProps ELSE props' = props
    /\ parent' \in CASE status = "ok"    -> {"success"}
                     [] status = "unset" -> {"success", "error"}
                     [] OTHER            -> {"error"}
    /\ UNCHANGED <<child, status, dev, wq, pipe, nstmts, bar, asked>>
-----------------------------------------------------------------------------
(* The updater and what may happen to it. *)

Exits(how) == child' = "exited" /\ status' = how /\ wq' = <<>>

\* main gives up before the script: package, entry or parse error.
UpdaterFails ==
    /\ child = "run" /\ nstmts = 0 /\ wq = <<>>
    /\ Exits("failed")
    /\ UNCHANGED <<dev, pipe, nstmts, parent, props, bar, asked>>

\* What an aborted script prints: without a message, one line.
AbortLines == {<<"ui_print">>, <<"ui_print", "ui_print">>}

\* One statement; an aborted script prints why and returns 7.
Statement(e) ==
    /\ child = "run" /\ wq = <<>> /\ nstmts < MaxStmts
    /\ nstmts' = nstmts + 1
    /\ \E r \in Eval(dev, e) :
         /\ dev' = [r.D EXCEPT !.out = <<>>]
         /\ wq' \in CASE r.v = CRASH -> {<<>>}
                     [] r.v = NULL  -> {r.D.out \o x : x \in AbortLines}
                     [] OTHER       -> {r.D.out}
         /\ child' = CASE r.v = CRASH -> "exited"
                       [] r.v = NULL  -> "aborting"
                       [] OTHER       -> "run"
         /\ status' = IF r.v = CRASH THEN "killed" ELSE status
    /\ UNCHANGED <<pipe, parent, props, bar, asked>>

\* The pipe is line buffered and a full one blocks the updater.
WriteCommand ==
    /\ child \in {"run", "aborting"} /\ wq # <<>> /\ Len(pipe) < PipeMax
    /\ pipe' = Append(pipe, Head(wq)) /\ wq' = Tail(wq)
    /\ UNCHANGED <<child, status, dev, nstmts, parent, props, bar, asked>>

UpdaterExits ==
    /\ wq = <<>>
    /\ \/ child = "run" /\ nstmts > 0 /\ Exits("ok")
       \/ child = "aborting" /\ Exits("failed")
    /\ UNCHANGED <<dev, pipe, nstmts, parent, props, bar, asked>>

\* External: the updater is killed; a program it left running ends.
UpdaterKilled ==
    /\ child \in {"run", "aborting"} /\ Exits("killed")
    /\ UNCHANGED <<dev, pipe, nstmts, parent, props, bar, asked>>

ProgramEnds ==
    /\ dev.bg /\ dev' = [dev EXCEPT !.bg = FALSE]
    /\ UNCHANGED <<child, status, wq, pipe, nstmts, parent, props, bar,
                   asked>>

\* progress_thread: elapsed time over the duration, at most 1, never back;
\* the clock it reads may have been set to any time.
ProgressTick ==
    /\ bar.timed /\ parent \in {"read", "wait"}
    /\ \E q \in 0 .. Halves : q > bar.prog /\ bar' = [bar EXCEPT !.prog = q]
    /\ UNCHANGED <<child, status, dev, wq, pipe, nstmts, parent, props,
                   asked>>

Parent  == StartUpdater \/ NoBinary \/ ReadCommand \/ ReadEnds \/ WaitUpdater
Updater == UpdaterFails \/ (\E e \in Stmts : Statement(e)) \/ WriteCommand
           \/ UpdaterExits
RunNext == Parent \/ Updater \/ UpdaterKilled \/ ProgramEnds \/ ProgressTick

(***************************************************************************)
(* The three processes run: the installer, the updater, and a program the  *)
(* script has left running ends some day.                                  *)
(***************************************************************************)
RunFairness == /\ WF_runVars(Parent) /\ WF_runVars(Updater)
               /\ WF_runVars(ProgramEnds)
-----------------------------------------------------------------------------
(***************************************************************************)
(* try_update_binary returns INSTALL_SUCCESS only for an updater that      *)
(* evaluated its script to the end without a NULL, and by then every       *)
(* command the updater wrote has been obeyed.  Excepted is a failed fork,  *)
(* after which the result depends on an uninitialised variable.            *)
(***************************************************************************)
SuccessMeansRan ==
    parent = "success" /\ status # "unset" => /\ status = "ok" /\ ~dev.dead
                                              /\ pipe = <<>>

(***************************************************************************)
(* Once an evaluation has given NULL, the interpreter does nothing more to *)
(* the device: no operator or function of expr.c takes NULL for a value.   *)
(***************************************************************************)
NothingAfterAbort == ~dev.late

(***************************************************************************)
(* apply_patch never turns down a file that apply_patch_check let pass and *)
(* that the script has not touched since: a missing file that the check    *)
(* lets pass, on a system with a backup table, is skipped by the patch.    *)
(***************************************************************************)
CheckedIsPatchable == ~dev.refused

(***************************************************************************)
(* However the updater ends, the property area is back in its place when   *)
(* the installer returns, unless renaming it back failed.                  *)
(***************************************************************************)
PropsPutBack == parent \in {"success", "error"} => props # "moved"

BarPos(b) == b.start * Halves + b.prog * b.size

(***************************************************************************)
(* The progress bar never moves back, whichever way timed and set scopes   *)
(* follow each other and whatever the clock does.                          *)
(***************************************************************************)
BarForward == [][BarPos(bar') >= BarPos(bar)]_runVars

(***************************************************************************)
(* The bar is never drawn past its end when the portions the script asks   *)
(* for add up to at most the whole.                                        *)
(***************************************************************************)
BarInside == BarPos(bar) <= BarLen * Halves

(***************************************************************************)
(* Every installation ends: the pipe, which blocks the updater when full,  *)
(* is read before the updater is waited for.                               *)
(***************************************************************************)
InstallEnds == <>(parent \in {"success", "error"})

(***************************************************************************)
(* What holds in every state of an installation: try_update_binary reports *)
(* success of a started updater only when its script ran to its end, the   *)
(* property area is back when it has returned, and the bar is inside its   *)
(* frame.                                                                  *)
(***************************************************************************)
RunInv == RunTypeOK /\ SuccessMeansRan /\ PropsPutBack /\ BarInside
=============================================================================
