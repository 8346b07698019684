------------------------------- MODULE Edify -------------------------------
(***************************************************************************)
(* The edify interpreter (edify/expr.c) and the functions the updater      *)
(* registers (updater/install.c).                                          *)
(*                                                                         *)
(* An expression is [fn, args], a literal [fn |-> "literal", val].  A      *)
(* value is a string, a blob, NULL (an aborted evaluation) or CRASH (the   *)
(* process dies of a pointer).  The device is a record                     *)
(*   D = [mounted, part, raw, file, baks, out, bg, dead, late, checked,    *)
(*        refused]                                                         *)
(* for one partition "part" that may be mounted and one written raw, the   *)
(* files, the table of files not to be patched, the commands for the pipe, *)
(* whether a program left running holds the pipe, and the ghosts "dead"    *)
(* (a NULL has arisen), "late" (something was done after that), "checked"  *)
(* (files that passed apply_patch_check and were not touched since) and    *)
(* "refused" (apply_patch turned down the contents of such a file).        *)
(* Evaluation gives the set of its outcomes [D, v].                        *)
(*                                                                         *)
(* Text is reduced to what functions test: empty or not.  Of the arguments *)
(* that a function only checks (a type, a size, a mode) a call has one,    *)
(* which is "" when the check fails.                                       *)
(***************************************************************************)
EXTENDS Naturals, Sequences, FiniteSets, SequencesExt

CONSTANTS ScriptFiles,  \* the files a script deals with
          Backed        \* those found by collect_backup_data

NULL  == "NULL"
CRASH == "CRASH"
Blobs == {"blob", "noblob"}     \* noblob: size -1, no data

IsString(v) == v \notin {NULL, CRASH} \cup Blobs
BooleanString(v) == v # ""

Gives(D, v) == [D |-> D, v |-> v]

\* Every effect goes through here, so that one after a NULL is seen.
Does(D, D2) == [D2 EXCEPT !.late = D.late \/ D.dead]

\* ErrorAbort, and a NULL without a message.
Aborts(D) == Gives([D EXCEPT !.dead = TRUE], NULL)
Crashes(D) == Gives([D EXCEPT !.dead = TRUE], CRASH)
Stopped(v) == v \in {NULL, CRASH}

SetFile(D, f, c) == Does(D, [D EXCEPT !.file[f] = c, !.checked = @ \ {f}])
Emit(D, cmds) == Does(D, [D EXCEPT !.out = @ \o cmds])
-----------------------------------------------------------------------------
(* The functions of updater/install.c, after their arguments vs are read.  *)

\* "... argument can't be empty", "can't parse ... as byte count".
Unusable(vs) == \E i \in DOMAIN vs : vs[i] = ""

MountFn(D, vs) ==
    CASE Unusable(vs) -> {Aborts(D)}
      [] D.mounted -> {Gives(D, "")}
      [] OTHER -> {Gives(Does(D, [D EXCEPT !.mounted = TRUE]), vs[1]),
                   Gives(D, "")}

IsMountedFn(D, vs) ==
    IF Unusable(vs) THEN {Aborts(D)}
    ELSE {Gives(D, IF D.mounted THEN vs[1] ELSE "")}

\* The result of umount is not looked at.
UnmountFn(D, vs) ==
    CASE Unusable(vs) -> {Aborts(D)}
      [] ~D.mounted -> {Gives(D, "")}
      [] OTHER -> {Gives(Does(D, [D EXCEPT !.mounted = b]), vs[1]) :
                     b \in BOOLEAN}

\* An unsupported type gives NULL and no message.
FormatFn(D, vs) ==
    IF Unusable(vs) \/ vs[1] = "vfat" THEN {Aborts(D)}
    ELSE {Gives(Does(D, [D EXCEPT !.part = "empty"]), vs[1]),
          Gives(Does(D, [D EXCEPT !.part = "torn"]), ""),
          Gives(D, "")}

RenameFn(D, vs) ==
    {Aborts(D)} \cup
    (IF Unusable(vs) \/ D.file[vs[1]] = "none" THEN {}
     ELSE {Gives(SetFile(SetFile(D, vs[2], D.file[vs[1]]), vs[1], "none"),
                 vs[2])})

\* The value is the number of files that could be removed.
DeleteFn(D, vs) ==
    {Gives(Does(D, [D EXCEPT !.file = [f \in ScriptFiles |->
                                         IF f \in S THEN "none" ELSE @[f]],
                             !.checked = @ \ S]),
           IF S = {} THEN "0" ELSE "1") :
       S \in SUBSET {f \in ToSet(vs) \cap ScriptFiles : D.file[f] # "none"}}

\* The error path of DeleteFn counts the wrong variable and frees the first
\* name over and over, unless that is the argument that gave NULL.
DeleteStops(a) == IF a.vs = <<>> THEN Gives(a.D, a.v) ELSE Crashes(a.D)

ShowProgressFn(D, vs) == {Gives(Emit(D, <<"progress">>), vs[1])}
SetProgressFn(D, vs)  == {Gives(Emit(D, <<"set_progress">>), vs[1])}

\* package_extract_dir: mzExtractRecursive gives true for a torn file too.
ExtractDir(D, vs) ==
    {Gives(SetFile(D, vs[1], "new"), "t"),
     Gives(SetFile(D, vs[1], "torn"), "t"), Gives(D, "")}

\* package_extract_file with a destination.
ExtractTo(D, vs) ==
    {Gives(SetFile(D, vs[1], "new"), "t"),
     Gives(SetFile(D, vs[1], "torn"), ""), Gives(D, "")}

\* package_extract_file with one argument: the contents.
ExtractBlob(D, vs) == {Gives(D, b) : b \in Blobs}

SymlinkFn(D, vs) ==
    {Gives(SetFile(D, vs[1], "link"), ""), Aborts(SetFile(D, vs[1], "none")),
     Aborts(D)}

\* set_perm(mode, file): "some changes failed" aborts; set_perm_recursive does
\* not look at the results.
SetPermFn(fn, D, vs) ==
    CASE vs[1] = "" -> {Aborts(D)}
      [] fn = "set_perm_recursive" -> {Gives(Does(D, D), "")}
      [] OTHER -> {Aborts(Does(D, D))} \cup
                  (IF D.file[vs[2]] = "none" THEN {}
                   ELSE {Gives(Does(D, D), "")})

\* The attributes with a valid value; the others are only reported.
ParsePermArgs(vs) == {i \in 2 .. Len(vs) : vs[i] # ""}

\* How many attributes may fail to be set; symbolic links are ignored.
ApplyParsedPerms(D, f, parsed) ==
    IF D.file[f] = "link" THEN {0} ELSE 0 .. Cardinality(parsed)

\* The NULL of the ErrorAbort for a missing file is overwritten by "".
SetMetadataFn(D, vs) ==
    IF D.file[vs[1]] = "none" THEN {Gives(D, "")}
    ELSE {IF bad > 0 THEN Aborts(Does(D, D)) ELSE Gives(Does(D, D), "") :
            bad \in ApplyParsedPerms(D, vs[1], ParsePermArgs(vs))}

GetPropFn(D, vs) == {Gives(D, ""), Gives(D, "x")}
FileGetPropFn(D, vs) ==
    {Aborts(D)} \cup (IF D.file[vs[1]] = "none" THEN {}
                      ELSE {Gives(D, ""), Gives(D, "x")})

\* write_raw_image(contents, partition): the contents are a file name.
WriteRawImageFn(D, vs) ==
    IF vs[1] = "" \/ vs[2] = "" \/ ~IsString(vs[2]) THEN {Aborts(D)}
    ELSE {Gives(Does(D, [D EXCEPT !.raw = "torn"]), ""), Gives(D, "")} \cup
         IF IsString(vs[1])
         THEN {Gives(Does(D, [D EXCEPT !.raw = "new"]), vs[2])} ELSE {}

ApplyPatchSpaceFn(D, vs) ==
    IF Unusable(vs) THEN {Aborts(D)} ELSE {Gives(D, "t"), Gives(D, "")}

\* apply_patch(file, size, patch): a file of the backup table is skipped.
SkipPatch(D) == {Gives(Emit(D, <<"ui_print", "ui_print">>), "t")}

\* Otherwise the patches are read, and are dereferenced even when reading them
\* gave NULL.  A file is "old" as long as its contents are in it or in its copy
\* in /cache.
ApplyPatchFn(D, vs, patch) ==
    CASE Stopped(patch) -> {Crashes(D)}
      [] patch \notin Blobs -> {Aborts(D)}
      [] OTHER ->
           CASE D.file[vs[1]] = "old" /\ patch = "blob" ->
                  {Gives(SetFile(D, vs[1], "new"), "t"), Gives(D, "")}
             [] D.file[vs[1]] = "new" -> {Gives(D, "t")}
             [] patch = "noblob" -> {Gives(D, "")}
             [] OTHER -> {Gives([D EXCEPT !.refused = @ \/ (vs[1] \in D.checked)], "")}

Checked(D, f) == Gives([D EXCEPT !.checked = @ \cup {f}], "t")

CheckForgets(D, vs) ==      \* mutant: the missing file is not put in the table
    IF vs[1] \in D.baks \/ D.file[vs[1]] \in {"old", "new"}
       \/ (D.file[vs[1]] = "none" /\ D.baks # {})
    THEN {Checked(D, vs[1])} ELSE {Gives(D, "")}

\* apply_patch_check(file, sha1): a missing file joins a table that is not
\* empty.
ApplyPatchCheckFn(D, vs) ==
    CASE vs[1] \in D.baks -> {Checked(D, vs[1])}
      [] D.file[vs[1]] \in {"old", "new"} -> {Checked(D, vs[1])}
      [] D.file[vs[1]] = "none" /\ D.baks # {} ->
            {Checked(Does(D, [D EXCEPT !.baks = @ \cup {vs[1]}]), vs[1])}
      [] OTHER -> {Gives(D, "")}

UIPrintFn(D, vs) ==
    {Gives(Emit(D, IF vs[1] = "" THEN <<"ui_print">>
                   ELSE <<"ui_print", "ui_print">>), vs[1])}

WipeCacheFn(D, vs) == {Gives(Emit(D, <<"wipe_cache">>), "t")}

CollectBackupDataFn(D, vs) ==
    {Gives(Does(D, [D EXCEPT !.baks = @ \cup Backed]), "t")}

\* The child inherits the command pipe; what it leaves running keeps it open.
RunProgramFn(D, vs) ==
    {Gives(Does(D, [D EXCEPT !.bg = D.bg \/ b]), r) :
        b \in BOOLEAN, r \in {"0", "256"}}

Sha1CheckFn(D, vs) ==
    IF vs[1] = "noblob" THEN {Gives(D, "")} ELSE {Gives(D, ""), Gives(D, "x")}

ReadFileFn(D, vs) ==
    {Aborts(D)} \cup (IF D.file[vs[1]] = "none" THEN {} ELSE {Gives(D, "blob")})
-----------------------------------------------------------------------------
\* StringArgs: Evaluate wants a string; the other readers take any value.
TakesValues == {"write_raw_image", "sha1_check"}

Read(fn, r) ==
    IF fn \notin TakesValues /\ r.v \in Blobs THEN Aborts(r.D) ELSE r

ConcatFn(D, vs) ==
    {Gives(D, IF \E i \in DOMAIN vs : vs[i] # "" THEN "x" ELSE "")}

Truth(b) == IF b THEN "t" ELSE ""

\* The other functions of expr.c that read all their arguments.
Builtin(fn, D, vs) ==
    CASE fn = "stdout"    -> {Gives(D, "")}
      [] fn = "sleep"     -> {Gives(D, vs[1])}
      [] fn = "not"       -> {Gives(D, Truth(~BooleanString(vs[1])))}
      [] fn = "equal"     -> {Gives(D, Truth(vs[1] = vs[2]))}
      [] fn = "not_equal" -> {Gives(D, Truth(vs[1] # vs[2]))}
      [] fn \in {"is_substring", "less_than_int", "greater_than_int"} ->
            {Gives(D, Truth(b)) : b \in BOOLEAN}

CallFn(fn, D, vs) ==
    CASE fn = "mount"               -> MountFn(D, vs)
      [] fn = "is_mounted"          -> IsMountedFn(D, vs)
      [] fn = "unmount"             -> UnmountFn(D, vs)
      [] fn = "format"              -> FormatFn(D, vs)
      [] fn = "rename"              -> RenameFn(D, vs)
      [] fn \in {"delete", "delete_recursive"} -> DeleteFn(D, vs)
      [] fn = "show_progress"       -> ShowProgressFn(D, vs)
      [] fn = "set_progress"        -> SetProgressFn(D, vs)
      [] fn = "package_extract_dir" -> ExtractDir(D, vs)
      [] fn = "package_extract_to"  -> ExtractTo(D, vs)
      [] fn = "package_extract_file" -> ExtractBlob(D, vs)
      [] fn = "symlink"             -> SymlinkFn(D, vs)
      [] fn \in {"set_perm", "set_perm_recursive"} -> SetPermFn(fn, D, vs)
      [] fn = "set_metadata"        -> SetMetadataFn(D, vs)
      [] fn = "getprop"             -> GetPropFn(D, vs)
      [] fn = "file_getprop"        -> FileGetPropFn(D, vs)
      [] fn = "write_raw_image"     -> WriteRawImageFn(D, vs)
      [] fn = "apply_patch_space"   -> ApplyPatchSpaceFn(D, vs)
      [] fn = "ui_print"            -> UIPrintFn(D, vs)
      [] fn = "wipe_cache"          -> WipeCacheFn(D, vs)
      [] fn = "collect_backup_data" -> CollectBackupDataFn(D, vs)
      [] fn = "run_program"         -> RunProgramFn(D, vs)
      [] fn = "sha1_check"          -> Sha1CheckFn(D, vs)
      [] fn = "read_file"           -> ReadFileFn(D, vs)
      [] fn = "concat"              -> ConcatFn(D, vs)
      [] OTHER                      -> Builtin(fn, D, vs)

RECURSIVE Eval(_, _), EvalArgs(_, _, _)

\* ReadArgs and its sisters: left to right, up to the first NULL.
EvalArgs(D, fn, args) ==
    IF args = <<>> THEN {[D |-> D, vs |-> <<>>, v |-> ""]}
    ELSE UNION {IF Stopped(r.v) THEN {[D |-> r.D, vs |-> <<>>, v |-> r.v]}
                ELSE {[t EXCEPT !.vs = <<r.v>> \o @] :
                         t \in EvalArgs(r.D, fn, Tail(args))} :
                  r \in {Read(fn, a) : a \in Eval(D, Head(args))}}

BranchOrNull(D, fn, args, r) ==     \* mutant: || takes NULL for false
    CASE Stopped(r.v) -> IF fn = "or" THEN Eval(r.D, args[2]) ELSE {r}
      [] fn = "sequence" -> Eval(r.D, args[2])
      [] OTHER -> IF BooleanString(r.v) = (fn # "or")
                  THEN IF fn = "assert" THEN {Gives(r.D, "")}
                       ELSE Eval(r.D, args[2])
                  ELSE IF fn = "assert" THEN {Aborts(r.D)} ELSE {r}

\* The forms that evaluate an argument only after looking at another one.
Branch(D, fn, args, r) ==
    CASE Stopped(r.v) -> {r}
      [] fn = "sequence" -> Eval(r.D, args[2])
      [] r.v \in Blobs -> {Aborts(r.D)}
      [] fn = "and" -> IF BooleanString(r.v) THEN Eval(r.D, args[2]) ELSE {r}
      [] fn = "or"  -> IF BooleanString(r.v) THEN {r} ELSE Eval(r.D, args[2])
      [] fn = "ifelse" ->
            IF BooleanString(r.v) THEN Eval(r.D, args[2])
            ELSE IF Len(args) = 3 THEN Eval(r.D, args[3]) ELSE {r}
      [] fn = "assert" ->
            IF ~BooleanString(r.v) THEN {Aborts(r.D)}
            ELSE IF Len(args) = 1 THEN {Gives(r.D, "")}
            ELSE Eval(r.D, [fn |-> "assert", args |-> Tail(args)])

\* Evaluate and EvaluateValue: every form reads all its arguments first but
\* apply_patch and apply_patch_check, which read the patches and the checksums
\* of a file that is not in the backup table; neither looks at a NULL then.
Eval(D, e) ==
    CASE e.fn = "literal" -> {Gives(D, e.val)}
      [] e.fn = "abort" -> {IF a.v = CRASH THEN Crashes(a.D) ELSE Aborts(a.D) :
                              a \in EvalArgs(D, e.fn, e.args)}
      [] e.fn \in {"sequence", "and", "or", "ifelse", "assert"} ->
            UNION {Branch(D, e.fn, e.args, r) : r \in Eval(D, e.args[1])}
      [] e.fn = "apply_patch" ->
            UNION {CASE Stopped(a.v) -> {Gives(a.D, a.v)}
                     [] a.vs[1] \in a.D.baks -> SkipPatch(a.D)
                     [] a.vs[2] = "" -> {Aborts(a.D)}
                     [] OTHER -> UNION {ApplyPatchFn(p.D, a.vs, p.v) :
                                          p \in Eval(a.D, e.args[3])} :
                     a \in EvalArgs(D, e.fn, SubSeq(e.args, 1, 2))}
      [] e.fn = "apply_patch_check" ->
            UNION {CASE Stopped(a.v) -> {Gives(a.D, a.v)}
                     [] a.vs[1] \in a.D.baks -> ApplyPatchCheckFn(a.D, a.vs)
                     [] OTHER -> UNION {IF Stopped(s.v) THEN {Crashes(s.D)}
                                        ELSE ApplyPatchCheckFn(s.D, a.vs) :
                                          s \in EvalArgs(a.D, e.fn,
                                                         Tail(e.args))} :
                     a \in EvalArgs(D, e.fn, <<e.args[1]>>)}
      [] OTHER -> UNION {IF Stopped(a.v)
                         THEN {IF e.fn \in {"delete", "delete_recursive"}
                               THEN DeleteStops(a) ELSE Gives(a.D, a.v)}
                         ELSE CallFn(e.fn, a.D, a.vs) :
                           a \in EvalArgs(D, e.fn, e.args)}
=============================================================================
