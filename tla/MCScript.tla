------------------------------ MODULE MCScript ------------------------------
(***************************************************************************)
(* Instances for TLC of the parts an update script uses: the installer and *)
(* the interpreter (UpdaterRun), the package (ZipArchive) and the hash     *)
(* table under it (HashTable).  They share no state here: which says the   *)
(* one that runs.                                                          *)
(***************************************************************************)
EXTENDS UpdaterRun, ZipArchive

VARIABLE which

L(x) == [fn |-> "literal", val |-> x]
C(f, x) == [fn |-> f, args |-> <<L(x)>>]
C2(f, a, b) == [fn |-> f, args |-> <<a, b>>]
Patch(size, p) == [fn |-> "apply_patch", args |-> <<L("f"), L(size), p>>]

MCStmts ==
    {C("mount", "mp"), C("unmount", "mp"), C("format", "ext4"),
     C("format", "vfat"), C("delete", "f"), C("package_extract_dir", "f"),
     C("package_extract_to", "f"), C("symlink", "f"),
     C2("set_metadata", L("f"), L("x")), C2("set_metadata", L("f"), L("")),
     C("file_getprop", "f"), C("apply_patch_space", "x"), C("ui_print", "x"),
     C("ui_print", ""), C("wipe_cache", ""),
     C2("sequence", C("collect_backup_data", "x"), C("delete", "f")),
     C("run_program", "x"), C("show_progress", "x"), C("set_progress", "x"),
     C2("rename", L("f"), L("g")),
     C2("write_raw_image", C("package_extract_file", "f"), L("raw")),
     C2("write_raw_image", L("f"), L("raw")),
     C2("or", C("mount", "mp"), [fn |-> "abort", args |-> <<>>]),
     [fn |-> "assert", args |-> <<C("apply_patch_check", "f"),
                                  C("apply_patch_check", "g")>>],
     Patch("x", C("package_extract_file", "f")), Patch("x", C("read_file", "g")),
     Patch("x", L("x")), Patch("", L("x")),
     C2("apply_patch_check", L("f"), C("file_getprop", "g")),
     C2("delete", L("f"), C("file_getprop", "g")),
     C2("sequence", C("mount", ""), C("unmount", "")),
     C2("rename", L(""), L("g")),
     C2("or", C("file_getprop", "f"), C("delete", "f")),
     [fn |-> "ifelse", args |-> <<C("is_mounted", "mp"), C("unmount", "mp"),
                                  C("format", "ext4")>>],
     [fn |-> "assert", args |-> <<C2("equal", C("getprop", "x"),
                                     C2("concat", L("x"), C("sleep", "x"))),
                                  [fn |-> "not", args |-> <<
                                     C2("is_substring", L("x"), L("x"))>>]>>],
     C2("and", C("sha1_check", "x"), C("package_extract_dir", "f")),
     C2("sequence", C2("set_perm", L("x"), L("f")),
                    C2("set_perm_recursive", L(""), L("f")))}

\* Hash values that collide in tables of every size, and wrap round.
MCHashOf == [a |-> 7, b |-> 7, c |-> 8, d |-> 15, e |-> 3]

\* "a", "a-", "a/", "a/b", "a/b/c", "b" and "b/a".
Entry(name, parts, kind, good) ==
    [name |-> name, parts |-> parts, kind |-> kind, good |-> good]
MCZipEntries ==
    {Entry(<<97>>, 1, "file", TRUE), Entry(<<97, 45>>, 1, "file", TRUE),
     Entry(<<97, 47>>, 0, "file", TRUE), Entry(<<97, 47, 98>>, 2, "file", TRUE),
     Entry(<<97, 47, 98, 47, 99>>, 1, "link", TRUE),
     Entry(<<98>>, 0, "link", TRUE), Entry(<<98>>, 0, "file", FALSE),
     Entry(<<98, 47, 97>>, 1, "damaged", TRUE)}
MCZipDirs == {<<>>, <<97>>, <<97, 47>>, <<97, 47, 98>>, <<47>>}
-----------------------------------------------------------------------------
\* The parts that do not run hold still.
RunIdle == /\ child = "none" /\ status = "none" /\ dev = OldSystem
           /\ wq = <<>> /\ pipe = <<>> /\ nstmts = 0
           /\ parent = "error" /\ props = "here"
           /\ asked = 0
           /\ bar = [start |-> 0, size |-> 0, prog |-> 0, timed |-> FALSE]
ZipIdle == /\ zcd = <<>> /\ zents = <<>> /\ ztab = HashTableCreate(1)
           /\ zst = "bad" /\ zdir = <<>> /\ zflags = {} /\ zi = 0
           /\ zseen = FALSE /\ zret = FALSE /\ zfs = <<>> /\ zfaults = 0
           /\ zok = TRUE
TabIdle == tab = HashTableCreate(1) /\ held = {}

ScriptInit ==
    \/ which = "run" /\ RunInit /\ ZipIdle /\ TabIdle
    \/ which = "zip" /\ RunIdle /\ ZipInit /\ TabIdle
    \/ which = "tab" /\ RunIdle /\ ZipIdle /\ TabInit

ScriptNext ==
    /\ which' = which
    /\ \/ which = "run" /\ RunNext /\ UNCHANGED <<zipVars, tabVars>>
       \/ which = "zip" /\ ZipNext /\ UNCHANGED <<runVars, tabVars>>
       \/ which = "tab" /\ TabNext /\ UNCHANGED <<runVars, zipVars>>

ScriptSpec ==
    /\ ScriptInit
    /\ [][ScriptNext]_<<which, runVars, zipVars, tabVars>>
    /\ RunFairness

\* The package alone.
ZipSpec ==
    /\ which = "zip" /\ RunIdle /\ ZipInit /\ TabIdle
    /\ [][ScriptNext]_<<which, runVars, zipVars, tabVars>>
=============================================================================
