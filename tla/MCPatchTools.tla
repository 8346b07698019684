---------------------------- MODULE MCPatchTools ----------------------------
(***************************************************************************)
(* Instances for TLC of all that takes part in an update script: the parts *)
(* of MCScript, ApplyPatch with the scripts of MCApplyPatch, the string    *)
(* differences (BsDiff) and the image differences (ImgDiff).  They share   *)
(* no state here: which says the one that runs.                            *)
(***************************************************************************)
EXTENDS MCApplyPatch, BsDiff, ImgDiff, MCScript

Tok(k, d, l) == [k |-> k, d |-> d, l |-> l]
B(x) == Tok("b", <<>>, x)
Z(x, l) == Tok("z", <<B(x)>>, l)
Member(x, l, size) == <<Tok("hdr", <<>>, 0), Z(x, l), Tok("ftr", <<>>, size)>>

\* Other data, and members that the default levels do and do not give again.
Segments == {<<B(0)>>, Member(0, 6, 1), Member(1, 9, 1), Member(1, 1, 1)}
Images(max) ==
    {FlattenSeq(s) : s \in UNION {[1 .. n -> Segments] : n \in 0 .. max}}

\* Damaged ones: a stream that does not inflate, a footer that is wrong, the
\* start of a header at the end.
Flawed == {<<Tok("hdr", <<>>, 0), Tok("bad", <<>>, 0), Tok("ftr", <<>>, 1)>>,
           Member(0, 6, 2), <<B(0), Tok("cut", <<>>, 0)>>,
           Member(0, 6, 2) \o <<Tok("cut", <<>>, 0)>>}

\* Zip files with a stored or deflated entry of one or two names, or with two
\* entries of one name.
ZipOf(n) == {<<Tok("lh", <<>>, n), x>> :
               x \in {B(0), Z(0, 6), Z(1, 9), Z(1, 1)}}
Zips == ZipOf(1) \cup ZipOf(2)
        \cup {x \o y \o <<B(1)>> : x \in ZipOf(1), y \in ZipOf(2)}
        \cup {y \o x \o <<B(1)>> : x \in ZipOf(1), y \in ZipOf(2)}
Twice == {x \o y : x \in ZipOf(1), y \in ZipOf(1)}
BadZips == {<<Tok("lh", <<>>, 1), Tok(k, <<>>, 0)>> : k \in {"bad", "odd"}}

MCImgPairs == [zip : {FALSE}, src : Images(2), tgt : Images(3)]
              \cup [zip : {FALSE}, src : Flawed, tgt : Flawed \cup {Member(0, 6, 1)}]
              \cup [zip : {FALSE}, src : {Member(0, 6, 1)}, tgt : Flawed]
              \cup [zip : {TRUE}, src : Zips, tgt : Zips]
              \cup [zip : {TRUE}, src : ZipOf(1), tgt : Twice]
              \cup [zip : {TRUE}, src : Twice, tgt : ZipOf(1)]
              \cup [zip : {TRUE}, src : ZipOf(1) \cup BadZips, tgt : BadZips]
MCBonuses == {<<>>, <<B(0)>>}
-----------------------------------------------------------------------------
\* The parts that do not run hold still.
ScriptIdle == copy = Missing /\ Init
DiffIdle == bold = <<>> /\ bnew = <<>> /\ DiffInit
ImgIdle  == /\ job = [zip |-> FALSE, src |-> <<>>, tgt |-> <<>>]
            /\ bonus = <<>>
            /\ ImgInit

OthersIdle == RunIdle /\ ZipIdle /\ TabIdle

ToolsInit ==
    \/ ScriptIdle /\ DiffIdle /\ ImgIdle /\ ScriptInit
    \/ which = "script" /\ OthersIdle /\ DiffIdle /\ ImgIdle /\ Init
    \/ which = "bsdiff" /\ OthersIdle /\ ScriptIdle /\ ImgIdle /\ DiffInit
    \/ which = "imgdiff" /\ OthersIdle /\ ScriptIdle /\ DiffIdle /\ ImgInit

othersVars == <<runVars, zipVars, tabVars>>

ToolsNext ==
    \/ ScriptNext /\ UNCHANGED <<vars, diffVars, imgVars>>
    \/ /\ which' = which /\ UNCHANGED othersVars
       /\ \/ which = "script" /\ Next /\ UNCHANGED <<diffVars, imgVars>>
          \/ which = "bsdiff" /\ DiffNext /\ UNCHANGED <<vars, imgVars>>
          \/ which = "imgdiff" /\ ImgNext /\ UNCHANGED <<vars, diffVars>>

ToolsSpec ==
    /\ ToolsInit
    /\ [][ToolsNext]_<<which, vars, diffVars, imgVars, othersVars>>
    /\ RunFairness
    /\ WF_vars(which = "script" /\ Step) /\ <>[][Step]_vars

\* Completes, for the part that runs.
ScriptCompletes == which = "script" => Completes
=============================================================================
