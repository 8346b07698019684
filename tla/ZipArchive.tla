----------------------------- MODULE ZipArchive -----------------------------
(***************************************************************************)
(* minzip/Zip.c: reading the central directory of a package into a sorted  *)
(* array and a hash table, finding an entry by name, and extracting the    *)
(* entries below a directory (mzExtractRecursive), with the directories    *)
(* DirUtil.c makes on the way.                                             *)
(*                                                                         *)
(* A name is a sequence of character codes.  The contents of an entry are  *)
(* the number of buffers they take: what is written is a prefix of them.   *)
(***************************************************************************)
EXTENDS HashTable, SequencesExt

CONSTANTS ZipEntries,   \* possible entries: [name, parts, kind, good]
          ZipDirs,      \* directories asked for
          MaxEntries,   \* bound on the entries of a package
          MaxZipFaults  \* bound on failing system calls

VARIABLES zcd,          \* the central directory
          zents,        \* pArchive->pEntries
          ztab,         \* pArchive->pHash: indexes of zents
          zst,          \* "parse", "open", "walk", "done" or "bad"
          zdir, zflags, \* the arguments of mzExtractRecursive
          zi, zseen,    \* its i and seenMatch
          zret,         \* what it returns
          zfs,          \* what is under the target directory
          zfaults, zok  \* failed system calls; ghost: nothing went wrong

zipVars == <<zcd, zents, ztab, zst, zdir, zflags, zi, zseen, zret, zfs,
             zfaults, zok>>

Slash == 47

\* computeHash; the names are too short for it to exceed 32 bits.
ComputeHash(name) == FoldLeft(LAMBDA h, c : h * 31 + c, 2, name)

\* strncmp over the shorter length, the lengths deciding a tie.
NameBefore(a, b) ==
    LET d == {k \in 1 .. Len(a) : k <= Len(b) /\ a[k] # b[k]}
    IN  IF d = {} THEN Len(a) < Len(b) ELSE a[Min(d)] < b[Min(d)]

NoTieBreak(ents, name) ==   \* mutant: a name and its prefix compare equal
    LET Lesser(a, b) == LET d == {k \in 1 .. Len(a) : k <= Len(b) /\ a[k] # b[k]}
                        IN  d # {} /\ a[Min(d)] < b[Min(d)]
        search[low \in 1 .. Len(ents) + 1, high \in 0 .. Len(ents)] ==
            IF low > high THEN high + 1
            ELSE LET mid == low + ((high - low) \div 2)
                 IN  IF Lesser(ents[mid].name, name) THEN search[mid + 1, high]
                     ELSE IF Lesser(name, ents[mid].name)
                          THEN search[low, mid - 1]
                          ELSE mid + 1
    IN  search[1, Len(ents)]

(***************************************************************************)
(* The binary search of parseZipArchive for the place of a new entry: an   *)
(* entry with the same name goes behind the one the search meets.          *)
(***************************************************************************)
Target(ents, name) ==
    LET search[low \in 1 .. Len(ents) + 1, high \in 0 .. Len(ents)] ==
            IF low > high THEN high + 1
            ELSE LET mid == low + ((high - low) \div 2)
                 IN  IF NameBefore(ents[mid].name, name)
                     THEN search[mid + 1, high]
                     ELSE IF NameBefore(name, ents[mid].name)
                          THEN search[low, mid - 1]
                          ELSE mid + 1
    IN  search[1, Len(ents)]

HashFills(ents) ==
    LET filled[i \in 0 .. Len(ents)] ==
            IF i = 0 THEN HashTableCreate(HashSize(Len(ents)))
            ELSE LET h == ComputeHash(ents[i].name)
                     same == {j \in 1 .. Len(ents) :
                                ents[j].name = ents[i].name}
                 IN  IF HashTableLookup(filled[i - 1], h, same) # Empty
                     THEN filled[i - 1]         \* a duplicate: a warning
                     ELSE HashTableAdd(filled[i - 1], h, i)
    IN  filled[Len(ents)]

HashEntries(ents) == HashFills(ents)

\* mzFindZipEntry: the index of the entry found, 0 for NULL.
FindZipEntry(name) ==
    LET s == HashTableLookup(ztab, ComputeHash(name),
                {j \in 1 .. Len(zents) : zents[j].name = name})
    IN  IF s = Empty THEN 0 ELSE s[2]
-----------------------------------------------------------------------------
ZipInit ==
    /\ zcd \in UNION {[1 .. n -> ZipEntries] : n \in 1 .. MaxEntries}
    /\ zents = <<>> /\ ztab = HashTableCreate(1)
    /\ zst = "parse"
    /\ zdir = <<>> /\ zflags = {} /\ zi = 0 /\ zseen = FALSE
    /\ zret = FALSE /\ zfs = <<>>
    /\ zfaults = 0 /\ zok = TRUE

\* One turn of the loop of parseZipArchive; a bad header ends it.
ParseEntry ==
    /\ zst = "parse" /\ Len(zents) < Len(zcd)
    /\ LET e == zcd[Len(zents) + 1]
       IN  IF e.good
           THEN zents' = InsertAt(zents, Target(zents, e.name), e)
                /\ zst' = zst
           ELSE zst' = "bad" /\ zents' = zents
    /\ UNCHANGED <<zcd, ztab, zdir, zflags, zi, zseen, zret, zfs, zfaults, zok>>

ParseEnds ==
    /\ zst = "parse" /\ Len(zents) = Len(zcd)
    /\ ztab' = HashEntries(zents)
    /\ zst' = "open"
    /\ UNCHANGED <<zcd, zents, zdir, zflags, zi, zseen, zret, zfs, zfaults, zok>>

\* mzExtractRecursive up to its loop.
Extract(dir, flags) ==
    /\ zst = "open"
    /\ zflags' = flags
    /\ IF dir # <<>> /\ dir[1] = Slash
       THEN zst' = "done" /\ zret' = FALSE /\ zok' = FALSE /\ zdir' = dir
       ELSE /\ zst' = "walk" /\ zret' = TRUE /\ zok' = TRUE
            /\ zdir' = IF dir = <<>> \/ Last(dir) = Slash THEN dir
                       ELSE Append(dir, Slash)
    /\ zi' = 1 /\ zseen' = FALSE
    /\ UNCHANGED <<zcd, zents, ztab, zfs, zfaults>>
-----------------------------------------------------------------------------
EntryPath(e) == SubSeq(e.name, Len(zdir) + 1, Len(e.name))  \* targetEntryPath
IsDir(e) == Last(e.name) = Slash
Dirs(path) == {SubSeq(path, 1, k - 1) :
                 k \in {j \in 2 .. Len(path) : path[j] = Slash}}

Node(t, n) == [t |-> t, n |-> n]
With(fs, ps, node) == [p \in ps |-> node] @@ fs
MayFail == zfaults < MaxZipFaults

(***************************************************************************)
(* dirCreateHierarchy for the directories ds of a path, as the set of the  *)
(* outcomes [ok, fs, f]: a file in the way is an error at once, else each  *)
(* missing level is made from the top; mkdir may fail, or utime after it.  *)
(***************************************************************************)
CreateHierarchy(ds) ==
    LET lacks == ds \ DOMAIN zfs
        made(n) == With(zfs, {d \in lacks : Len(d) < n}, Node("dir", 0))
    IN  IF \E d \in ds \cap DOMAIN zfs : zfs[d].t # "dir"
        THEN {[ok |-> FALSE, fs |-> zfs, f |-> 0]}
        ELSE {[ok |-> TRUE, fs |-> With(zfs, lacks, Node("dir", 0)), f |-> 0]}
             \cup {[ok |-> FALSE, fs |-> made(Len(d) + u), f |-> 1] :
                     d \in {x \in lacks : MayFail}, u \in {0, 1}}

(***************************************************************************)
(* mzProcessZipEntryContents with writeProcessFunction: the buffers go out *)
(* one by one.  A read or a write may fail after any of them, and an entry *)
(* with an unknown method or a wrong size fails whatever happens.          *)
(***************************************************************************)
EntryContents(e) ==
    {[ok |-> FALSE, n |-> k, f |-> 1] :
        k \in {j \in 0 .. e.parts - 1 : MayFail}}
    \cup {[ok |-> e.kind # "damaged", n |-> e.parts, f |-> 0]}

(***************************************************************************)
(* The rest of a turn of the loop, for an entry that matches, as the set   *)
(* of its outcomes.  "told" is what the turn leaves in the outer ok: the   *)
(* block of a regular file declares an ok of its own, so that a failed     *)
(* extraction or utime ends the loop and is not seen outside.              *)
(***************************************************************************)
Regular(e, path, m) ==
    LET file(n) == With(m.fs, {path}, Node("file", n))
        blocked == path \in DOMAIN m.fs /\ m.fs[path].t = "dir"
        no(fs, f, t) == [ok |-> FALSE, told |-> t, fs |-> fs, f |-> f]
    IN  IF blocked THEN {no(m.fs, 0, FALSE)}            \* creat fails
        ELSE {no(m.fs, 1, FALSE) : x \in {y \in {0} : MayFail}}
             \cup {[ok |-> c.ok, told |-> TRUE, fs |-> file(c.n), f |-> c.f] :
                     c \in EntryContents(e)}
             \cup {no(file(e.parts), 1, TRUE) :         \* utime fails
                     x \in {y \in {0} : MayFail /\ e.kind # "damaged"}}

SymbolicLink(e, path, m) ==
    IF e.parts = 0 \/ path \in DOMAIN m.fs
    THEN {[ok |-> FALSE, told |-> FALSE, fs |-> m.fs, f |-> 0]}
    ELSE {[ok |-> c.ok, told |-> c.ok, f |-> c.f,
           fs |-> IF c.ok THEN With(m.fs, {path}, Node("link", e.parts))
                  ELSE m.fs] : c \in EntryContents(e)}

ExtractEntry(e) ==
    LET path == EntryPath(e)
        gives(m) == [ok |-> m.ok, told |-> m.ok, fs |-> m.fs, f |-> m.f]
    IN  IF "dry" \in zflags \/ (IsDir(e) /\ "files_only" \in zflags)
        THEN {[ok |-> TRUE, told |-> TRUE, fs |-> zfs, f |-> 0]}
        ELSE UNION {IF ~m.ok \/ IsDir(e) THEN {gives(m)}
                    ELSE IF e.kind = "link" /\ "files_only" \notin zflags
                         THEN SymbolicLink(e, path, m)
                         ELSE Regular(e, path, m) :
                    m \in CreateHierarchy(Dirs(path))}


\* The entry begins with the directory asked for.
Matches(e) == IsPrefix(zdir, e.name)

(***************************************************************************)
(* One turn of the loop of mzExtractRecursive: the first mismatch after a  *)
(* match ends it.                                                          *)
(***************************************************************************)
ExtractNext ==
    /\ zst = "walk" /\ zi <= Len(zents)
    /\ IF ~Matches(zents[zi])
       THEN /\ zst' = IF zseen THEN "done" ELSE "walk"
            /\ UNCHANGED <<zret, zfs, zfaults, zok, zseen>>
       ELSE \E r \in ExtractEntry(zents[zi]) :
                /\ zseen' = TRUE
                /\ zfs' = r.fs /\ zfaults' = zfaults + r.f
                /\ zok' = r.ok /\ zret' = r.told
                /\ zst' = IF r.ok THEN "walk" ELSE "done"
    /\ zi' = zi + 1
    /\ UNCHANGED <<zcd, zents, ztab, zdir, zflags>>

ExtractEnds ==
    /\ zst = "walk" /\ zi > Len(zents)
    /\ zst' = "done"
    /\ UNCHANGED <<zcd, zents, ztab, zdir, zflags, zi, zseen, zret, zfs,
                   zfaults, zok>>

ZipNext ==
    \/ ParseEntry \/ ParseEnds
    \/ \E d \in ZipDirs, fl \in {{}, {"files_only"}, {"dry"}} : Extract(d, fl)
    \/ ExtractNext \/ ExtractEnds
-----------------------------------------------------------------------------
(***************************************************************************)
(* mzFindZipEntry finds an entry exactly when the central directory has    *)
(* one of that name, and the one it finds has that name: the indexes in    *)
(* the hash table are those after the sorting.                             *)
(***************************************************************************)
FindsEntries ==
    zst \in {"open", "walk", "done"} =>
        \A e \in ZipEntries :
            LET j == FindZipEntry(e.name)
            IN  IF \E i \in DOMAIN zcd : zcd[i].name = e.name
                THEN j \in DOMAIN zents /\ zents[j].name = e.name
                ELSE j = 0

(***************************************************************************)
(* The table made with mzHashSize(numEntries) takes all the entries        *)
(* "without needing to reallocate the table" (Hash.h).                     *)
(***************************************************************************)
NeverGrows ==
    zst = "open" => ztab.size = RoundUpPower2((Len(zcd) * 8) \div 5 + 1)

(***************************************************************************)
(* When nothing failed, what is under the target directory is exactly the  *)
(* entries below the directory asked for, each whole, and the directories  *)
(* on the way: stopping at the first mismatch after a match misses none.   *)
(***************************************************************************)
ExtractsBelow ==
    (zst = "done" /\ zok /\ "dry" \notin zflags) =>
        LET below == {zcd[i] : i \in {j \in DOMAIN zcd : Matches(zcd[j])}}
            leaves == {e \in below : ~IsDir(e)}
            Is(t) == {p \in DOMAIN zfs : zfs[p].t = t}
            links == {e \in leaves : e.kind = "link"
                                     /\ "files_only" \notin zflags}
            dirs == {e \in below : "files_only" \notin zflags \/ ~IsDir(e)}
        IN  /\ Is("link") = {EntryPath(e) : e \in links}
            /\ Is("file") = {EntryPath(e) : e \in leaves \ links}
            /\ Is("dir") = UNION {Dirs(EntryPath(e)) : e \in dirs}
            /\ \A p \in Is("file") : \E e \in leaves :
                 EntryPath(e) = p /\ zfs[p].n = e.parts /\ e.kind # "damaged"

(***************************************************************************)
(* mzExtractRecursive "Returns true on success, false on failure."         *)
(* (Zip.c): when it returns true, nothing it tried has failed.             *)
(***************************************************************************)
ExtractTold == (zst = "done" /\ zret) => zok

(***************************************************************************)
(* What opening and extracting an archive guarantee: lookups see every     *)
(* name, the table is large enough from the start, and mzExtractRecursive  *)
(* that met no failure wrote exactly the entries asked for.                *)
(***************************************************************************)
ZipInv == FindsEntries /\ NeverGrows /\ ExtractsBelow
=============================================================================
