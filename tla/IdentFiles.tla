------------------------------ MODULE IdentFiles ------------------------------
(***************************************************************************)
(* Exclusive identity files: RejectAliased of internal/identfile, and the  *)
(* opening of the files that follows it when a process starts.  The code   *)
(* resolves a path by its own rules; what opens it is the operating        *)
(* system's walk, which stands here as the reference.                      *)
(*                                                                         *)
(* A place is the sequence of names from the root; a path may also hold    *)
(* "..", and a link has a path from the root or from its directory.  The   *)
(* code's limit of 256 links is beyond these file systems.                 *)
(***************************************************************************)
EXTENDS Naturals, Sequences, SequencesExt

CONSTANTS FileSystems,  \* functions from places to entries
          Arguments     \* sequences of the paths a process is given

Absent == [kind |-> "absent"]
Dir == [kind |-> "dir"]
File(ino) == [kind |-> "file", ino |-> ino]
Link(rooted, path) == [kind |-> "link", rooted |-> rooted, path |-> path]

VARIABLES fs,     \* the file system
          files,  \* the paths that are to be exclusive
          pc,
          opened  \* the inodes of the files opened so far

vars == <<fs, files, pc, opened>>

Entry(place) == CASE place = <<>> -> Dir 
                  [] place \in DOMAIN fs -> fs[place] 
                  [] OTHER -> Absent

Failed == <<"/">>

\* Links that one walk may follow; more than these file systems have a use for
MaxLinks == 12

-----------------------------------------------------------------------------
(* The operating system *)

RECURSIVE Walk(_, _, _)

\* Where a path leads from a directory, and the links followed on the way; 
\* nowhere after too many (ELOOP).
Walk(at, path, met) ==
    IF path = <<>> THEN [place |-> at, met |-> met]
    ELSE LET place == Append(at, path[1])
             entry == Entry(place)
         IN  CASE path[1] = ".." -> 
                     Walk(IF at = <<>> THEN at ELSE Front(at), Tail(path), met)
               [] path[1] # ".." /\ entry.kind = "dir" -> 
                     Walk(place, Tail(path), met)
               [] path[1] # ".." /\ entry.kind = "link" /\ Len(met) < MaxLinks ->
                     Walk(IF entry.rooted THEN <<>> ELSE at, 
                          entry.path \o Tail(path), Append(met, place))
               [] path[1] # ".." /\ entry.kind \in {"file", "absent"} 
                  /\ Len(path) = 1 -> [place |-> place, met |-> met]
               [] OTHER -> [place |-> Failed, met |-> met]

\* open(2) with O_CREAT: a place for a file, or Failed.
Target(path) ==
    LET place == Walk(<<>>, path, <<>>).place
    IN  IF place # Failed /\ Entry(place).kind = "dir" THEN Failed ELSE place

\* os.Stat finds a file, and os.SameFile
Stat(path) == Entry(Target(path)).kind = "file"
SameFile(a, b) == Entry(Target(a)) = Entry(Target(b))

\* One inode, or the place where one will be made.
OneFile(a, b) == Target(a) = Target(b) \/ (Stat(a) /\ Stat(b) /\ SameFile(a, b))

-----------------------------------------------------------------------------
(* internal/identfile *)

\* filepath.Clean: ".." takes the name before it away.
Clean(path) ==
    FoldLeft(LAMBDA out, c : IF c # ".." THEN Append(out, c)
                             ELSE IF out = <<>> THEN out ELSE Front(out),
             <<>>, path)

RECURSIVE ResolvePath(_, _)

\* resolvePath: the place, and the links met so far, which calls share.
ResolvePath(abs, seen) ==
    LET parent == IF abs = <<>> THEN [place |-> <<>>, seen |-> seen]
                  ELSE ResolvePath(Front(abs), seen)
        place == IF abs = <<>> THEN <<>> ELSE Append(parent.place, Last(abs))
        entry == Entry(place)
    IN  IF parent.place = Failed THEN parent
        ELSE IF place \in parent.seen THEN [place |-> Failed, seen |-> seen]
        ELSE IF entry.kind # "link" THEN [place |-> place, seen |-> parent.seen]
        ELSE ResolvePath(
                Clean(IF entry.rooted THEN entry.path ELSE Front(place) \o entry.path),
                parent.seen \cup {place})

CanonicalPath(path) == ResolvePath(Clean(path), {}).place

\* With a seeded bug: only places are compared.
FilesAliasByPlace(a, b) == CanonicalPath(a) = CanonicalPath(b)

\* filesAlias
FilesAlias(a, b) ==
    \/ CanonicalPath(a) = CanonicalPath(b)
    \/ Stat(a) /\ Stat(b) /\ SameFile(a, b)

\* RejectAliased: two of them alias, or one does not resolve.
RejectAliased(paths) ==
    \E i, j \in DOMAIN paths : i < j /\
        \/ Failed \in {CanonicalPath(paths[i]), CanonicalPath(paths[j])}
        \/ FilesAlias(paths[i], paths[j])

-----------------------------------------------------------------------------

Init ==
    /\ fs \in FileSystems
    /\ files \in Arguments
    /\ pc = "check"
    /\ opened = <<>>

\* Before any of the files is opened,
Check ==
    /\ pc = "check"
    /\ pc' = IF RejectAliased(files) THEN "refused" ELSE "open"
    /\ UNCHANGED <<fs, files, opened>>

\* and then one after the other; what is not there is made.
Open ==
    /\ pc = "open"
    /\ LET n == Len(opened) + 1
           place == Target(files[n])
           ino == IF Entry(place).kind = "file" THEN Entry(place).ino ELSE 10 + n
       IN  IF place = Failed
           THEN pc' = "failed" /\ UNCHANGED <<fs, opened>>
           ELSE /\ opened' = Append(opened, ino)
                /\ pc' = IF n = Len(files) THEN "serving" ELSE "open"
                /\ fs' = [p \in DOMAIN fs \cup {place} |-> 
                             IF p = place THEN File(ino) ELSE fs[p]]
    /\ UNCHANGED files

Next == Check \/ Open

Spec == Init /\ [][Next]_vars

-----------------------------------------------------------------------------
(* Properties *)

\* What a link says, as a path from the root
Says(place) ==
    IF fs[place].rooted THEN fs[place].path ELSE Front(place) \o fs[place].path

\* A ".." of the path takes the name of a link away.
LeavesLink(path) ==
    \E i \in DOMAIN path :
        LET before == Clean(SubSeq(path, 1, i - 1))
        IN  /\ path[i] = ".." /\ before # <<>>
            /\ Entry(Append(Walk(<<>>, Front(before), <<>>).place, 
                            Last(before))).kind = "link"

\* No path that the process is given or a link has leaves a link by "..".
DotsLeaveDirs ==
    /\ \A i \in DOMAIN files : ~LeavesLink(files[i])
    /\ \A p \in DOMAIN fs : fs[p].kind = "link" => ~LeavesLink(Says(p))

\* No file is reached through one link twice.
LinksMetOnce == \A i \in DOMAIN files : IsInjective(Walk(<<>>, files[i], <<>>).met)

\* As long as no path leaves a link by ".." (canonicalPath cleans link/../f as 
\* text, before it follows the link), a process that starts never has two of its
\* identity files in one: not by a link, not by a hard link, not by two links to
\* what the first open creates.  And as long as none is reached through one link
\* twice either (resolvePath takes that for a loop), what is several for the 
\* operating system is accepted, though it is reached by links or does not exist
\* yet.  Without these two restrictions RejectAliased promises neither.
OnlyAliasesRefused == 
    DotsLeaveDirs =>
        /\ IsInjective(opened)
        /\ pc = "refused" /\ LinksMetOnce =>
              \E i, j \in DOMAIN files :
                 \/ Target(files[i]) = Failed
                 \/ i # j /\ OneFile(files[i], files[j])
=============================================================================
