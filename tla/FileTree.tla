------------------------------ MODULE FileTree -------------------------------
(***************************************************************************)
(* The directory of a peer, and what the calls of packages os and syscall  *)
(* that mirror and rfs use do to it (external code). A tree gives every    *)
(* path its node; a path is the sequence of its names. A call returns the  *)
(* new tree and whether it succeeded.                                      *)
(*                                                                         *)
(* Files and directories have a mode: "rw" is writable, "ro" is not, and   *)
(* "special" is writable with a setuid, setgid or sticky bit. The data of  *)
(* a file is a sequence of blocks, 0 for a hole. Only the paths of length  *)
(* one hold directories.                                                   *)
(***************************************************************************)
EXTENDS Integers, Sequences, FiniteSets

\* The directory and the name of a path, and what is in a directory: as in
\* SequencesExt, which would bring hundreds of definitions into every proof.
Front(p) == SubSeq(p, 1, Len(p) - 1)
Last(p) == p[Len(p)]
IsPrefix(p, q) == Len(p) <= Len(q) /\ SubSeq(p, 1, Len(p)) = SubSeq(q, 1, Len(p))
IsStrictPrefix(p, q) == IsPrefix(p, q) /\ p # q

Absent == [kind |-> "absent"]
DirNode(mode) == [kind |-> "dir", mode |-> mode]
FileNode(mode, data) == [kind |-> "file", mode |-> mode, data |-> data]
\* The text of a link is relative to its directory, or to the root.
LinkNode(text) == [kind |-> "link", text |-> text, abs |-> FALSE]
AbsLinkNode(text) == [kind |-> "link", text |-> text, abs |-> TRUE]

IsDir(n) == n = [kind |-> "dir", mode |-> n.mode]
IsFile(n) == n = [kind |-> "file", mode |-> n.mode, data |-> n.data]
IsLink(n) == n = [kind |-> "link", text |-> n.text, abs |-> n.abs]
IsNode(n) == n = Absent \/ IsDir(n) \/ IsFile(n) \/ IsLink(n)

Done(t) == [ok |-> TRUE, tree |-> t]
Failed(t) == [ok |-> FALSE, tree |-> t]

At(t, p) == IF p \in DOMAIN t THEN t[p] ELSE Absent

\* A directory whose entries may be changed, and a path that is in one: the
\* root always may be.
Changeable(n) == n.kind = "dir" /\ n.mode # "ro"

InDirectory(t, p) == Len(p) = 1 \/ Changeable(At(t, Front(p)))

Empty(t, p) == \A q \in DOMAIN t : IsStrictPrefix(p, q) => t[q] = Absent

Hop(t, p) ==
  IF At(t, p).kind # "link" THEN p
  ELSE IF t[p].abs THEN t[p].text ELSE Front(p) \o t[p].text

Hops(t) == [p \in DOMAIN t |-> Hop(t, p)]

\* The path that is reached in as many hops as there are paths.
Walk(hop, p) ==
  LET at[n \in Nat] ==
        IF n = 0 THEN p ELSE IF at[n - 1] \in DOMAIN hop THEN hop[at[n - 1]] ELSE at[n - 1]
  IN  at[Cardinality(DOMAIN hop)]

\* Where a path leads; a circle of links leads to a link.
Follow(t, p) == IF At(t, p).kind # "link" THEN p ELSE Walk(Hops(t), p)

\* os.Stat: the kind of what the path leads to.
Stat(t, p) == At(t, Follow(t, p)).kind

\* open with O_CREATE.
OpenCreate(t, p, mode) ==
  LET q == Follow(t, p)
  IN  IF At(t, q).kind \in {"dir", "link"} \/ q \notin DOMAIN t \/ (t[q] = Absent /\ ~InDirectory(t, q))
        THEN Failed(t)
      ELSE Done([t EXCEPT ![q] = IF @ = Absent THEN FileNode(mode, <<>>) ELSE @])

\* os.Mkdir and os.Symlink.
Make(t, p, node) ==
  IF t[p] # Absent \/ ~InDirectory(t, p) THEN Failed(t) ELSE Done([t EXCEPT ![p] = node])

\* unlink and rmdir.
DropFile(t, p) ==
  IF At(t, p).kind \in {"absent", "dir"} \/ ~InDirectory(t, p) THEN Failed(t)
  ELSE Done([t EXCEPT ![p] = Absent])

DropDir(t, p) ==
  IF At(t, p).kind # "dir" \/ ~Empty(t, p) \/ ~InDirectory(t, p) THEN Failed(t)
  ELSE Done([t EXCEPT ![p] = Absent])

\* os.Remove tries both.
Drop(t, p) == IF At(t, p).kind = "dir" THEN DropDir(t, p) ELSE DropFile(t, p)

\* syscall.Rename: a directory takes along what is in it, and may only replace an
\* empty one; anything else may replace anything but a directory.
Move(t, p, q) ==
  LET Fits == IF At(t, p).kind = "dir" THEN At(t, q) = Absent \/ (At(t, q).kind = "dir" /\ Empty(t, q))
              ELSE At(t, q).kind # "dir"
      Source(r) == IF IsPrefix(q, r) THEN At(t, p \o SubSeq(r, Len(q) + 1, Len(r)))
                   ELSE IF IsPrefix(p, r) THEN Absent ELSE t[r]
  IN  IF At(t, p) = Absent \/ ~InDirectory(t, p) \/ ~InDirectory(t, q) \/ ~Fits THEN Failed(t)
      ELSE Done(IF p = q THEN t ELSE [r \in DOMAIN t |-> Source(r)])

\* os.Rename looks at the new name first, and fails for a directory, an empty one
\* included.
OsRename(t, p, q) == IF At(t, q).kind = "dir" THEN Failed(t) ELSE Move(t, p, q)

\* chmod of a file or a directory.
Chmod(t, p, mode) ==
  LET q == Follow(t, p)
  IN  IF At(t, q).kind \notin {"file", "dir"} THEN Failed(t) ELSE Done([t EXCEPT ![q].mode = mode])

\* Data with the block v at offset off, after a hole if it ends before.
WriteAt(data, off, v) ==
  [i \in 1 .. (IF off < Len(data) THEN Len(data) ELSE off + 1) |->
     IF i = off + 1 THEN v ELSE IF i <= Len(data) THEN data[i] ELSE 0]
==============================================================================
