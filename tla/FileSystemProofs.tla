-------------------------- MODULE FileSystemProofs ---------------------------
(***************************************************************************)
(* What Consult refuses, and what an operation does to the trees of peers  *)
(* that look alike, one at a time or several at once, for any number of    *)
(* peers and any paths.                                                    *)
(***************************************************************************)
EXTENDS FileSystem, TLAPS

\* The paths of a workload. Those of files never hold a directory.
All(w) == w.dirs \cup w.files
NodeAt(w, p, n) == IsNode(n) /\ (p \in w.files => n.kind # "dir")

\* t is a tree over the paths of the workload w.
IsTree(w, t) == t = [p \in All(w) |-> t[p]] /\ \A p \in All(w) : NodeAt(w, p, t[p])

\* Two nodes at p that a user cannot tell apart: the links lead to one place.
Lead(p, n) == IF n.abs THEN n.text ELSE Front(p) \o n.text

SameNode(p, m, n) ==
  /\ m.kind = n.kind
  /\ m.kind # "link" => m = n
  /\ m.kind = "link" => Lead(p, m) = Lead(p, n)

SameView(w, t, u) == \A p \in All(w) : SameNode(p, t[p], u[p])

\* The kind of a node tells which it is.
LEMMA Kinds ==
  /\ Absent.kind = "absent" /\ IsNode(Absent)
  /\ \A n : IsDir(n) => n.kind = "dir" /\ IsNode(n)
  /\ \A n : IsFile(n) => n.kind = "file" /\ IsNode(n)
  /\ \A n : IsLink(n) => n.kind = "link" /\ IsNode(n)
  /\ \A n : IsNode(n) => /\ n.kind \in {"absent", "dir", "file", "link"}
                         /\ n.kind = "absent" <=> n = Absent
                         /\ n.kind = "dir" => IsDir(n)
                         /\ n.kind = "file" => IsFile(n)
<1>1. Absent.kind = "absent"
  BY Zenon DEF Absent
<1>4. ASSUME NEW n, IsDir(n) PROVE n.kind = "dir"
  BY <1>4 DEF IsDir
<1>2. ASSUME NEW n, IsFile(n) PROVE n.kind = "file"
  BY <1>2 DEF IsFile
<1>3. ASSUME NEW n, IsLink(n) PROVE n.kind = "link"
  BY <1>3 DEF IsLink
<1> QED
  BY Zenon, <1>1, <1>2, <1>3, <1>4 DEF IsNode

\* New directories, files and links are nodes.
LEMMA MadeNodes ==
  /\ \A mode : IsDir(DirNode(mode))
  /\ \A mode, data : IsFile(FileNode(mode, data))
  /\ \A text : IsLink(LinkNode(text)) /\ IsLink(AbsLinkNode(text))
BY Zenon DEF DirNode, FileNode, LinkNode, AbsLinkNode, IsDir, IsFile, IsLink

\* Changing the mode or the data of a node gives a node of the same kind.
LEMMA ChangedNodes ==
  ASSUME NEW n, IsNode(n), NEW x
  PROVE  /\ IsNode([n EXCEPT !.mode = x]) /\ [n EXCEPT !.mode = x].kind = n.kind
         /\ IsNode([n EXCEPT !.data = x]) /\ [n EXCEPT !.data = x].kind = n.kind
<1>1. CASE n = Absent
  BY Zenon, <1>1 DEF Absent, IsNode
<1>2. CASE IsDir(n)
  <2>1. PICK m : n = [kind |-> "dir", mode |-> m]
    BY Zenon, <1>2 DEF IsDir
  <2>2. [n EXCEPT !.mode = x] = [kind |-> "dir", mode |-> x] /\ [n EXCEPT !.data = x] = n
    BY <2>1
  <2> QED
    BY Zenon, <2>1, <2>2 DEF IsNode, IsDir
<1>3. CASE IsFile(n)
  <2>1. PICK m, d : n = [kind |-> "file", mode |-> m, data |-> d]
    BY Zenon, <1>3 DEF IsFile
  <2>2. /\ [n EXCEPT !.mode = x] = [kind |-> "file", mode |-> x, data |-> d]
        /\ [n EXCEPT !.data = x] = [kind |-> "file", mode |-> m, data |-> x]
    BY <2>1
  <2> QED
    BY Zenon, <2>1, <2>2 DEF IsNode, IsFile
<1>4. CASE IsLink(n)
  <2>1. PICK m, d : n = [kind |-> "link", text |-> m, abs |-> d]
    BY Zenon, <1>4 DEF IsLink
  <2>2. [n EXCEPT !.mode = x] = n /\ [n EXCEPT !.data = x] = n
    BY Zenon, <2>1
  <2> QED
    BY Zenon, <2>2
<1> QED
  BY Zenon, <1>1, <1>2, <1>3, <1>4 DEF IsNode

\* The same, at a path.
LEMMA ChangedAt ==
  ASSUME NEW w, NEW p, NEW n, NodeAt(w, p, n), NEW x
  PROVE  NodeAt(w, p, [n EXCEPT !.mode = x]) /\ NodeAt(w, p, [n EXCEPT !.data = x])
BY Zenon, ChangedNodes DEF NodeAt

\* A node looks like itself.
LEMMA SameSelf == \A p, n : SameNode(p, n, n)
BY Zenon DEF SameNode

\* A node of a tree, and the nothing beside it.
LEMMA AtNode ==
  ASSUME NEW w, NEW t, IsTree(w, t)
  PROVE  DOMAIN t = All(w) /\ \A p : NodeAt(w, p, At(t, p))
<1>1. DOMAIN t = All(w)
  BY Zenon DEF IsTree
<1> QED
  BY Zenon, <1>1, Kinds DEF IsTree, At, NodeAt

\* A tree with a node changed.
Put(t, p, n) == [t EXCEPT ![p] = n]

\* With a node that fits, it stays a tree.
LEMMA PutNode ==
  ASSUME NEW w, NEW t, NEW p, NEW n, IsTree(w, t)
  PROVE  NodeAt(w, p, n) => IsTree(w, Put(t, p, n))
<1>1. /\ \A q \in All(w) : (q = p => Put(t, p, n)[q] = n) /\ (q # p => Put(t, p, n)[q] = t[q])
      /\ Put(t, p, n) = [q \in All(w) |-> Put(t, p, n)[q]]
  BY Zenon DEF IsTree, Put
<1> QED
  BY Zenon, <1>1 DEF IsTree

\* Two trees that look alike, with nodes changed that look alike.
LEMMA PutSame ==
  ASSUME NEW w, NEW t, NEW u, IsTree(w, t), IsTree(w, u), SameView(w, t, u),
         NEW p, NEW m, NEW n, SameNode(p, m, n)
  PROVE  SameView(w, Put(t, p, m), Put(u, p, n))
<1> SUFFICES ASSUME NEW q \in All(w) PROVE SameNode(q, Put(t, p, m)[q], Put(u, p, n)[q])
  BY Zenon DEF SameView
<1>1. (q = p => Put(t, p, m)[q] = m) /\ (q # p => Put(t, p, m)[q] = t[q])
  BY Zenon DEF IsTree, Put
<1>2. (q = p => Put(u, p, n)[q] = n) /\ (q # p => Put(u, p, n)[q] = u[q])
  BY Zenon DEF IsTree, Put
<1> QED
  BY Zenon, <1>1, <1>2 DEF SameView

Alike(w, t, u) == IsTree(w, t) /\ IsTree(w, u) /\ SameView(w, t, u)

\* Two trees agree on p: it leads to the same place, where there is the same.
AgreeOn(w, t, u, p) ==
  /\ NodeAt(w, p, At(t, p)) /\ NodeAt(w, p, At(u, p))
  /\ At(t, p).kind = At(u, p).kind
  /\ At(t, p).kind # "link" => At(t, p) = At(u, p)
  /\ At(t, p) = Absent <=> At(u, p) = Absent
  /\ Follow(t, p) = Follow(u, p)
  /\ InDirectory(t, p) <=> InDirectory(u, p)
  /\ Empty(t, p) <=> Empty(u, p)
  /\ DOMAIN t = All(w) /\ DOMAIN u = All(w)
  /\ p \in All(w) => At(t, p) = t[p] /\ At(u, p) = u[p]

\* Trees that look alike agree on every path.
LEMMA SameAt ==
  ASSUME NEW w, NEW t, NEW u, Alike(w, t, u), NEW p
  PROVE  AgreeOn(w, t, u, p)
<1>0. DOMAIN t = All(w) /\ DOMAIN u = All(w)
  BY Zenon, AtNode DEF Alike
<1>1. ASSUME NEW q
      PROVE  /\ At(t, q).kind = At(u, q).kind
             /\ At(t, q).kind # "link" => At(t, q) = At(u, q)
  BY Zenon, <1>0, <1>1 DEF Alike, SameView, SameNode, At
<1>2. ASSUME NEW q
      PROVE  At(t, q) = Absent <=> At(u, q) = Absent
  BY Zenon, <1>1, AtNode, Kinds DEF Alike, NodeAt
<1>3. \A q \in All(w) : t[q] = Absent <=> u[q] = Absent
  BY Zenon, <1>0, <1>2 DEF At
<1>4. Hops(t) = Hops(u)
  <2>1. ASSUME NEW q \in All(w) PROVE Hop(t, q) = Hop(u, q)
    <3>1. CASE At(t, q).kind # "link"
      BY Zenon, <1>1, <3>1 DEF Hop
    <3>2. CASE At(t, q).kind = "link"
      <4>1. At(u, q).kind = "link" /\ t[q].kind = "link"
        BY Zenon, <1>0, <1>1, <3>2 DEF At
      <4>2. Hop(t, q) = Lead(q, t[q]) /\ Hop(u, q) = Lead(q, u[q])
        BY Zenon, <3>2, <4>1 DEF Hop, Lead
      <4> QED
        BY Zenon, <4>1, <4>2 DEF Alike, SameView, SameNode
    <3> QED
      BY Zenon, <3>1, <3>2
  <2> QED
    BY Zenon, <1>0, <2>1 DEF Hops
<1>5. Follow(t, p) = Follow(u, p)
  BY Zenon, <1>1, <1>4 DEF Follow
<1>6. InDirectory(t, p) <=> InDirectory(u, p)
  <2>1. Changeable(At(t, Front(p))) <=> Changeable(At(u, Front(p)))
    BY Zenon, <1>1 DEF Changeable
  <2> QED
    BY Zenon, <2>1 DEF InDirectory
<1>7. Empty(t, p) <=> Empty(u, p)
  BY Zenon, <1>0, <1>3 DEF Empty
<1>8. NodeAt(w, p, At(t, p)) /\ NodeAt(w, p, At(u, p))
  BY Zenon, AtNode DEF Alike
<1>9. p \in All(w) => At(t, p) = t[p] /\ At(u, p) = u[p]
  BY Zenon, <1>0 DEF At
<1> QED
  BY Zenon, <1>0, <1>1, <1>2, <1>5, <1>6, <1>7, <1>8, <1>9 DEF AgreeOn

-----------------------------------------------------------------------------
(* The calls of package os on two trees that look alike.                    *)

SameDone(w, r, s) ==
  /\ IsTree(w, r.tree) /\ IsTree(w, s.tree) /\ SameView(w, r.tree, s.tree)
  /\ r.ok = s.ok

\* What the results of a call are.
LEMMA Ends ==
  \A t : /\ Done(t).tree = t /\ Done(t).ok = TRUE
         /\ Failed(t).tree = t /\ Failed(t).ok = FALSE
BY Zenon DEF Done, Failed

\* The same end of a call on trees that look alike.
LEMMA SameEnds ==
  ASSUME NEW w, NEW t, NEW u, Alike(w, t, u)
  PROVE  SameDone(w, Done(t), Done(u)) /\ SameDone(w, Failed(t), Failed(u))
BY Zenon, Ends DEF SameDone, Alike

\* A call that changes one node of each.
LEMMA SamePut ==
  ASSUME NEW w, NEW t, NEW u, Alike(w, t, u),
         NEW p, NEW m, NEW n, NodeAt(w, p, m), NodeAt(w, p, n), SameNode(p, m, n)
  PROVE  SameDone(w, Done(Put(t, p, m)), Done(Put(u, p, n)))
<1>1. IsTree(w, Put(t, p, m)) /\ IsTree(w, Put(u, p, n))
  BY Zenon, PutNode DEF Alike
<1>2. SameView(w, Put(t, p, m), Put(u, p, n))
  BY Zenon, PutSame DEF Alike
<1> QED
  BY Zenon, <1>1, <1>2, SameEnds DEF Alike

\* os.OpenFile with O_CREATE.
LEMMA SameOpenCreate ==
  ASSUME NEW w, NEW t, NEW u, Alike(w, t, u), NEW p, NEW mode
  PROVE  SameDone(w, OpenCreate(t, p, mode), OpenCreate(u, p, mode))
<1> PICK q : q = Follow(t, p)
  BY Zenon
<1> DEFINE Bad(v) == \/ At(v, q).kind \in {"dir", "link"} \/ q \notin DOMAIN v
                     \/ v[q] = Absent /\ ~InDirectory(v, q)
           node == IF t[q] = Absent THEN FileNode(mode, <<>>) ELSE t[q]
<1>a. AgreeOn(w, t, u, p) /\ AgreeOn(w, t, u, q)
  BY Zenon, SameAt
<1>0. Follow(u, p) = q /\ DOMAIN t = All(w) /\ (Bad(t) <=> Bad(u))
  BY Zenon, <1>a DEF AgreeOn
<1>1. CASE Bad(t)
  <2>1. OpenCreate(t, p, mode) = Failed(t) /\ OpenCreate(u, p, mode) = Failed(u)
    BY Zenon, <1>0, <1>1 DEF OpenCreate
  <2> QED
    BY Zenon, <2>1, SameEnds
<1>2. CASE ~Bad(t)
  <2>0. q \in All(w) /\ At(t, q).kind # "link"
    BY Zenon, <1>0, <1>2
  <2>1. t[q] = u[q] /\ NodeAt(w, q, t[q])
    BY Zenon, <1>a, <2>0 DEF AgreeOn
  <2>2. OpenCreate(t, p, mode) = Done(Put(t, q, node))
    BY Zenon, <1>2 DEF OpenCreate, Put
  <2>3. OpenCreate(u, p, mode) = Done(Put(u, q, node))
    BY Zenon, <1>0, <1>2, <2>1 DEF OpenCreate, Put
  <2>4. NodeAt(w, q, node) /\ SameNode(q, node, node)
    BY Zenon, <2>1, MadeNodes, Kinds DEF SameNode, NodeAt
  <2> QED
    BY Zenon, <2>2, <2>3, <2>4, SamePut
<1> QED
  BY Zenon, <1>1, <1>2

\* os.Mkdir and os.Symlink, with nodes that look alike.
LEMMA SameMake ==
  ASSUME NEW w, NEW t, NEW u, Alike(w, t, u), NEW p, t[p] = Absent <=> u[p] = Absent,
         NEW m, NEW n, NodeAt(w, p, m), NodeAt(w, p, n), SameNode(p, m, n)
  PROVE  SameDone(w, Make(t, p, m), Make(u, p, n))
<1>0. InDirectory(t, p) <=> InDirectory(u, p)
  BY Zenon, SameAt DEF AgreeOn
<1>1. CASE t[p] # Absent \/ ~InDirectory(t, p)
  <2>1. Make(t, p, m) = Failed(t) /\ Make(u, p, n) = Failed(u)
    BY Zenon, <1>0, <1>1 DEF Make
  <2> QED
    BY Zenon, <2>1, SameEnds
<1>2. CASE ~(t[p] # Absent \/ ~InDirectory(t, p))
  <2>1. Make(t, p, m) = Done(Put(t, p, m)) /\ Make(u, p, n) = Done(Put(u, p, n))
    BY Zenon, <1>0, <1>2 DEF Make, Put
  <2> QED
    BY Zenon, <2>1, SamePut
<1> QED
  BY Zenon, <1>1, <1>2

\* unlink, rmdir and os.Remove.
LEMMA SameDrops ==
  ASSUME NEW w, NEW t, NEW u, Alike(w, t, u), NEW p
  PROVE  /\ SameDone(w, DropFile(t, p), DropFile(u, p))
         /\ SameDone(w, DropDir(t, p), DropDir(u, p))
         /\ SameDone(w, Drop(t, p), Drop(u, p))
<1>a. AgreeOn(w, t, u, p)
  BY Zenon, SameAt
<1>0. /\ At(t, p).kind = At(u, p).kind /\ (InDirectory(t, p) <=> InDirectory(u, p))
      /\ Empty(t, p) <=> Empty(u, p)
  BY Zenon, <1>a DEF AgreeOn
<1>1. /\ SameDone(w, Failed(t), Failed(u))
      /\ SameDone(w, Done([t EXCEPT ![p] = Absent]), Done([u EXCEPT ![p] = Absent]))
  BY Zenon, SameEnds, SamePut, Kinds DEF Put, SameNode, NodeAt
<1>2. SameDone(w, DropFile(t, p), DropFile(u, p)) /\ SameDone(w, DropDir(t, p), DropDir(u, p))
  BY Zenon, <1>0, <1>1 DEF DropFile, DropDir
<1> QED
  BY Zenon, <1>0, <1>2 DEF Drop

\* os.Chmod.
LEMMA SameChmod ==
  ASSUME NEW w, NEW t, NEW u, Alike(w, t, u), NEW p, NEW mode
  PROVE  SameDone(w, Chmod(t, p, mode), Chmod(u, p, mode))
<1> PICK q : q = Follow(t, p)
  BY Zenon
<1>a. AgreeOn(w, t, u, p) /\ AgreeOn(w, t, u, q)
  BY Zenon, SameAt
<1>0. Follow(u, p) = q /\ At(t, q).kind = At(u, q).kind
  BY Zenon, <1>a DEF AgreeOn
<1>1. CASE At(t, q).kind \notin {"file", "dir"}
  <2>1. Chmod(t, p, mode) = Failed(t) /\ Chmod(u, p, mode) = Failed(u)
    BY Zenon, <1>0, <1>1 DEF Chmod
  <2> QED
    BY Zenon, <2>1, SameEnds
<1>2. CASE At(t, q).kind \in {"file", "dir"}
  <2>0. q \in All(w)
    BY Zenon, <1>a, <1>2, Kinds DEF AgreeOn, At
  <2>1. t[q] = u[q] /\ NodeAt(w, q, t[q])
    BY Zenon, <1>a, <1>2, <2>0 DEF AgreeOn
  <2> PICK node : node = [t[q] EXCEPT !.mode = mode]
    BY Zenon
  <2>2. Chmod(t, p, mode) = Done(Put(t, q, node)) /\ Chmod(u, p, mode) = Done(Put(u, q, node))
    BY Zenon, <1>0, <1>2, <2>1 DEF Chmod, Put
  <2>3. NodeAt(w, q, node) /\ SameNode(q, node, node)
    BY Zenon, <2>1, ChangedAt, SameSelf
  <2>4. SameDone(w, Done(Put(t, q, node)), Done(Put(u, q, node)))
    BY Zenon, <2>3, SamePut
  <2> QED
    BY Zenon, <2>2, <2>4
<1> QED
  BY Zenon, <1>1, <1>2

\* copy_file_range between files that are the same in both trees.
LEMMA SameCopy ==
  ASSUME NEW w, NEW t, NEW u, Alike(w, t, u), NEW src, NEW dst, NEW roff, NEW off,
         t[src] = u[src], t[dst] = u[dst], dst \in All(w)
  PROVE  SameDone(w, Done(CopyBlock(t, src, dst, roff, off)), Done(CopyBlock(u, src, dst, roff, off)))
<1>1. CASE roff < Len(t[src].data)
  <2> PICK node : node = [t[dst] EXCEPT !.data = WriteAt(t[dst].data, off, t[src].data[roff + 1])]
    BY Zenon
  <2>1. /\ CopyBlock(t, src, dst, roff, off) = Put(t, dst, node)
        /\ CopyBlock(u, src, dst, roff, off) = Put(u, dst, node)
    BY Zenon, <1>1 DEF CopyBlock, Put
  <2>2. NodeAt(w, dst, t[dst])
    BY Zenon DEF Alike, IsTree
  <2>3. NodeAt(w, dst, node) /\ SameNode(dst, node, node)
    BY Zenon, <2>2, ChangedAt, SameSelf
  <2>4. SameDone(w, Done(Put(t, dst, node)), Done(Put(u, dst, node)))
    BY Zenon, <2>3, SamePut
  <2> QED
    BY Zenon, <2>1, <2>4
<1>2. CASE ~(roff < Len(t[src].data))
  <2>1. CopyBlock(t, src, dst, roff, off) = t /\ CopyBlock(u, src, dst, roff, off) = u
    BY Zenon, <1>2 DEF CopyBlock
  <2> QED
    BY Zenon, <2>1, SameEnds
<1> QED
  BY Zenon, <1>1, <1>2

FileIs(w, t, p) == p \in All(w) /\ Follow(t, p) = p /\ At(t, p) = t[p]

\* A file is where its path leads.
LEMMA FileThere ==
  ASSUME NEW w, NEW t, IsTree(w, t), NEW p, At(t, p).kind = "file"
  PROVE  FileIs(w, t, p)
<1>1. DOMAIN t = All(w)
  BY Zenon, AtNode
<1>2. p \in All(w)
  BY Zenon, <1>1, Kinds DEF At
<1>3. Follow(t, p) = p
  BY Zenon DEF Follow
<1> QED
  BY Zenon, <1>1, <1>2, <1>3 DEF FileIs, At

-----------------------------------------------------------------------------
(* Trees stay trees.                                                        *)

\* A path moved from q to p.
MovedPath(p, q, r, s) ==
  /\ Len(p \o s) = Len(p) + Len(r) - Len(q)
  /\ Len(r) = Len(q) => p \o s = p /\ r = q
  /\ Len(q) <= Len(r)

\* What a path under q becomes when q is moved to p.
LEMMA Suffix ==
  ASSUME NEW p \in Seq(STRING), NEW q \in Seq(STRING), NEW r \in Seq(STRING), IsPrefix(q, r),
         NEW s, s = SubSeq(r, Len(q) + 1, Len(r))
  PROVE  MovedPath(p, q, r, s)
<1>1. Len(q) <= Len(r) /\ SubSeq(q, 1, Len(q)) = SubSeq(r, 1, Len(q))
  BY Zenon DEF IsPrefix
<1>2. s \in Seq(STRING) /\ Len(s) = Len(r) - Len(q)
  BY <1>1
<1>3. Len(r) = Len(q) => p \o s = p
  BY <1>2
<1>4. Len(r) = Len(q) => r = q
  BY <1>1
<1> QED
  BY <1>1, <1>2, <1>3, <1>4 DEF MovedPath

\* What the kernel asks to be renamed, and as what Mirror is told of it.
Movable(w, p, q) ==
  \/ p \in w.files /\ q \in Seq(STRING)
  \/ p \in w.dirs /\ q \in w.dirs

\* A rename keeps directories off the paths of files.
LEMMA MoveTree ==
  ASSUME NEW w \in Workloads, NEW t, IsTree(w, t), NEW p, NEW q, Movable(w, p, q)
  PROVE  IsTree(w, Move(t, p, q).tree)
<1> DEFINE Source(r) == IF IsPrefix(q, r) THEN At(t, p \o SubSeq(r, Len(q) + 1, Len(r)))
                        ELSE IF IsPrefix(p, r) THEN Absent ELSE t[r]
<1>0. DOMAIN t = All(w)
  BY Zenon, AtNode
<1>1. Move(t, p, q).tree = t \/ Move(t, p, q).tree = [r \in All(w) |-> Source(r)]
  BY Zenon, <1>0, Ends DEF Move
<1>2. ASSUME NEW r \in All(w) PROVE NodeAt(w, r, Source(r))
  <2>1. IsNode(Source(r))
    BY Zenon, <1>2, AtNode, Kinds DEF IsTree, NodeAt
  <2>2. ASSUME r \in w.files, IsPrefix(q, r) PROVE Source(r).kind # "dir"
    <3> PICK s : s = SubSeq(r, Len(q) + 1, Len(r))
      BY Zenon
    <3>1. /\ p \in Seq(STRING) /\ q \in Seq(STRING) /\ r \in Seq(STRING)
          /\ p # <<>> /\ r # <<>>
      BY Zenon, <1>2, WorkloadsAssumption DEF Movable, All
    <3>2. MovedPath(p, q, r, s)
      BY Zenon, <2>2, <3>1, Suffix
    <3>3. p \o s \in w.dirs => p \in w.files /\ p \o s = p
      <4> SUFFICES ASSUME p \o s \in w.dirs PROVE p \in w.files /\ p \o s = p
        OBVIOUS
      <4>1. Len(p \o s) = 1 /\ (p \in w.dirs => Len(p) = 1) /\ (q \in w.dirs => q \notin w.files)
        BY Zenon, WorkloadsAssumption
      <4>2. Len(p) \in Nat /\ Len(p) # 0 /\ Len(q) \in Nat /\ Len(r) \in Nat
        BY <3>1
      <4>3. Len(r) = Len(q)
        BY <3>2, <4>1, <4>2 DEF MovedPath
      <4> QED
        BY Zenon, <2>2, <3>2, <4>1, <4>3 DEF Movable, MovedPath
    <3>4. At(t, p \o s).kind # "dir"
      <4>1. CASE p \o s \in w.dirs
        <5>1. p \in w.files /\ p \o s = p
          BY Zenon, <3>3, <4>1
        <5> QED
          BY Zenon, <5>1, AtNode DEF NodeAt
      <4>2. CASE p \o s \notin w.dirs
        BY Zenon, <1>0, <4>2, AtNode, Kinds DEF All, At, IsTree, NodeAt
      <4> QED
        BY Zenon, <4>1, <4>2
    <3> QED
      BY Zenon, <2>2, <3>4
  <2>3. ASSUME r \in w.files, ~IsPrefix(q, r) PROVE Source(r).kind # "dir"
    BY Zenon, <1>2, <2>3, Kinds DEF IsTree, NodeAt
  <2> QED
    BY Zenon, <2>1, <2>2, <2>3 DEF NodeAt
<1>3. IsTree(w, [r \in All(w) |-> Source(r)])
  BY Zenon, <1>2 DEF IsTree
<1> QED
  BY Zenon, <1>1, <1>3

\* A tree looks like itself.
LEMMA AlikeSelf == \A w, t : IsTree(w, t) => Alike(w, t, t)
BY Zenon, SameSelf DEF Alike, SameView

\* Writing to what is at a path, if anything is.
LEMMA PutData ==
  ASSUME NEW w, NEW t, IsTree(w, t), NEW p, NEW x
  PROVE  IsTree(w, [t EXCEPT ![p].data = x])
<1>1. CASE p \in All(w)
  <2>1. NodeAt(w, p, t[p])
    BY Zenon, <1>1 DEF IsTree
  <2>2. NodeAt(w, p, [t[p] EXCEPT !.data = x])
    BY Zenon, <2>1, ChangedAt
  <2>3. IsTree(w, Put(t, p, [t[p] EXCEPT !.data = x]))
    BY Zenon, <2>2, PutNode
  <2> QED
    BY Zenon, <2>3 DEF Put
<1>2. CASE p \notin All(w)
  <2>1. [t EXCEPT ![p].data = x] = t
    BY Zenon, <1>2 DEF IsTree
  <2> QED
    BY Zenon, <2>1
<1> QED
  BY Zenon, <1>1, <1>2

OpTypes == {"CREATE", "SYMLINK", "LINK", "MKDIR", "RENAME", "RMDIR", "UNLINK", "SETATTR",
            "WRITE", "COPY_FILE_RANGE"}

\* The cases of the local operations and of Mirror.Mirror.
LocalIs(t, hd, req) ==
  /\ req.type = "CREATE" => Local(t, hd, req) = OpenCreate(t, req.rel, req.mode)
  /\ req.type \in {"SYMLINK", "LINK"} => Local(t, hd, req) = Make(t, req.new, LinkNode(req.text))
  /\ req.type = "MKDIR" => Local(t, hd, req) = Make(t, req.rel, DirNode(FileMode(req.mode)))
  /\ req.type = "RENAME" => Local(t, hd, req) = Move(t, req.rel, req.to)
  /\ req.type = "RMDIR" => Local(t, hd, req) = DropDir(t, req.rel)
  /\ req.type = "UNLINK" => Local(t, hd, req) = DropFile(t, req.rel)
  /\ req.type = "SETATTR" => Local(t, hd, req) = Chmod(t, req.rel, req.mode)
  /\ req.type = "WRITE" =>
       Local(t, hd, req) = Done(IF hd.at = <<>> THEN t
                                ELSE [t EXCEPT ![hd.at].data = WriteAt(@, req.off, req.val)])
  /\ req.type = "COPY_FILE_RANGE" =>
       Local(t, hd, req) = Done(CopyBlock(t, req.rel, req.new, req.roff, req.off))

MirroredIs(t, req) ==
  /\ req.type = "CREATE" => Mirrored(t, req) = OpenCreate(t, req.rel, FileMode(req.mode))
  /\ req.type \in {"SYMLINK", "LINK"} => Mirrored(t, req) = Make(t, req.new, AbsLinkNode(req.rel))
  /\ req.type = "MKDIR" => Mirrored(t, req) = Make(t, req.rel, DirNode(FileMode(req.mode)))
  /\ req.type = "RENAME" => Mirrored(t, req) = OsRename(t, req.rel, req.new)
  /\ req.type \in {"RMDIR", "UNLINK"} => Mirrored(t, req) = Drop(t, req.rel)
  /\ req.type = "SETATTR" => Mirrored(t, req) = Chmod(t, req.rel, FileMode(req.mode))
  /\ req.type = "WRITE" => Mirrored(t, req) = MirrorWrite(t, req)
  /\ req.type = "COPY_FILE_RANGE" => Mirrored(t, req) = MirrorCopy(t, req)

\* A request is performed as its type says.
LEMMA Cases ==
  ASSUME NEW t, NEW hd, NEW req
  PROVE  LocalIs(t, hd, req) /\ MirroredIs(t, req)
<1>1. LocalIs(t, hd, req)
  BY Zenon DEF LocalIs, Local
<1>2. MirroredIs(t, req)
  BY Zenon DEF MirroredIs, Mirrored, MirrorCreate, MirrorLink, MirrorRename
<1> QED
  BY Zenon, <1>1, <1>2

\* What is asked for: directories at the paths of directories, files at the
\* paths of files.
Asked(w, req) ==
  /\ req.type \in OpTypes
  /\ req.type = "MKDIR" => req.rel \in w.dirs
  /\ req.type = "RENAME" => Movable(w, req.rel, req.new) /\ Movable(w, req.rel, req.to)
  /\ req.type = "COPY_FILE_RANGE" => req.new \in w.files

\* New nodes fit everywhere, directories where directories are asked for.
LEMMA NewNodes ==
  ASSUME NEW w \in Workloads
  PROVE  /\ \A p, text : NodeAt(w, p, LinkNode(text)) /\ NodeAt(w, p, AbsLinkNode(text))
         /\ \A p \in w.dirs : \A mode : NodeAt(w, p, DirNode(mode))
<1>1. \A p \in w.dirs : p \notin w.files
  BY Zenon, WorkloadsAssumption
<1>2. \A n : IsLink(n) => IsNode(n) /\ n.kind # "dir"
  BY Zenon, Kinds
<1> QED
  BY Zenon, <1>1, <1>2, Kinds, MadeNodes DEF NodeAt

\* os.Mkdir and os.Symlink turn a tree into a tree.
LEMMA MakeTree ==
  ASSUME NEW w, NEW t, IsTree(w, t), NEW p, NEW n, NodeAt(w, p, n)
  PROVE  IsTree(w, Make(t, p, n).tree)
<1>1. Alike(w, t, t) /\ SameNode(p, n, n)
  BY Zenon, AlikeSelf, SameSelf
<1>2. SameDone(w, Make(t, p, n), Make(t, p, n))
  BY Zenon, <1>1, SameMake
<1> QED
  BY Zenon, <1>2 DEF SameDone

\* The operation, and its repetition by Mirror, turn a tree into a tree.
LEMMA OpTree ==
  ASSUME NEW w \in Workloads, NEW t, IsTree(w, t), NEW hd, NEW req, Asked(w, req)
  PROVE  IsTree(w, Local(t, hd, req).tree) /\ IsTree(w, Mirrored(t, req).tree)
<1>0. LocalIs(t, hd, req) /\ MirroredIs(t, req) /\ Alike(w, t, t)
  BY Zenon, Cases, AlikeSelf
<1>1. CASE req.type = "CREATE"
  <2>1. /\ IsTree(w, OpenCreate(t, req.rel, req.mode).tree)
        /\ IsTree(w, OpenCreate(t, req.rel, FileMode(req.mode)).tree)
    BY Zenon, <1>0, SameOpenCreate DEF SameDone
  <2> QED
    BY Zenon, <1>0, <1>1, <2>1 DEF LocalIs, MirroredIs
<1>2. CASE req.type \in {"SYMLINK", "LINK"}
  <2>1. /\ IsTree(w, Make(t, req.new, LinkNode(req.text)).tree)
        /\ IsTree(w, Make(t, req.new, AbsLinkNode(req.rel)).tree)
    BY Zenon, NewNodes, MakeTree
  <2> QED
    BY Zenon, <1>0, <1>2, <2>1 DEF LocalIs, MirroredIs
<1>3. CASE req.type = "MKDIR"
  <2>1. IsTree(w, Make(t, req.rel, DirNode(FileMode(req.mode))).tree)
    BY Zenon, <1>3, NewNodes, MakeTree DEF Asked
  <2> QED
    BY Zenon, <1>0, <1>3, <2>1 DEF LocalIs, MirroredIs
<1>4. CASE req.type = "RENAME"
  <2>1. IsTree(w, Move(t, req.rel, req.to).tree) /\ IsTree(w, Move(t, req.rel, req.new).tree)
    BY Zenon, <1>4, MoveTree DEF Asked
  <2>2. IsTree(w, OsRename(t, req.rel, req.new).tree)
    BY Zenon, <2>1, Ends DEF OsRename
  <2> QED
    BY Zenon, <1>0, <1>4, <2>1, <2>2 DEF LocalIs, MirroredIs
<1>5. CASE req.type \in {"RMDIR", "UNLINK"}
  <2>1. /\ IsTree(w, DropDir(t, req.rel).tree) /\ IsTree(w, DropFile(t, req.rel).tree)
        /\ IsTree(w, Drop(t, req.rel).tree)
    BY Zenon, <1>0, SameDrops DEF SameDone
  <2> QED
    BY Zenon, <1>0, <1>5, <2>1 DEF LocalIs, MirroredIs
<1>6. CASE req.type = "SETATTR"
  <2>1. /\ IsTree(w, Chmod(t, req.rel, req.mode).tree)
        /\ IsTree(w, Chmod(t, req.rel, FileMode(req.mode)).tree)
    BY Zenon, <1>0, SameChmod DEF SameDone
  <2> QED
    BY Zenon, <1>0, <1>6, <2>1 DEF LocalIs, MirroredIs
<1>7. CASE req.type = "WRITE"
  <2>1. IsTree(w, Local(t, hd, req).tree)
    <3>1. PICK v : v = IF hd.at = <<>> THEN t
                       ELSE [t EXCEPT ![hd.at].data = WriteAt(@, req.off, req.val)]
      BY Zenon
    <3>2. IsTree(w, v)
      BY Zenon, <3>1, PutData
    <3>3. Local(t, hd, req) = Done(v)
      BY Zenon, <1>0, <1>7, <3>1 DEF LocalIs
    <3> QED
      BY Zenon, <3>2, <3>3, Ends
  <2>2. IsTree(w, MirrorWrite(t, req).tree)
    <3>1. PICK v : v = OpenCreate(t, req.rel, "ro").tree
      BY Zenon
    <3>2. IsTree(w, v)
      BY Zenon, <1>0, <3>1, SameOpenCreate DEF SameDone
    <3>3. PICK x : x = [v EXCEPT ![Follow(t, req.rel)].data = WriteAt(<<>>, req.off, req.val)]
      BY Zenon
    <3>4. IsTree(w, x)
      BY Zenon, <3>2, <3>3, PutData
    <3>5. MirrorWrite(t, req) \in {OpenCreate(t, req.rel, "ro"), Failed(t), Done(x)}
      BY Zenon, <3>1, <3>3 DEF MirrorWrite
    <3>6. MirrorWrite(t, req).tree \in {v, t, x}
      BY Zenon, <3>1, <3>5, Ends
    <3> QED
      BY Zenon, <3>2, <3>4, <3>6
  <2> QED
    BY Zenon, <1>0, <1>7, <2>1, <2>2 DEF MirroredIs
<1>8. CASE req.type = "COPY_FILE_RANGE"
  <2>1. ASSUME NEW p, NEW q \in All(w)
        PROVE  IsTree(w, CopyBlock(t, p, q, req.roff, req.off))
    <3>1. PICK v : v = CopyBlock(t, p, q, req.roff, req.off)
      BY Zenon
    <3>2. SameDone(w, Done(v), Done(v))
      BY Zenon, <1>0, <2>1, <3>1, SameCopy
    <3> QED
      BY Zenon, <3>1, <3>2, Ends DEF SameDone
  <2>2. IsTree(w, Local(t, hd, req).tree)
    <3>1. req.new \in All(w)
      BY Zenon, <1>8 DEF Asked, All
    <3>2. Local(t, hd, req).tree = CopyBlock(t, req.rel, req.new, req.roff, req.off)
      BY Zenon, <1>0, <1>8, Ends DEF LocalIs
    <3> QED
      BY Zenon, <2>1, <3>1, <3>2
  <2>3. IsTree(w, MirrorCopy(t, req).tree)
    <3>1. PICK p, q : p = Follow(t, req.rel) /\ q = Follow(t, req.new)
      BY Zenon
    <3>2. CASE At(t, p).kind # "file" \/ At(t, q).kind # "file" \/ At(t, q).mode = "ro"
      BY Zenon, <3>1, <3>2, Ends DEF MirrorCopy
    <3>3. CASE ~(At(t, p).kind # "file" \/ At(t, q).kind # "file" \/ At(t, q).mode = "ro")
      <4>1. q \in All(w)
        BY Zenon, <3>3, FileThere DEF FileIs
      <4>2. MirrorCopy(t, req).tree = CopyBlock(t, p, q, req.roff, req.off)
        BY Zenon, <3>1, <3>3 DEF MirrorCopy
      <4> QED
        BY Zenon, <2>1, <4>1, <4>2
    <3> QED
      BY Zenon, <3>2, <3>3
  <2> QED
    BY Zenon, <1>0, <1>8, <2>2, <2>3 DEF MirroredIs
<1> QED
  BY Zenon, <1>1, <1>2, <1>3, <1>4, <1>5, <1>6, <1>7, <1>8 DEF Asked, OpTypes

-----------------------------------------------------------------------------
(* The requests.                                                            *)

\* One operation at a time, through no open file; no special bits; renames out of
\* the root only, onto no directory, and not of links.
Plain ==
  /\ ~Parallel /\ "WRITE" \notin Types /\ "special" \notin Modes
  /\ "RENAME" \in Types =>
       RenameDirs \subseteq {<<>>} /\ ~Onto /\ Types \cap {"SYMLINK", "LINK"} = {}

\* What a plain request says of the tree t it was made for.
Fit(w, t, req) ==
  /\ req.type # "WRITE"
  /\ req.type \in {"SYMLINK", "LINK"} => req.new \in All(w) /\ req.rel = Front(req.new) \o req.text
  /\ req.type = "RENAME" => req.to = req.new /\ At(t, req.new).kind # "dir"
  /\ req.type = "RMDIR" => At(t, req.rel).kind = "dir"
  /\ req.type = "UNLINK" => req.rel \in w.files
  /\ req.type \in {"CREATE", "SETATTR"} => FileMode(req.mode) = req.mode
  /\ req.type = "COPY_FILE_RANGE" => At(t, req.rel).kind = "file" /\ At(t, req.new).kind = "file"

Proper(h, req) == Asked(load, req) /\ (Plain => Fit(load, tree[h], req))

TreesInv ==
  /\ load \in Workloads
  /\ tree = [h \in Hosts |-> tree[h]]
  /\ \A h \in Hosts : IsTree(load, tree[h])
  /\ op = [h \in Hosts |-> op[h]] /\ todo = [h \in Hosts |-> todo[h]]
  /\ \A i \in Hosts : todo[i] # {} => Asked(load, op[i])

\* A path is the name in its directory.
Named(p) == Front(p) \in Seq(STRING) /\ Last(p) \in STRING /\ Front(p) \o <<Last(p)>> = p

\* Every path but the root is named.
LEMMA FrontLast ==
  ASSUME NEW p \in Seq(STRING), p # <<>>
  PROVE  Named(p)
<1>1. Len(p) \in Nat \ {0}
  OBVIOUS
<1>2. Front(p) \in Seq(STRING) /\ Len(Front(p)) = Len(p) - 1
  <2>1. \A s \in Seq(STRING), n \in Nat : n <= Len(s) =>
          SubSeq(s, 1, n) \in Seq(STRING) /\ Len(SubSeq(s, 1, n)) = n
    OBVIOUS
  <2>2. Len(p) - 1 \in Nat /\ Len(p) - 1 <= Len(p)
    BY <1>1
  <2> QED
    BY Zenon, <2>1, <2>2 DEF Front
<1>3. Last(p) \in STRING
  BY <1>1 DEF Last
<1>4. Len(Front(p) \o <<Last(p)>>) = Len(p)
  BY <1>1, <1>2, <1>3
<1>5. \A i \in 1 .. Len(p) : (Front(p) \o <<Last(p)>>)[i] = p[i]
  BY <1>1, <1>2, <1>3 DEF Front, Last
<1>6. Front(p) \o <<Last(p)>> \in Seq(STRING)
  BY <1>2, <1>3
<1> QED
  BY <1>2, <1>3, <1>4, <1>5, <1>6 DEF Named

\* The paths of the workload, and their names.
LEMMA PathsNamed ==
  ASSUME TreesInv
  PROVE  /\ Paths = All(load) /\ DirPaths = load.dirs /\ FilePaths = load.files
         /\ \A p \in Paths : p \in Seq(STRING) /\ p # <<>> /\ Named(p)
         /\ \A p \in DirPaths : Len(p) = 1 /\ p \notin FilePaths
<1>1. Paths = All(load) /\ DirPaths = load.dirs /\ FilePaths = load.files
  BY Zenon DEF Paths, All, DirPaths, FilePaths
<1>2. /\ \A p \in Paths : p \in Seq(STRING) /\ p # <<>>
      /\ \A p \in DirPaths : Len(p) = 1 /\ p \notin FilePaths
  BY Zenon, <1>1, WorkloadsAssumption DEF TreesInv, All
<1> QED
  BY Zenon, <1>1, <1>2, FrontLast

\* Requests about which there is little to say.
LEMMA SimpleProper ==
  ASSUME NEW h, NEW req, req.type = "CREATE" \/ req.type = "SETATTR", req.mode \in Modes
  PROVE  Proper(h, req)
<1>1. Plain => FileMode(req.mode) = req.mode
  BY Zenon DEF Plain, FileMode
<1> QED
  BY Zenon, <1>1 DEF Proper, Asked, Fit, OpTypes

\* Link and Symlink name the target from the directory of the link.
LEMMA LinkProper ==
  ASSUME TreesInv, NEW h \in Hosts, Symlink(h) \/ Link(h)
  PROVE  \E req : Proper(h, req) /\ Replicate(h, req)
<1>1. PICK type, d, target, name :
        /\ type \in {"SYMLINK", "LINK"} /\ name \in NamesIn(d, FilePaths)
        /\ Replicate(h, [Request(type, relativePath(d, target), relativePath(d, name))
                           EXCEPT !.text = target])
  BY Zenon DEF Symlink, Link
<1>2. PICK p \in FilePaths : d = Front(p) /\ name = <<Last(p)>>
  BY Zenon, <1>1 DEF NamesIn
<1>3. PICK req : req = [Request(type, relativePath(d, target), relativePath(d, name))
                          EXCEPT !.text = target]
  BY Zenon
<1>4. req.type = type /\ req.rel = d \o target /\ req.new = d \o name /\ req.text = target
  BY Zenon, <1>3 DEF Request, relativePath
<1>5. p \in All(load) /\ Named(p)
  BY Zenon, PathsNamed DEF Paths
<1>6. req.new = p
  BY Zenon, <1>2, <1>4, <1>5 DEF Named
<1>7. Asked(load, req)
  BY Zenon, <1>1, <1>4 DEF Asked, OpTypes
<1>8. req.new \in All(load) /\ req.rel = Front(req.new) \o req.text
  BY Zenon, <1>2, <1>4, <1>5, <1>6
<1>9. Proper(h, req)
  BY Zenon, <1>1, <1>4, <1>7, <1>8 DEF Proper, Fit
<1> QED
  BY Zenon, <1>1, <1>3, <1>9

\* Rename names the entry, and Mirror is told of a path that fits.
LEMMA RenameProper ==
  ASSUME TreesInv, NEW h \in Hosts, Rename(h)
  PROVE  \E req : Proper(h, req) /\ Replicate(h, req)
<1>1. PICK d, e, p, q :
        /\ d \in RenameDirs /\ p \in Paths /\ q \in (IF p \in DirPaths THEN DirPaths ELSE FilePaths)
        /\ Front(p) = d /\ Front(q) = e /\ (tree[h][q].kind = "dir" => Onto)
        /\ Replicate(h, [Request("RENAME", p, relativePath(e, relativePath(d, <<Last(q)>>)))
                           EXCEPT !.to = q])
  BY Zenon DEF Rename
<1>2. PICK req : req = [Request("RENAME", p, relativePath(e, relativePath(d, <<Last(q)>>)))
                          EXCEPT !.to = q]
  BY Zenon
<1>3. /\ req.type = "RENAME" /\ req.rel = p /\ req.to = q
      /\ req.new = Front(q) \o (Front(p) \o <<Last(q)>>)
  BY Zenon, <1>1, <1>2 DEF Request, relativePath
<1>4. q \in Paths /\ Named(p) /\ Named(q)
  BY Zenon, <1>1, PathsNamed DEF Paths
<1>5. Front(p) = <<>> => req.new = q
  BY <1>3, <1>4 DEF Named
<1>6. p \in DirPaths => Front(p) = <<>>
  <2>1. \A s \in Seq(STRING) : Len(s) = 1 => Front(s) = <<>>
    BY DEF Front
  <2> QED
    BY Zenon, <2>1, PathsNamed DEF Paths
<1>7. req.new \in Seq(STRING)
  BY <1>3, <1>4 DEF Named
<1>8. q \in Seq(STRING) /\ (p \in load.dirs => q \in load.dirs) /\ (p \in load.dirs \/ p \in load.files)
  BY Zenon, <1>1, <1>4, PathsNamed DEF Paths
<1>9. Movable(load, p, q) /\ Movable(load, p, req.new)
  BY Zenon, <1>5, <1>6, <1>7, <1>8, PathsNamed DEF Movable
<1>10. Plain => req.new = q
  <2>1. "RENAME" \in Types
    BY Zenon, <1>1, <1>2, <1>3 DEF Replicate
  <2> QED
    BY Zenon, <1>1, <1>5, <2>1 DEF Plain
<1>12. Plain => At(tree[h], req.new).kind # "dir"
  <2>1. "RENAME" \in Types
    BY Zenon, <1>1, <1>2, <1>3 DEF Replicate
  <2>2. DOMAIN tree[h] = Paths
    BY Zenon, PathsNamed, AtNode DEF TreesInv
  <2> QED
    BY Zenon, <1>1, <1>4, <1>10, <2>1, <2>2 DEF Plain, At
<1>11. Proper(h, req)
  BY Zenon, <1>3, <1>9, <1>10, <1>12 DEF Proper, Asked, Fit, OpTypes
<1> QED
  BY Zenon, <1>1, <1>2, <1>11

\* The requests of the FUSE nodes are proper.
LEMMA UserOps ==
  ASSUME TreesInv, NEW h \in Hosts,
         \/ Create(h) \/ Mkdir(h) \/ Rename(h) \/ Rmdir(h) \/ Setattr(h) \/ Symlink(h)
         \/ Link(h) \/ Unlink(h) \/ CopyFileRange(h) \/ Write(h)
  PROVE  \E req : Proper(h, req) /\ Replicate(h, req)
<1>0. /\ Paths = All(load) /\ DirPaths = load.dirs /\ FilePaths = load.files
      /\ DOMAIN tree[h] = All(load)
  BY Zenon, PathsNamed, AtNode DEF TreesInv
<1>1. CASE Create(h)
  <2>1. PICK rel, mode :
          mode \in Modes /\ Replicate(h, [Request("CREATE", rel, <<>>) EXCEPT !.mode = mode])
    BY Zenon, <1>1 DEF Create
  <2>2. PICK req : req = [Request("CREATE", rel, <<>>) EXCEPT !.mode = mode]
    BY Zenon
  <2>3. req.type = "CREATE" /\ req.mode \in Modes
    BY Zenon, <2>1, <2>2 DEF Request
  <2>4. Proper(h, req)
    BY Zenon, <2>3, SimpleProper
  <2> QED
    BY Zenon, <2>1, <2>2, <2>4
<1>2. CASE Mkdir(h)
  <2>1. PICK p \in DirPaths, mode \in Modes :
          Replicate(h, [Request("MKDIR", relativePath(<<>>, p), <<>>) EXCEPT !.mode = mode])
    BY Zenon, <1>2 DEF Mkdir
  <2>2. PICK req : req = [Request("MKDIR", relativePath(<<>>, p), <<>>) EXCEPT !.mode = mode]
    BY Zenon
  <2>3. p \in Seq(STRING) /\ p \in load.dirs
    BY Zenon, <1>0, PathsNamed DEF Paths
  <2>4. req.type = "MKDIR" /\ req.rel = p
    BY <2>2, <2>3 DEF Request, relativePath
  <2>5. Proper(h, req)
    BY Zenon, <2>3, <2>4 DEF Proper, Asked, Fit, OpTypes
  <2> QED
    BY Zenon, <2>1, <2>2, <2>5
<1>3. CASE Rename(h)
  BY Zenon, <1>3, RenameProper
<1>4. CASE Rmdir(h)
  <2>1. PICK p \in DirPaths : tree[h][p].kind = "dir" /\ Replicate(h, Request("RMDIR", p, <<>>))
    BY Zenon, <1>4 DEF Rmdir
  <2>2. PICK req : req = Request("RMDIR", p, <<>>)
    BY Zenon
  <2>3. req.type = "RMDIR" /\ req.rel = p
    BY Zenon, <2>2 DEF Request
  <2>4. At(tree[h], p).kind = "dir"
    BY Zenon, <1>0, <2>1 DEF At, All
  <2>5. Proper(h, req)
    BY Zenon, <2>3, <2>4 DEF Proper, Asked, Fit, OpTypes
  <2> QED
    BY Zenon, <2>1, <2>2, <2>5
<1>5. CASE Setattr(h)
  <2>1. PICK rel, mode :
          mode \in Modes /\ Replicate(h, [Request("SETATTR", rel, <<>>) EXCEPT !.mode = mode])
    BY Zenon, <1>5 DEF Setattr
  <2>2. PICK req : req = [Request("SETATTR", rel, <<>>) EXCEPT !.mode = mode]
    BY Zenon
  <2>3. req.type = "SETATTR" /\ req.mode \in Modes
    BY Zenon, <2>1, <2>2 DEF Request
  <2>4. Proper(h, req)
    BY Zenon, <2>3, SimpleProper
  <2> QED
    BY Zenon, <2>1, <2>2, <2>4
<1>6. CASE Symlink(h) \/ Link(h)
  BY Zenon, <1>6, LinkProper
<1>7. CASE Unlink(h)
  <2>1. PICK p \in FilePaths : Replicate(h, Request("UNLINK", p, <<>>))
    BY Zenon, <1>7 DEF Unlink
  <2>2. PICK req : req = Request("UNLINK", p, <<>>)
    BY Zenon
  <2>3. req.type = "UNLINK" /\ req.rel = p
    BY Zenon, <2>2 DEF Request
  <2>4. Proper(h, req)
    BY Zenon, <1>0, <2>3 DEF Proper, Asked, Fit, OpTypes
  <2> QED
    BY Zenon, <2>1, <2>2, <2>4
<1>8. CASE CopyFileRange(h)
  <2>1. PICK p, q, roff, off :
          /\ p \in FilePaths /\ q \in FilePaths
          /\ tree[h][p].kind = "file" /\ tree[h][q].kind = "file"
          /\ Replicate(h, [Request("COPY_FILE_RANGE", p, q) EXCEPT !.roff = roff, !.off = off])
    BY Zenon, <1>8 DEF CopyFileRange
  <2>2. PICK req : req = [Request("COPY_FILE_RANGE", p, q) EXCEPT !.roff = roff, !.off = off]
    BY Zenon
  <2>3. req.type = "COPY_FILE_RANGE" /\ req.rel = p /\ req.new = q
    BY Zenon, <2>2 DEF Request
  <2>4. At(tree[h], p).kind = "file" /\ At(tree[h], q).kind = "file"
    BY Zenon, <1>0, <2>1 DEF At, All
  <2>5. Proper(h, req)
    BY Zenon, <1>0, <2>1, <2>3, <2>4 DEF Proper, Asked, Fit, OpTypes
  <2> QED
    BY Zenon, <2>1, <2>2, <2>5
<1>9. CASE Write(h)
  <2>1. PICK rel, off, v :
          Replicate(h, [Request("WRITE", rel, <<>>) EXCEPT !.off = off, !.val = v])
    BY Zenon, <1>9 DEF Write
  <2>2. PICK req : req = [Request("WRITE", rel, <<>>) EXCEPT !.off = off, !.val = v]
    BY Zenon
  <2>3. req.type = "WRITE"
    BY Zenon, <2>2 DEF Request
  <2>4. req.type \in Types
    BY Zenon, <2>1, <2>2 DEF Replicate
  <2>5. Proper(h, req)
    BY Zenon, <2>3, <2>4 DEF Proper, Asked, OpTypes, Plain
  <2> QED
    BY Zenon, <2>1, <2>2, <2>5
<1> QED
  BY Zenon, <1>1, <1>2, <1>3, <1>4, <1>5, <1>6, <1>7, <1>8, <1>9

\* A request, agreed upon or not.
LEMMA ReplicateTrees ==
  ASSUME TreesInv, NEW h \in Hosts, NEW req, Proper(h, req), Replicate(h, req), UNCHANGED load
  PROVE  TreesInv'
<1>1. UNCHANGED <<load, tree>>
  BY Zenon DEF Replicate
<1>2. \/ UNCHANGED <<op, todo>>
      \/ op' = [op EXCEPT ![h] = req] /\ todo' = [todo EXCEPT ![h] = Hosts]
  BY Zenon DEF Replicate
<1>3. op' = [i \in Hosts |-> op'[i]] /\ todo' = [i \in Hosts |-> todo'[i]]
  BY Zenon, <1>2 DEF TreesInv
<1>4. ASSUME NEW i \in Hosts, todo'[i] # {} PROVE Asked(load, op'[i])
  <2>1. \/ op'[i] = op[i] /\ todo'[i] = todo[i]
        \/ op'[i] = req
    BY Zenon, <1>2 DEF TreesInv
  <2> QED
    BY Zenon, <1>4, <2>1 DEF Proper, TreesInv
<1> QED
  BY Zenon, <1>1, <1>3, <1>4 DEF TreesInv

\* A host that performs an operation.
LEMMA ApplyTrees ==
  ASSUME TreesInv, NEW h \in Hosts, NEW i \in Hosts, Apply(h, i), UNCHANGED load
  PROVE  TreesInv'
<1>0. PICK done : /\ done = IF h = i THEN Local(tree[h], handle[h], op[i]) ELSE Mirrored(tree[h], op[i])
                  /\ tree' = [tree EXCEPT ![h] = done.tree]
  BY Zenon DEF Apply
<1>1. PICK t : /\ t \in {Local(tree[h], handle[h], op[i]).tree, Mirrored(tree[h], op[i]).tree}
               /\ tree' = [tree EXCEPT ![h] = t]
  BY Zenon, <1>0
<1>2. Asked(load, op[i])
  BY Zenon DEF Apply, TreesInv
<1>3. IsTree(load, t)
  <2>1. load \in Workloads /\ IsTree(load, tree[h])
    BY Zenon DEF TreesInv
  <2>2. /\ IsTree(load, Local(tree[h], handle[h], op[i]).tree)
        /\ IsTree(load, Mirrored(tree[h], op[i]).tree)
    BY Zenon, <1>2, <2>1, OpTree
  <2> QED
    BY Zenon, <1>1, <2>2
<1>4. tree' = [g \in Hosts |-> tree'[g]] /\ \A g \in Hosts : tree'[g] = t \/ tree'[g] = tree[g]
  BY Zenon, <1>1 DEF TreesInv
<1>5. /\ todo' = [j \in Hosts |-> todo'[j]]
      /\ \A j \in Hosts : todo'[j] # {} => todo[j] # {}
  BY Zenon DEF Apply, TreesInv
<1>6. UNCHANGED <<load, op>>
  BY Zenon DEF Apply
<1>7. \A g \in Hosts : IsTree(load, tree'[g])
  BY Zenon, <1>3, <1>4 DEF TreesInv
<1> QED
  BY Zenon, <1>4, <1>5, <1>6, <1>7 DEF TreesInv

\* The end of a transaction.
LEMMA FinishTrees ==
  ASSUME TreesInv, NEW i \in Hosts, Finish(i), UNCHANGED load
  PROVE  TreesInv'
<1>1. /\ op' = [j \in Hosts |-> op'[j]]
      /\ \A j \in Hosts : todo[j] # {} => op'[j] = op[j]
  BY Zenon DEF Finish, TreesInv
<1>2. UNCHANGED <<load, tree, todo>>
  BY Zenon DEF Finish
<1> QED
  BY Zenon, <1>1, <1>2 DEF TreesInv

\* At the start the trees are that of the workload.
LEMMA InitTrees ==
  ASSUME Init
  PROVE  TreesInv
<1>1. load \in Workloads
  BY Zenon DEF Init
<1>2. load.tree = [p \in All(load) |-> load.tree[p]] /\ \A p \in All(load) : NodeAt(load, p, load.tree[p])
  BY Zenon, <1>1, WorkloadsAssumption DEF All, NodeAt
<1>3. IsTree(load, load.tree)
  BY Zenon, <1>2 DEF IsTree
<1>4. /\ tree = [h \in Hosts |-> tree[h]] /\ \A h \in Hosts : tree[h] = load.tree
      /\ op = [h \in Hosts |-> op[h]]
      /\ todo = [h \in Hosts |-> todo[h]] /\ \A h \in Hosts : todo[h] = {}
  BY Zenon DEF Init
<1> QED
  BY Zenon, <1>1, <1>3, <1>4 DEF TreesInv

\* Every step keeps the trees trees, and what is in flight what was asked for.
LEMMA NextTrees ==
  ASSUME TreesInv, [Next]_vars
  PROVE  TreesInv'
<1>1. CASE UNCHANGED vars
  BY Zenon, <1>1 DEF TreesInv, vars
<1>2. ASSUME NEW h \in Hosts, UNCHANGED load,
             \/ Create(h) \/ Mkdir(h) \/ Rename(h) \/ Rmdir(h) \/ Setattr(h) \/ Symlink(h)
             \/ Link(h) \/ Unlink(h) \/ CopyFileRange(h) \/ Write(h)
      PROVE  TreesInv'
  <2>1. PICK req : Proper(h, req) /\ Replicate(h, req)
    BY Zenon, <1>2, UserOps
  <2> QED
    BY Zenon, <1>2, <2>1, ReplicateTrees
<1>3. ASSUME NEW h \in Hosts, UNCHANGED load, Open(h) PROVE TreesInv'
  BY Zenon, <1>3 DEF Open, TreesInv
<1> QED
  BY Zenon, <1>1, <1>2, <1>3, ApplyTrees, FinishTrees DEF Next

-----------------------------------------------------------------------------
(* What Consult refuses.                                                    *)

There(t, p) == At(t, p) = t[p] /\ Stat(t, p) = t[p].kind

\* Of a path that is no link, Stat says what is there.
LEMMA StatThere ==
  ASSUME NEW w, NEW t, IsTree(w, t), NEW p \in All(w), t[p].kind # "link"
  PROVE  There(t, p)
<1>1. At(t, p) = t[p]
  BY Zenon, AtNode DEF At
<1>2. Follow(t, p) = p
  BY Zenon, <1>1 DEF Follow
<1> QED
  BY Zenon, <1>1, <1>2 DEF There, Stat

Acked(t, req) == Consult(t, req) = "ACK"

\* Consult acknowledges what Mirror.Mirror can do.
LEMMA Acknowledged ==
  ASSUME NEW w, NEW t, IsTree(w, t),
         NEW req, req.type = "MKDIR" \/ req.type = "UNLINK" \/ req.type = "RENAME",
         req.rel \in All(w), req.new \in All(w),
         t[req.rel].kind # "link", t[req.new].kind # "link", Mirrored(t, req).ok
  PROVE  Acked(t, req)
<1> PICK p, q : p = req.rel /\ q = req.new
  BY Zenon
<1>a. There(t, p) /\ There(t, q) /\ MirroredIs(t, req)
  BY Zenon, StatThere, Cases
<1>0. /\ At(t, p) = t[p] /\ Stat(t, p) = t[p].kind
      /\ At(t, q) = t[q] /\ Stat(t, q) = t[q].kind
      /\ IsNode(t[p]) /\ IsNode(t[q]) /\ MirroredIs(t, req)
  BY Zenon, <1>a DEF There, IsTree, NodeAt
<1>1. CASE req.type = "MKDIR"
  <2>1. t[p] = Absent
    BY Zenon, <1>0, <1>1, Ends DEF MirroredIs, Make
  <2>2. Stat(t, req.rel) = "absent"
    BY Zenon, <1>0, <2>1, Kinds
  <2> QED
    BY Zenon, <1>1, <2>2 DEF Acked, Consult, ConsultCreate
<1>2. CASE req.type = "UNLINK"
  <2>1. Stat(t, req.rel) # "link"
    BY Zenon, <1>0
  <2> QED
    BY Zenon, <1>2, <2>1 DEF Acked, Consult, ConsultUnlink
<1>3. CASE req.type = "RENAME"
  <2>1. Move(t, p, q).ok /\ t[q].kind # "dir"
    BY Zenon, <1>0, <1>3, Ends DEF MirroredIs, OsRename
  <2>2. /\ t[p] # Absent
        /\ t[p].kind = "dir" => t[q] = Absent
    BY Zenon, <1>0, <2>1, Ends DEF Move
  <2>3. /\ t[p].kind \in {"dir", "file"} /\ t[q].kind \in {"absent", "dir", "file"}
        /\ t[p].kind = "dir" => t[q].kind # "file"
        /\ t[p].kind = "file" => t[q].kind # "dir"
    BY Zenon, <1>0, <2>1, <2>2, Kinds
  <2>4. /\ Stat(t, req.rel) \in {"dir", "file"}
        /\ Stat(t, req.new) \in {"absent", Stat(t, req.rel)}
    BY Zenon, <1>0, <2>3
  <2> QED
    BY Zenon, <1>3, <2>4 DEF Acked, Consult, ConsultRename
<1> QED
  BY Zenon, <1>1, <1>2, <1>3

\* mirror.go, Consult: a mkdir, an unlink or a rename is refused only where
\* Mirror.Mirror would fail, on any number of peers, for any paths and whatever
\* the users do.
THEOREM RefusalsJustifiedHolds == Spec => []RefusalsJustified
<1>1. Init => TreesInv
  BY Zenon, InitTrees
<1>2. TreesInv /\ [Next]_vars => TreesInv'
  BY Zenon, NextTrees
<1>3. ASSUME TreesInv, NEW h \in Hosts, NEW type, type \in {"MKDIR", "UNLINK", "RENAME"},
             NEW p \in Paths, NEW q \in Paths, tree[h][p].kind # "link", tree[h][q].kind # "link",
             Mirrored(tree[h], Request(type, p, q)).ok
      PROVE  Consult(tree[h], Request(type, p, q)) = "ACK"
  <2>1. PICK req : req = Request(type, p, q)
    BY Zenon
  <2>2. req.type = type /\ req.rel = p /\ req.new = q
    BY Zenon, <2>1 DEF Request
  <2>3. IsTree(load, tree[h]) /\ p \in All(load) /\ q \in All(load)
    BY Zenon, <1>3, PathsNamed DEF TreesInv
  <2>4. /\ req.type = "MKDIR" \/ req.type = "UNLINK" \/ req.type = "RENAME"
        /\ Mirrored(tree[h], req).ok
    BY Zenon, <1>3, <2>1, <2>2
  <2>5. Acked(tree[h], req)
    <3>1. /\ req.rel \in All(load) /\ req.new \in All(load)
          /\ tree[h][req.rel].kind # "link" /\ tree[h][req.new].kind # "link"
      BY Zenon, <1>3, <2>2, <2>3
    <3> QED
      BY Zenon, <2>3, <2>4, <3>1, Acknowledged
  <2> QED
    BY Zenon, <2>1, <2>5 DEF Acked
<1>4. TreesInv => RefusalsJustified
  BY <1>3 DEF RefusalsJustified
<1> QED
  BY <1>1, <1>2, <1>4, PTL DEF Spec

-----------------------------------------------------------------------------
(* One operation at a time: the initiator and its peers do the same.        *)

Linking(types) == "SYMLINK" \in types \/ "LINK" \in types

\* Trees that look alike, and without links are equal.
Same(w, t, u) == Alike(w, t, u) /\ (~Linking(w.types) => t = u)

\* Looking alike is an equivalence.
LEMMA AlikeJoin ==
  ASSUME NEW w, NEW t, NEW u, NEW v, Alike(w, t, u), Alike(w, t, v)
  PROVE  Alike(w, u, v)
<1>1. ASSUME NEW p \in All(w) PROVE SameNode(p, u[p], v[p])
  <2>1. SameNode(p, t[p], u[p]) /\ SameNode(p, t[p], v[p])
    BY Zenon, <1>1 DEF Alike, SameView
  <2> QED
    BY Zenon, <2>1 DEF SameNode
<1> QED
  BY Zenon, <1>1 DEF Alike, SameView

\* And so is being the same.
LEMMA SameJoin ==
  ASSUME NEW w, NEW t, NEW u, NEW v, Same(w, t, u), Same(w, t, v)
  PROVE  Same(w, u, v)
BY Zenon, AlikeJoin DEF Same

\* Consult lets a copy pass to a writable file only.
Copyable(t, req) == req.type = "COPY_FILE_RANGE" => At(t, req.new).mode # "ro"

SameMirror(w, t, u, req) == SameDone(w, Mirrored(t, req), Mirrored(u, req))

\* Mirror.Mirror does the same to trees that look alike.
LEMMA MirrorAlike ==
  ASSUME NEW w \in Workloads, NEW t, NEW u, Alike(w, t, u), NEW req, Asked(w, req),
         req.type # "RENAME", Fit(w, t, req)
  PROVE  SameMirror(w, t, u, req)
<1>0. MirroredIs(t, req) /\ MirroredIs(u, req)
  BY Zenon, Cases
<1>1. CASE req.type = "CREATE"
  BY Zenon, <1>0, <1>1, SameOpenCreate DEF MirroredIs, SameMirror
<1>2. CASE req.type \in {"SYMLINK", "LINK"}
  <2>1. req.new \in All(w)
    BY Zenon, <1>2 DEF Fit
  <2>a. AgreeOn(w, t, u, req.new)
    BY Zenon, SameAt
  <2>2. t[req.new] = Absent <=> u[req.new] = Absent
    BY Zenon, <2>1, <2>a DEF AgreeOn
  <2>3. NodeAt(w, req.new, AbsLinkNode(req.rel))
    BY Zenon, NewNodes
  <2>4. SameNode(req.new, AbsLinkNode(req.rel), AbsLinkNode(req.rel))
    BY Zenon, SameSelf
  <2>5. SameDone(w, Make(t, req.new, AbsLinkNode(req.rel)), Make(u, req.new, AbsLinkNode(req.rel)))
    BY Zenon, <2>2, <2>3, <2>4, SameMake
  <2> QED
    BY Zenon, <1>0, <1>2, <2>5 DEF MirroredIs, SameMirror
<1>3. CASE req.type = "MKDIR"
  <2>1. req.rel \in w.dirs /\ req.rel \in All(w)
    BY Zenon, <1>3 DEF Asked, All
  <2>a. AgreeOn(w, t, u, req.rel)
    BY Zenon, SameAt
  <2>2. t[req.rel] = Absent <=> u[req.rel] = Absent
    BY Zenon, <2>1, <2>a DEF AgreeOn
  <2> PICK n : n = DirNode(FileMode(req.mode))
    BY Zenon
  <2>3. NodeAt(w, req.rel, n) /\ SameNode(req.rel, n, n)
    BY Zenon, <2>1, NewNodes, SameSelf
  <2>4. SameDone(w, Make(t, req.rel, n), Make(u, req.rel, n))
    BY Zenon, <2>2, <2>3, SameMake
  <2> QED
    BY Zenon, <1>0, <1>3, <2>4 DEF MirroredIs, SameMirror
<1>4. CASE req.type \in {"RMDIR", "UNLINK"}
  <2>1. SameDone(w, Drop(t, req.rel), Drop(u, req.rel))
    BY Zenon, SameDrops
  <2> QED
    BY Zenon, <1>0, <1>4, <2>1 DEF MirroredIs, SameMirror
<1>5. CASE req.type = "SETATTR"
  BY Zenon, <1>0, <1>5, SameChmod DEF MirroredIs, SameMirror
<1>6. CASE req.type = "COPY_FILE_RANGE"
  <2> PICK p, q : p = req.rel /\ q = req.new
    BY Zenon
  <2>1. At(t, p).kind = "file" /\ At(t, q).kind = "file"
    BY Zenon, <1>6 DEF Fit
  <2>2. AgreeOn(w, t, u, p) /\ AgreeOn(w, t, u, q)
    BY Zenon, SameAt
  <2>3. At(u, p) = At(t, p) /\ At(u, q) = At(t, q)
    BY Zenon, <2>1, <2>2 DEF AgreeOn
  <2>a. IsTree(w, t) /\ IsTree(w, u) /\ At(u, p).kind = "file" /\ At(u, q).kind = "file"
    BY Zenon, <2>1, <2>3 DEF Alike
  <2>b. FileIs(w, t, p) /\ FileIs(w, t, q) /\ FileIs(w, u, p) /\ FileIs(w, u, q)
    BY Zenon, <2>1, <2>a, FileThere
  <2>4. /\ p \in All(w) /\ Follow(t, p) = p /\ At(t, p) = t[p]
        /\ q \in All(w) /\ Follow(t, q) = q /\ At(t, q) = t[q]
    BY Zenon, <2>b DEF FileIs
  <2>5. /\ Follow(u, p) = p /\ At(u, p) = u[p]
        /\ Follow(u, q) = q /\ At(u, q) = u[q]
    BY Zenon, <2>b DEF FileIs
  <2>6. CASE At(t, q).mode = "ro"
    <3>1. MirrorCopy(t, req) = Failed(t) /\ MirrorCopy(u, req) = Failed(u)
      BY Zenon, <2>3, <2>4, <2>5, <2>6 DEF MirrorCopy
    <3> QED
      BY Zenon, <1>0, <1>6, <3>1, SameEnds DEF MirroredIs, SameMirror
  <2>7. CASE At(t, q).mode # "ro"
    <3> PICK x, y : /\ x = CopyBlock(t, p, q, req.roff, req.off)
                    /\ y = CopyBlock(u, p, q, req.roff, req.off)
      BY Zenon
    <3> PICK short : short = (req.roff < Len(t[p].data))
      BY Zenon
    <3>1. t[p] = u[p] /\ t[q] = u[q]
      BY Zenon, <2>3, <2>4, <2>5
    <3>2. MirrorCopy(t, req) = [ok |-> short, tree |-> x]
      BY Zenon, <2>1, <2>4, <2>7 DEF MirrorCopy
    <3>3. MirrorCopy(u, req) = [ok |-> short, tree |-> y]
      BY Zenon, <2>1, <2>3, <2>5, <2>7, <3>1 DEF MirrorCopy
    <3>4. SameDone(w, Done(x), Done(y))
      BY Zenon, <2>4, <3>1, SameCopy
    <3>5. /\ MirrorCopy(t, req).tree = x /\ MirrorCopy(t, req).ok = short
          /\ MirrorCopy(u, req).tree = y /\ MirrorCopy(u, req).ok = short
      BY <3>2, <3>3
    <3>6. SameDone(w, MirrorCopy(t, req), MirrorCopy(u, req))
      BY Zenon, <3>4, <3>5, Ends DEF SameDone
    <3> QED
      BY Zenon, <1>0, <1>6, <3>6 DEF MirroredIs, SameMirror
  <2> QED
    BY Zenon, <2>6, <2>7
<1> QED
  BY Zenon, <1>1, <1>2, <1>3, <1>4, <1>5, <1>6 DEF Asked, OpTypes, Fit

\* A link as Link and Symlink make it leads where the one of Mirror does.
LEMMA LinksAlike ==
  ASSUME NEW w \in Workloads, NEW t, NEW u, Alike(w, t, u), NEW req,
         req.type = "SYMLINK" \/ req.type = "LINK", Fit(w, t, req), NEW hd
  PROVE  SameDone(w, Mirrored(t, req), Local(u, hd, req))
<1> PICK m, n : m = AbsLinkNode(req.rel) /\ n = LinkNode(req.text)
  BY Zenon
<1>1. MirroredIs(t, req) /\ LocalIs(u, hd, req) /\ AgreeOn(w, t, u, req.new)
  BY Zenon, Cases, SameAt
<1>2. /\ Mirrored(t, req) = Make(t, req.new, m)
      /\ Local(u, hd, req) = Make(u, req.new, n)
  BY Zenon, <1>1 DEF MirroredIs, LocalIs
<1>3. t[req.new] = Absent <=> u[req.new] = Absent
  BY Zenon, <1>1 DEF Fit, AgreeOn
<1>4. NodeAt(w, req.new, m) /\ NodeAt(w, req.new, n)
  BY Zenon, NewNodes
<1>5. SameNode(req.new, m, n)
  <2>1. /\ m.kind = "link" /\ m.abs = TRUE /\ m.text = req.rel
        /\ n.kind = "link" /\ n.abs = FALSE /\ n.text = req.text
    BY Zenon DEF AbsLinkNode, LinkNode
  <2>2. Lead(req.new, m) = req.rel /\ Lead(req.new, n) = Front(req.new) \o req.text
    BY Zenon, <2>1 DEF Lead
  <2> QED
    BY Zenon, <2>1, <2>2 DEF SameNode, Fit
<1>6. SameDone(w, Make(t, req.new, m), Make(u, req.new, n))
  BY Zenon, <1>3, <1>4, <1>5, SameMake
<1> QED
  BY Zenon, <1>2, <1>6

EqualOps(t, hd, req) ==
  /\ Local(t, hd, req).tree = Mirrored(t, req).tree
  /\ req.type # "COPY_FILE_RANGE" => Local(t, hd, req).ok = Mirrored(t, req).ok

\* Anything but a link is made by the FUSE node exactly as by Mirror.
LEMMA Exact ==
  ASSUME NEW w \in Workloads, NEW t, IsTree(w, t), NEW req, Asked(w, req), Fit(w, t, req),
         Copyable(t, req), req.type \notin {"SYMLINK", "LINK"}, NEW hd
  PROVE  EqualOps(t, hd, req)
<1>0. MirroredIs(t, req) /\ LocalIs(t, hd, req)
  BY Zenon, Cases
<1>1. CASE req.type \in {"CREATE", "MKDIR", "RENAME", "SETATTR"}
  <2>1. Local(t, hd, req) = Mirrored(t, req)
    BY Zenon, <1>0, <1>1 DEF MirroredIs, LocalIs, Fit, OsRename
  <2> QED
    BY Zenon, <2>1 DEF EqualOps
<1>2. CASE req.type = "RMDIR"
  <2>1. Drop(t, req.rel) = DropDir(t, req.rel)
    BY Zenon, <1>2 DEF Fit, Drop
  <2> QED
    BY Zenon, <1>0, <1>2, <2>1 DEF EqualOps, MirroredIs, LocalIs
<1>3. CASE req.type = "UNLINK"
  <2>0. NodeAt(w, req.rel, At(t, req.rel)) /\ req.rel \in w.files
    BY Zenon, <1>3, AtNode DEF Fit
  <2>1. Drop(t, req.rel) = DropFile(t, req.rel)
    BY Zenon, <2>0 DEF NodeAt, Drop
  <2> QED
    BY Zenon, <1>0, <1>3, <2>1 DEF EqualOps, MirroredIs, LocalIs
<1>4. CASE req.type = "COPY_FILE_RANGE"
  <2> PICK p, q, v : p = req.rel /\ q = req.new /\ v = CopyBlock(t, p, q, req.roff, req.off)
    BY Zenon
  <2>1. At(t, p).kind = "file" /\ At(t, q).kind = "file" /\ At(t, q).mode # "ro"
    BY Zenon, <1>4 DEF Fit, Copyable
  <2>2. FileIs(w, t, p) /\ FileIs(w, t, q)
    BY Zenon, <2>1, FileThere
  <2>3. MirrorCopy(t, req) = [ok |-> req.roff < Len(t[p].data), tree |-> v]
    BY Zenon, <2>1, <2>2 DEF MirrorCopy, FileIs
  <2>4. MirrorCopy(t, req).tree = v
    BY <2>3
  <2>5. Local(t, hd, req) = Done(v)
    BY Zenon, <1>0, <1>4 DEF LocalIs
  <2>6. Local(t, hd, req).tree = v
    BY Zenon, <2>5, Ends
  <2> QED
    BY Zenon, <1>0, <1>4, <2>4, <2>6 DEF EqualOps, MirroredIs
<1> QED
  BY Zenon, <1>1, <1>2, <1>3, <1>4 DEF Asked, OpTypes, Fit

\* What fits a tree fits one that looks alike.
LEMMA FitAlike ==
  ASSUME NEW w, NEW t, NEW u, Alike(w, t, u), NEW req, Fit(w, t, req), Copyable(t, req)
  PROVE  Fit(w, u, req) /\ Copyable(u, req)
<1>1. AgreeOn(w, t, u, req.rel) /\ AgreeOn(w, t, u, req.new)
  BY Zenon, SameAt
<1>2. Fit(w, u, req)
  BY Zenon, <1>1 DEF Fit, AgreeOn
<1>3. Copyable(u, req)
  BY Zenon, <1>1 DEF Fit, Copyable, AgreeOn
<1> QED
  BY Zenon, <1>2, <1>3

\* The result r of an operation on a tree that looks like t.
Repeats(w, t, req, r) ==
  /\ Same(w, Mirrored(t, req).tree, r.tree)
  /\ req.type # "COPY_FILE_RANGE" => r.ok = Mirrored(t, req).ok

\* Two peers, one of them the initiator, that do a request one after the other
\* look alike afterwards if they did before.
LEMMA Twins ==
  ASSUME NEW w \in Workloads, NEW t, NEW u, Same(w, t, u), NEW req, Asked(w, req),
         Fit(w, t, req), Copyable(t, req), NEW hd,
         req.type \in w.types, "RENAME" \in w.types => ~Linking(w.types)
  PROVE  Repeats(w, t, req, Local(u, hd, req)) /\ Repeats(w, t, req, Mirrored(u, req))
<1>0. /\ Alike(w, t, u) /\ IsTree(w, t) /\ IsTree(w, u)
      /\ Fit(w, u, req) /\ Copyable(u, req)
  BY Zenon, FitAlike DEF Same, Alike
<1>1. CASE req.type \in {"SYMLINK", "LINK"}
  <2>0. req.type = "SYMLINK" \/ req.type = "LINK"
    BY Zenon, <1>1
  <2>1. Linking(w.types) /\ req.type # "RENAME"
    BY Zenon, <2>0 DEF Linking
  <2>2. SameDone(w, Mirrored(t, req), Local(u, hd, req))
    BY Zenon, <1>0, <2>0, LinksAlike
  <2>3. SameMirror(w, t, u, req)
    BY Zenon, <1>0, <2>1, MirrorAlike
  <2> QED
    BY Zenon, <2>1, <2>2, <2>3 DEF SameMirror, Repeats, Same, SameDone, Alike
<1>2. CASE req.type \notin {"SYMLINK", "LINK"}
  <2>1. EqualOps(u, hd, req)
    BY Zenon, <1>0, <1>2, Exact
  <2>2. Repeats(w, t, req, Mirrored(u, req))
    <3>1. CASE ~Linking(w.types)
      <4>1. t = u
        BY Zenon, <3>1 DEF Same
      <4>2. IsTree(w, Mirrored(t, req).tree)
        BY Zenon, <1>0, OpTree
      <4>3. Alike(w, Mirrored(t, req).tree, Mirrored(t, req).tree)
        BY Zenon, <4>2, AlikeSelf
      <4> QED
        BY Zenon, <4>1, <4>3 DEF Repeats, Same
    <3>2. CASE Linking(w.types)
      <4>1. req.type # "RENAME"
        BY Zenon, <3>2
      <4>2. SameMirror(w, t, u, req)
        BY Zenon, <1>0, <4>1, MirrorAlike
      <4> QED
        BY Zenon, <3>2, <4>2 DEF SameMirror, Repeats, Same, SameDone, Alike
    <3> QED
      BY Zenon, <3>1, <3>2
  <2>3. Repeats(w, t, req, Local(u, hd, req))
    BY Zenon, <2>1, <2>2 DEF EqualOps, Repeats
  <2> QED
    BY Zenon, <2>2, <2>3
<1> QED
  BY Zenon, <1>1, <1>2

\* Halfway through the operation of i: the hosts that have yet to perform it hold
\* a tree like t, the others one like what Mirror makes of t.
Halfway(i, t) ==
  /\ IsTree(load, t) /\ op[i].type \in Types /\ Asked(load, op[i])
  /\ Fit(load, t, op[i]) /\ Copyable(t, op[i])
  /\ \A h \in Hosts : IF h \in todo[i] THEN Same(load, t, tree[h])
                      ELSE Same(load, Mirrored(t, op[i]).tree, tree[h])
  /\ op[i].type # "COPY_FILE_RANGE" => outcome[i] \in Seq({Mirrored(t, op[i]).ok})

InStep ==
  /\ outcome = [i \in Hosts |-> outcome[i]]
  /\ \A i, j \in Hosts : op[i] # NoOp /\ op[j] # NoOp => i = j
  /\ \A i \in Hosts : op[i] = NoOp => todo[i] = {} /\ outcome[i] = <<>>
  /\ Quiet => \A g, h \in Hosts : Same(load, tree[g], tree[h])
  /\ \A i \in Hosts : op[i] # NoOp => \E t : Halfway(i, t)

\* Consult acknowledges a copy only if it can be made.
LEMMA CopyAgreed ==
  ASSUME NEW w, NEW t, IsTree(w, t), NEW req, Fit(w, t, req),
         Consult(t, req) = "ACK" \/ Consult(t, req) = "nil"
  PROVE  Copyable(t, req)
<1> SUFFICES ASSUME req.type = "COPY_FILE_RANGE" PROVE At(t, req.new).mode # "ro"
  BY Zenon DEF Copyable
<1> PICK p, q : p = req.rel /\ q = req.new
  BY Zenon
<1>1. At(t, p).kind = "file" /\ At(t, q).kind = "file"
  BY Zenon DEF Fit
<1>2. FileIs(w, t, p) /\ FileIs(w, t, q)
  BY Zenon, <1>1, FileThere
<1>3. Stat(t, p) = "file" /\ Stat(t, q) = "file" /\ Follow(t, q) = q
  BY Zenon, <1>1, <1>2 DEF FileIs, Stat
<1>4. Consult(t, req) = IF At(t, q).mode = "ro" THEN "ERR_INVALID_MODE" ELSE "ACK"
  BY Zenon, <1>3 DEF Consult, ConsultCopy
<1> QED
  BY Zenon, <1>4

\* A request is not the absence of one.
LEMMA AskedIsOp == \A w, req : Asked(w, req) => req # NoOp /\ NoOp.type = "none"
<1>1. NoOp.type = "none"
  BY Zenon DEF NoOp
<1> QED
  BY Zenon, <1>1 DEF Asked, OpTypes

\* A request that was agreed upon is the only one, and the peers look alike.
LEMMA ReplicateStep ==
  ASSUME TreesInv, Plain, InStep, NEW h \in Hosts, NEW req, Proper(h, req), Replicate(h, req),
         UNCHANGED load
  PROVE  InStep'
<1>1. /\ \A i \in Hosts : op[i] = NoOp
      /\ req.type \in Types
      /\ UNCHANGED <<tree, outcome>>
  BY Zenon DEF Replicate, Plain
<1>2. CASE UNCHANGED <<op, todo>>
  <2>1. \A i \in Hosts : op'[i] = NoOp
    BY Zenon, <1>1, <1>2
  <2> QED
    BY Zenon, <1>1, <1>2, <2>1 DEF InStep, Quiet
<1>3. CASE /\ op' = [op EXCEPT ![h] = req] /\ todo' = [todo EXCEPT ![h] = Hosts]
           /\ Consult(tree[h], req) = "ACK" \/ Consult(tree[h], req) = "nil"
  <2>1. IsTree(load, tree[h]) /\ Asked(load, req) /\ Fit(load, tree[h], req)
    BY Zenon DEF TreesInv, Proper
  <2>2. Copyable(tree[h], req)
    BY Zenon, <1>3, <2>1, CopyAgreed
  <2>3. req # NoOp
    BY Zenon, <2>1, AskedIsOp
  <2>4. /\ op'[h] = req /\ todo'[h] = Hosts
        /\ \A i \in Hosts \ {h} : op'[i] = NoOp /\ todo'[i] = todo[i]
    BY Zenon, <1>1, <1>3 DEF TreesInv
  <2>5. \A g \in Hosts : Same(load, tree[h], tree[g])
    BY Zenon, <1>1 DEF InStep, Quiet
  <2>6. outcome[h] \in Seq({Mirrored(tree[h], req).ok})
    <3>1. outcome[h] = <<>>
      BY Zenon, <1>1 DEF InStep
    <3> QED
      BY <3>1
  <2>7. Halfway(h, tree[h])'
    BY Zenon, <1>1, <2>1, <2>2, <2>4, <2>5, <2>6 DEF Halfway, Types
  <2>8. ~Quiet'
    BY Zenon, <2>3, <2>4 DEF Quiet
  <2>9. \A i \in Hosts : op'[i] # NoOp => i = h
    BY Zenon, <2>4
  <2>10. \A i \in Hosts : op'[i] = NoOp => todo'[i] = {} /\ outcome'[i] = <<>>
    BY Zenon, <1>1, <2>3, <2>4 DEF InStep
  <2>11. \A i \in Hosts : op'[i] # NoOp => \E t : Halfway(i, t)'
    BY Zenon, <2>7, <2>9
  <2>12. outcome' = [i \in Hosts |-> outcome'[i]]
    BY Zenon, <1>1 DEF InStep
  <2> QED
    BY Zenon, <2>8, <2>9, <2>10, <2>11, <2>12 DEF InStep
<1> QED
  BY Zenon, <1>2, <1>3 DEF Replicate

\* A host that performs the operation in flight leaves those to come behind.
LEMMA ApplyStep ==
  ASSUME TreesInv, Plain, InStep, NEW h \in Hosts, NEW i \in Hosts, Apply(h, i), UNCHANGED load
  PROVE  InStep'
<1>1. h \in todo[i] /\ op[i] # NoOp
  BY Zenon DEF Apply, InStep
<1>2. PICK t : Halfway(i, t)
  BY Zenon, <1>1 DEF InStep
<1> PICK req, done : /\ req = op[i]
                     /\ done = IF h = i THEN Local(tree[h], handle[h], req) ELSE Mirrored(tree[h], req)
  BY Zenon
<1>3. Repeats(load, t, req, done)
  <2>1. /\ load \in Workloads /\ Same(load, t, tree[h]) /\ Asked(load, req) /\ Fit(load, t, req)
        /\ Copyable(t, req) /\ req.type \in load.types
    BY Zenon, <1>1, <1>2 DEF TreesInv, Halfway, Types
  <2>2. "RENAME" \in load.types => ~Linking(load.types)
    BY Zenon DEF Plain, Types, Linking
  <2>3. Repeats(load, t, req, Local(tree[h], handle[h], req)) /\ Repeats(load, t, req, Mirrored(tree[h], req))
    BY Zenon, <2>1, <2>2, Twins
  <2> QED
    BY Zenon, <2>3
<1>4. /\ tree' = [tree EXCEPT ![h] = done.tree]
      /\ outcome' = [outcome EXCEPT ![i] = Append(@, done.ok)]
      /\ todo' = [todo EXCEPT ![i] = @ \ {h}]
      /\ UNCHANGED <<load, op>>
  BY Zenon DEF Apply
<1>5. /\ tree'[h] = done.tree /\ \A g \in Hosts \ {h} : tree'[g] = tree[g]
      /\ todo'[i] = todo[i] \ {h} /\ \A j \in Hosts \ {i} : todo'[j] = todo[j]
      /\ outcome'[i] = Append(outcome[i], done.ok)
      /\ \A j \in Hosts \ {i} : outcome'[j] = outcome[j]
      /\ outcome' = [j \in Hosts |-> outcome'[j]]
  BY Zenon, <1>4 DEF TreesInv, InStep
<1>6. Halfway(i, t)'
  <2>1. ASSUME NEW g \in Hosts
        PROVE  IF g \in todo'[i] THEN Same(load, t, tree'[g])
               ELSE Same(load, Mirrored(t, req).tree, tree'[g])
    <3>1. CASE g = h
      BY Zenon, <1>3, <1>5, <3>1 DEF Repeats
    <3>2. CASE g # h
      BY Zenon, <1>2, <1>5, <3>2 DEF Halfway
    <3> QED
      BY Zenon, <3>1, <3>2
  <2>2. req.type # "COPY_FILE_RANGE" => outcome'[i] \in Seq({Mirrored(t, req).ok})
    <3> SUFFICES ASSUME req.type # "COPY_FILE_RANGE"
                 PROVE  outcome'[i] \in Seq({Mirrored(t, req).ok})
      BY Zenon
    <3> PICK v : v = Mirrored(t, req).ok
      BY Zenon
    <3>1. outcome[i] \in Seq({v}) /\ done.ok = v
      BY Zenon, <1>2, <1>3 DEF Halfway, Repeats
    <3>2. Append(outcome[i], v) \in Seq({v})
      BY <3>1
    <3> QED
      BY Zenon, <1>5, <3>1, <3>2
  <2> QED
    BY Zenon, <1>2, <1>4, <2>1, <2>2 DEF Halfway, Types
<1>7. ~Quiet'
  BY Zenon, <1>1, <1>4 DEF Quiet
<1>8. \A j \in Hosts \ {i} : op'[j] = NoOp /\ todo'[j] = {} /\ outcome'[j] = <<>>
  BY Zenon, <1>1, <1>4, <1>5 DEF InStep
<1>9. op'[i] # NoOp
  BY Zenon, <1>1, <1>4
<1>10. \A j \in Hosts : op'[j] # NoOp => j = i
  BY Zenon, <1>8
<1>11. \A j \in Hosts : op'[j] = NoOp => todo'[j] = {} /\ outcome'[j] = <<>>
  BY Zenon, <1>8, <1>9
<1>12. \A j \in Hosts : op'[j] # NoOp => \E v : Halfway(j, v)'
  BY Zenon, <1>6, <1>10
<1> QED
  BY Zenon, <1>5, <1>7, <1>10, <1>11, <1>12 DEF InStep

\* When all hosts have performed it, they look alike again.
LEMMA FinishStep ==
  ASSUME TreesInv, InStep, NEW i \in Hosts, Finish(i), UNCHANGED load
  PROVE  InStep'
<1>1. PICK t : Halfway(i, t)
  BY Zenon DEF Finish, InStep
<1>2. /\ op' = [op EXCEPT ![i] = NoOp] /\ outcome' = [outcome EXCEPT ![i] = <<>>]
      /\ op[i] # NoOp /\ todo[i] = {} /\ UNCHANGED <<load, tree, todo>>
  BY Zenon DEF Finish
<1>3. /\ op'[i] = NoOp /\ outcome'[i] = <<>>
      /\ \A j \in Hosts \ {i} : op'[j] = op[j] /\ outcome'[j] = outcome[j]
      /\ outcome' = [j \in Hosts |-> outcome'[j]]
  BY Zenon, <1>2 DEF TreesInv, InStep
<1>4. \A j \in Hosts : op'[j] = NoOp /\ todo'[j] = {} /\ outcome'[j] = <<>>
  BY Zenon, <1>2, <1>3 DEF InStep
<1>5. \A h \in Hosts : Same(load, Mirrored(t, op[i]).tree, tree[h])
  BY Zenon, <1>1, <1>2 DEF Halfway
<1>6. \A g, h \in Hosts : Same(load, tree[g], tree[h])
  BY Zenon, <1>5, SameJoin
<1>7. \A g, h \in Hosts : Same(load, tree[g], tree[h])'
  BY Zenon, <1>2, <1>6
<1> QED
  BY Zenon, <1>3, <1>4, <1>7 DEF InStep

\* One operation at a time, the peers stay in step.
LEMMA NextStep ==
  ASSUME TreesInv, Plain => InStep, [Next]_vars
  PROVE  (Plain => InStep)'
<1>0. UNCHANGED load
  BY Zenon DEF Next, vars
<1>1. Plain' <=> Plain
  BY Zenon, <1>0 DEF Plain, Parallel, Types, RenameDirs, Onto, Modes
<1> SUFFICES ASSUME Plain PROVE InStep'
  BY Zenon, <1>1
<1>2. CASE UNCHANGED vars
  BY Zenon, <1>2 DEF InStep, Quiet, Halfway, Types, vars
<1>3. ASSUME NEW h \in Hosts,
             \/ Create(h) \/ Mkdir(h) \/ Rename(h) \/ Rmdir(h) \/ Setattr(h) \/ Symlink(h)
             \/ Link(h) \/ Unlink(h) \/ CopyFileRange(h) \/ Write(h)
      PROVE  InStep'
  <2>1. PICK req : Proper(h, req) /\ Replicate(h, req)
    BY Zenon, <1>3, UserOps
  <2> QED
    BY Zenon, <1>0, <2>1, ReplicateStep
<1>4. ASSUME NEW h \in Hosts PROVE ~Open(h)
  BY Zenon DEF Open, Plain
<1> QED
  BY Zenon, <1>0, <1>2, <1>3, <1>4, ApplyStep, FinishStep DEF Next

\* The peers start in step.
LEMMA InitStep ==
  ASSUME Init
  PROVE  InStep
<1>1. TreesInv
  BY Zenon, InitTrees
<1>2. /\ \A h \in Hosts : /\ tree[h] = load.tree /\ op[h] = NoOp
                          /\ todo[h] = {} /\ outcome[h] = <<>>
      /\ outcome = [h \in Hosts |-> outcome[h]]
  BY Zenon DEF Init
<1>3. \A g, h \in Hosts : tree[g] = tree[h] /\ Alike(load, tree[g], tree[g])
  BY Zenon, <1>1, <1>2, AlikeSelf DEF TreesInv
<1>4. \A g, h \in Hosts : Same(load, tree[g], tree[h])
  BY Zenon, <1>3 DEF Same
<1> QED
  BY Zenon, <1>2, <1>4 DEF InStep

\* The inductive invariant.
StepInv == TreesInv /\ (Plain => InStep)

\* fuse.go and mirror.go: the trees stay trees, and one operation at a time the
\* peers stay in step.
THEOREM StepInvHolds == Spec => []StepInv
<1>1. Init => StepInv
  BY Zenon, InitTrees, InitStep DEF StepInv
<1>2. StepInv /\ [Next]_vars => StepInv'
  BY Zenon, NextTrees, NextStep DEF StepInv
<1> QED
  BY <1>1, <1>2, PTL DEF Spec

\* Trees that look alike look the same to a user.
LEMMA AlikeView ==
  ASSUME NEW w, NEW t, NEW u, Alike(w, t, u)
  PROVE  View(t) = View(u)
<1>0. DOMAIN t = All(w) /\ DOMAIN u = All(w)
  BY Zenon, AtNode DEF Alike
<1> DEFINE Seen(v, p) == IF v[p].kind = "link" THEN <<"link", Hop(v, p)>> ELSE <<"node", v[p]>>
<1>1. ASSUME NEW p \in All(w) PROVE Seen(t, p) = Seen(u, p)
  <2>1. SameNode(p, t[p], u[p])
    BY Zenon, <1>1 DEF Alike, SameView
  <2>2. At(t, p) = t[p] /\ At(u, p) = u[p]
    BY Zenon, <1>0, <1>1 DEF At
  <2>3. CASE t[p].kind = "link"
    <3>1. u[p].kind = "link" /\ Lead(p, t[p]) = Lead(p, u[p])
      BY Zenon, <2>1, <2>3 DEF SameNode
    <3>2. Hop(t, p) = Lead(p, t[p]) /\ Hop(u, p) = Lead(p, u[p])
      BY Zenon, <2>2, <2>3, <3>1 DEF Hop, Lead
    <3>3. Hop(t, p) = Hop(u, p)
      BY Zenon, <3>1, <3>2
    <3> QED
      BY Zenon, <2>3, <3>1, <3>3
  <2>4. CASE t[p].kind # "link"
    <3>1. t[p] = u[p]
      BY Zenon, <2>1, <2>4 DEF SameNode
    <3> QED
      BY Zenon, <2>4, <3>1
  <2> QED
    BY Zenon, <2>3, <2>4
<1>2. View(t) = [p \in All(w) |-> Seen(t, p)] /\ View(u) = [p \in All(w) |-> Seen(u, p)]
  BY Zenon, <1>0 DEF View
<1> HIDE DEF Seen
<1>3. [p \in All(w) |-> Seen(t, p)] = [p \in All(w) |-> Seen(u, p)]
  BY Zenon, <1>1
<1> QED
  BY Zenon, <1>2, <1>3

\* fuse.go and mirror.go: one operation at a time, through no open file, with no
\* special bits, and renaming out of the root only, onto no directory and beside no
\* links, the directories of all peers look the same to their users once it was
\* performed everywhere, however many peers and paths there are.
THEOREM SameTreesHolds == Spec => [](Plain => SameTrees)
<1>1. StepInv => (Plain => SameTrees)
  <2> SUFFICES ASSUME InStep, Quiet, NEW g \in Hosts, NEW h \in Hosts
               PROVE  View(tree[g]) = View(tree[h])
    BY Zenon DEF StepInv, SameTrees, SameContents
  <2>1. Alike(load, tree[g], tree[h])
    BY Zenon DEF InStep, Same
  <2> QED
    BY Zenon, <2>1, AlikeView
<1> QED
  BY <1>1, StepInvHolds, PTL

\* fuse.go and mirror.go: then they hold the same names as well, and the same kind of
\* thing under each.
THEOREM SamePathsHolds == Spec => [](Plain => SamePaths)
<1>1. StepInv => (Plain => SamePaths)
  <2> SUFFICES ASSUME TreesInv, InStep, Quiet, NEW g \in Hosts, NEW h \in Hosts, NEW p \in Paths
               PROVE  tree[g][p].kind = tree[h][p].kind
    BY Zenon DEF StepInv, SamePaths
  <2>1. Alike(load, tree[g], tree[h]) /\ p \in All(load)
    BY Zenon, PathsNamed DEF InStep, Same
  <2> QED
    BY Zenon, <2>1 DEF Alike, SameView, SameNode
<1> QED
  BY <1>1, StepInvHolds, PTL

\* mirror.go, Mirror: then what the FUSE node of the initiator could do, Mirror can do
\* on every peer, and what one of them could not do, none could. (Renaming a directory
\* onto an empty one is not among it: os.Rename refuses what syscall.Rename does.)
THEOREM SameOutcomeHolds == Spec => [](Plain => SameOutcome)
<1>1. StepInv => (Plain => SameOutcome)
  <2> SUFFICES ASSUME InStep, NEW i \in Hosts, op[i].type # "COPY_FILE_RANGE",
                      NEW j \in DOMAIN outcome[i], NEW k \in DOMAIN outcome[i]
               PROVE  outcome[i][j] = outcome[i][k]
    BY Zenon DEF StepInv, SameOutcome
  <2>1. CASE op[i] = NoOp
    <3>1. outcome[i] = <<>>
      BY Zenon, <2>1 DEF InStep
    <3> QED
      BY <3>1
  <2>2. CASE op[i] # NoOp
    <3>1. PICK v : outcome[i] \in Seq({v})
      BY Zenon, <2>2 DEF InStep, Halfway
    <3> QED
      BY <3>1
  <2> QED
    BY Zenon, <2>1, <2>2
<1> QED
  BY <1>1, StepInvHolds, PTL

-----------------------------------------------------------------------------
(* Operations of several initiators at once, on different paths.            *)

\* Everything is in the root.
Flat(w) == \A p \in All(w) : Len(p) = 1

\* Where not everything is in the root, no directory is made or removed, and none is
\* or becomes read-only if modes are changed.
Rooted(w) ==
  \/ Flat(w)
  \/ /\ "MKDIR" \notin w.types /\ "RMDIR" \notin w.types
     /\ "SETATTR" \in w.types =>
          "ro" \notin w.modes /\ \A p \in All(w) : w.tree[p].kind = "dir" => w.tree[p].mode # "ro"

\* The users of two peers do not work on one path at once (host.go does not see to
\* that). Any tree without links, no renames and no special bits; open files only
\* where none is removed.
Apart(w) ==
  /\ ~w.rivals /\ "special" \notin w.modes
  /\ w.types \subseteq {"CREATE", "MKDIR", "RMDIR", "SETATTR", "UNLINK", "WRITE"}
  /\ "WRITE" \in w.types => "UNLINK" \notin w.types
  /\ Rooted(w)
  /\ \A p \in All(w) : w.tree[p].kind # "link"

\* At most one block, and writable.
Brief(n) == n.kind = "file" => n.mode # "ro" /\ (n.data = <<>> \/ n.data = <<n.data[1]>>)

\* Every write is the whole of a file.
Whole(w) ==
  "WRITE" \in w.types => w.offsets = {0} /\ "ro" \notin w.modes /\ \A p \in All(w) : Brief(w.tree[p])

\* Nodes that the peers may hold at one path: written in pieces, a file need not be
\* the same.
Like(w, m, n) == m.kind = n.kind /\ (Whole(w) => m = n)

\* The directories stay the ones they were, as far as what is in them is concerned.
SameDir(w, p, n) ==
  /\ n.kind = "dir" <=> w.tree[p].kind = "dir"
  /\ Changeable(n) <=> Changeable(w.tree[p])

SoundNode(w, p, n) ==
  /\ n.kind # "link" /\ (Whole(w) /\ "WRITE" \in w.types => Brief(n))
  /\ Flat(w) \/ SameDir(w, p, n)
SoundTree(w, t) == IsTree(w, t) /\ \A p \in All(w) : SoundNode(w, p, t[p])

\* What a request says of the tree it was made for.
FitApart(w, t, req) ==
  /\ Asked(w, req) /\ req.type \in w.types /\ req.rel \in All(w) /\ req.new = <<>>
  /\ req.type = "CREATE" \/ req.type = "SETATTR" => req.mode \in w.modes
  /\ req.type = "RMDIR" => t[req.rel].kind = "dir"
  /\ req.type = "UNLINK" => req.rel \in w.files
  /\ req.type = "WRITE" => t[req.rel].kind = "file" /\ req.off \in w.offsets

SoundAt(w, t, p) ==
  /\ DOMAIN t = All(w) /\ At(t, p) = t[p] /\ Follow(t, p) = p
  /\ InDirectory(t, p) <=> InDirectory(w.tree, p)
  /\ Flat(w) => InDirectory(w.tree, p) /\ Empty(t, p)
  /\ NodeAt(w, p, t[p]) /\ SoundNode(w, p, t[p])

\* In a tree without links a path is what it leads to, and it is in the directory
\* it was in.
LEMMA SoundPaths ==
  ASSUME NEW w \in Workloads, NEW t, SoundTree(w, t), NEW p \in All(w)
  PROVE  SoundAt(w, t, p)
<1>1. /\ DOMAIN t = All(w) /\ At(t, p) = t[p] /\ NodeAt(w, p, t[p])
      /\ SoundNode(w, p, t[p]) /\ t[p].kind # "link"
  BY Zenon, AtNode DEF SoundTree, SoundNode, At, IsTree
<1>2. Follow(t, p) = p
  BY Zenon, <1>1 DEF Follow
<1>3. Flat(w) => InDirectory(w.tree, p) /\ InDirectory(t, p)
  BY Zenon DEF InDirectory, Flat
<1>4. ASSUME ~Flat(w) PROVE Changeable(At(t, Front(p))) <=> Changeable(At(w.tree, Front(p)))
  <2>1. DOMAIN t = All(w) /\ DOMAIN w.tree = All(w)
    BY Zenon, <1>1, WorkloadsAssumption DEF All
  <2>2. CASE Front(p) \in All(w)
    <3>1. Changeable(t[Front(p)]) <=> Changeable(w.tree[Front(p)])
      BY Zenon, <1>4, <2>2 DEF SoundTree, SoundNode, SameDir
    <3> QED
      BY Zenon, <2>1, <2>2, <3>1 DEF At
  <2>3. CASE Front(p) \notin All(w)
    BY Zenon, <2>1, <2>3 DEF At
  <2> QED
    BY Zenon, <2>2, <2>3
<1>5. InDirectory(t, p) <=> InDirectory(w.tree, p)
  BY Zenon, <1>3, <1>4 DEF InDirectory
<1>6. ASSUME Flat(w), NEW q \in All(w) PROVE ~IsStrictPrefix(p, q)
  <2>1. p \in Seq(STRING) /\ q \in Seq(STRING) /\ Len(p) = 1 /\ Len(q) = 1
    BY Zenon, <1>6, WorkloadsAssumption DEF Flat, All
  <2> QED
    BY <2>1 DEF IsStrictPrefix, IsPrefix
<1>7. Flat(w) => Empty(t, p)
  BY Zenon, <1>1, <1>6 DEF Empty
<1> QED
  BY Zenon, <1>1, <1>2, <1>3, <1>5, <1>7 DEF SoundAt

\* A whole write leaves the block written, whatever was there.
LEMMA WholeWrite ==
  ASSUME NEW v, NEW d, d = <<>> \/ d = <<d[1]>>
  PROVE  WriteAt(d, 0, v) = <<v>>
<1>1. CASE d = <<>>
  BY <1>1 DEF WriteAt
<1>2. CASE d = <<d[1]>>
  <2>1. Len(d) = 1
    BY <1>2
  <2>2. WriteAt(d, 0, v) = [i \in 1 .. 1 |-> v]
    BY <2>1 DEF WriteAt
  <2> QED
    BY <2>2
<1> QED
  BY <1>1, <1>2

\* A call on the tree u that makes the node at p, and nothing else, n.
Gives(w, u, p, r, ok, n) ==
  /\ r.ok = ok /\ r.tree[p] = n /\ SoundTree(w, r.tree)
  /\ \A q \in All(w) : q # p => r.tree[q] = u[q]

\* Calls that succeed and calls that fail.
LEMMA GivesEnds ==
  ASSUME NEW w, NEW u, SoundTree(w, u), NEW p \in All(w)
  PROVE  /\ Gives(w, u, p, Failed(u), FALSE, u[p])
         /\ \A n : NodeAt(w, p, n) /\ SoundNode(w, p, n) => Gives(w, u, p, Done(Put(u, p, n)), TRUE, n)
<1>1. Gives(w, u, p, Failed(u), FALSE, u[p])
  BY Zenon, Ends DEF Gives
<1>2. ASSUME NEW n, NodeAt(w, p, n), SoundNode(w, p, n)
      PROVE  Gives(w, u, p, Done(Put(u, p, n)), TRUE, n)
  <2>1. IsTree(w, Put(u, p, n))
    BY Zenon, <1>2, PutNode DEF SoundTree
  <2>2. Put(u, p, n)[p] = n /\ \A q \in All(w) : q # p => Put(u, p, n)[q] = u[q]
    BY DEF Put, SoundTree, IsTree
  <2>3. \A q \in All(w) : SoundNode(w, q, Put(u, p, n)[q])
    BY Zenon, <1>2, <2>2 DEF SoundTree
  <2> QED
    BY Zenon, <2>1, <2>2, <2>3, Ends DEF Gives, SoundTree
<1> QED
  BY Zenon, <1>1, <1>2

\* What becomes of the node x, and whether the operation works. (Of a write: below.)
After(w, req, x, ok, n) ==
  /\ req.type = "CREATE" => /\ x = Absent /\ InDirectory(w.tree, req.rel)
                                 => ok = TRUE /\ n = FileNode(req.mode, <<>>)
                            /\ x = Absent /\ ~InDirectory(w.tree, req.rel) => ok = FALSE /\ n = x
                            /\ x.kind = "file" => ok = TRUE /\ n = x
                            /\ x.kind = "dir" => ok = FALSE /\ n = x
  /\ req.type = "MKDIR" => /\ x = Absent => ok = TRUE /\ n = DirNode(FileMode(req.mode))
                           /\ x # Absent => ok = FALSE /\ n = x
  /\ req.type = "RMDIR" => ok = TRUE /\ n = Absent
  /\ req.type = "UNLINK" => /\ x = Absent => ok = FALSE /\ n = x
                            /\ x # Absent /\ InDirectory(w.tree, req.rel) => ok = TRUE /\ n = Absent
                            /\ x # Absent /\ ~InDirectory(w.tree, req.rel) => ok = FALSE /\ n = x
  /\ req.type = "SETATTR" => /\ x # Absent => ok = TRUE /\ n = [x EXCEPT !.mode = req.mode]
                             /\ x = Absent => ok = FALSE /\ n = x

\* The FUSE node and Mirror make of a node the same.
BothGive(w, u, hd, req) ==
  \E ok, n : /\ After(w, req, u[req.rel], ok, n)
             /\ Gives(w, u, req.rel, Local(u, hd, req), ok, n)
             /\ Gives(w, u, req.rel, Mirrored(u, req), ok, n)

\* What is no directory is like no directory.
LEMMA NoDirs ==
  ASSUME NEW w, NEW p, NEW x, x.kind # "dir", SameDir(w, p, x), NEW n, n.kind # "dir"
  PROVE  SameDir(w, p, n)
BY Zenon DEF SameDir, Changeable

\* The nodes that may take the place of x.
LEMMA SoundNodes ==
  ASSUME NEW w, Apart(w), NEW p \in All(w), NEW x, IsNode(x), SoundNode(w, p, x)
  PROVE  /\ Flat(w) \/ x.kind # "dir" => SoundNode(w, p, Absent)
         /\ Flat(w) => \A n : n.kind = "dir" => SoundNode(w, p, n)
         /\ x.kind # "dir" => \A mode \in w.modes : SoundNode(w, p, FileNode(mode, <<>>))
         /\ "SETATTR" \in w.types =>
              \A mode \in w.modes : x # Absent => SoundNode(w, p, [x EXCEPT !.mode = mode])
<1>0. x.kind # "link" /\ (Flat(w) \/ SameDir(w, p, x))
  BY Zenon DEF SoundNode
<1>1. Flat(w) \/ x.kind # "dir" => SoundNode(w, p, Absent)
  BY Zenon, <1>0, NoDirs, Kinds DEF SoundNode, Brief
<1>2. Flat(w) => \A n : n.kind = "dir" => SoundNode(w, p, n)
  BY Zenon DEF SoundNode, Brief
<1>3. ASSUME x.kind # "dir", NEW mode \in w.modes
      PROVE  SoundNode(w, p, FileNode(mode, <<>>))
  <2>1. PICK y : y = FileNode(mode, <<>>)
    BY Zenon
  <2>2. y.kind = "file" /\ y.mode = mode /\ y.data = <<>>
    BY <2>1 DEF FileNode
  <2>3. Flat(w) \/ SameDir(w, p, y)
    BY Zenon, <1>0, <1>3, <2>2, NoDirs
  <2>4. SoundNode(w, p, y)
    BY Zenon, <2>2, <2>3 DEF SoundNode, Brief, Whole
  <2> QED
    BY Zenon, <2>1, <2>4
<1>4. ASSUME "SETATTR" \in w.types, NEW mode \in w.modes, x # Absent
      PROVE  SoundNode(w, p, [x EXCEPT !.mode = mode])
  <2>1. PICK y : y = [x EXCEPT !.mode = mode]
    BY Zenon
  <2>2. IsFile(x) \/ IsDir(x)
    BY Zenon, <1>0, <1>4, Kinds
  <2>3. CASE IsFile(x)
    <3>1. x.kind = "file" /\ y.kind = "file" /\ y.mode = mode /\ y.data = x.data
      BY <2>1, <2>3 DEF IsFile
    <3>2. Flat(w) \/ SameDir(w, p, y)
      BY Zenon, <1>0, <3>1, NoDirs
    <3> QED
      BY Zenon, <1>4, <2>1, <3>1, <3>2 DEF SoundNode, Brief, Whole
  <2>4. CASE IsDir(x)
    <3>1. x.kind = "dir" /\ y.kind = "dir" /\ y.mode = mode
      BY <2>1, <2>4 DEF IsDir
    <3>2. ASSUME ~Flat(w) PROVE SameDir(w, p, y)
      <4>1. mode # "ro" /\ w.tree[p].kind = "dir" /\ w.tree[p].mode # "ro"
        BY Zenon, <1>0, <1>4, <3>1, <3>2 DEF Apart, Rooted, SameDir
      <4> QED
        BY Zenon, <3>1, <4>1 DEF SameDir, Changeable
    <3> QED
      BY Zenon, <2>1, <3>1, <3>2 DEF SoundNode, Brief
  <2> QED
    BY Zenon, <2>2, <2>3, <2>4
<1> QED
  BY Zenon, <1>1, <1>2, <1>3, <1>4

\* Every operation but a write.
LEMMA BothAfter ==
  ASSUME NEW w \in Workloads, Apart(w), NEW u, SoundTree(w, u), NEW hd, NEW req,
         FitApart(w, u, req), req.type # "WRITE"
  PROVE  BothGive(w, u, hd, req)
<1> PICK p, x : p = req.rel /\ x = u[p]
  BY Zenon
<1>0. p \in All(w) /\ Asked(w, req) /\ req.type \in w.types
  BY Zenon DEF FitApart
<1>f. SoundAt(w, u, p)
  BY Zenon, <1>0, SoundPaths
<1>1. /\ DOMAIN u = All(w) /\ At(u, p) = x /\ Follow(u, p) = p
      /\ NodeAt(w, p, x) /\ IsNode(x) /\ x.kind # "link" /\ SoundNode(w, p, x)
  BY Zenon, <1>f DEF SoundAt, NodeAt, SoundNode
<1>2. /\ Gives(w, u, p, Failed(u), FALSE, x)
      /\ \A n : NodeAt(w, p, n) /\ SoundNode(w, p, n) => Gives(w, u, p, Done(Put(u, p, n)), TRUE, n)
  BY Zenon, <1>0, GivesEnds
<1>3. LocalIs(u, hd, req) /\ MirroredIs(u, req)
  BY Zenon, Cases
<1>4. ASSUME NEW ok, NEW n, NEW r, Gives(w, u, p, r, ok, n), After(w, req, x, ok, n),
             Local(u, hd, req) = r, Mirrored(u, req) = r
      PROVE  BothGive(w, u, hd, req)
  BY Zenon, <1>4 DEF BothGive
<1>a. NodeAt(w, p, Absent) /\ (Flat(w) \/ x.kind # "dir" => SoundNode(w, p, Absent))
  BY Zenon, <1>0, <1>1, SoundNodes, Kinds DEF NodeAt
<1>d. /\ Flat(w) => InDirectory(w.tree, p) /\ InDirectory(u, p) /\ Empty(u, p)
      /\ InDirectory(u, p) <=> InDirectory(w.tree, p)
  BY Zenon, <1>f DEF SoundAt
<1>m. req.type = "CREATE" \/ req.type = "SETATTR" => req.mode \in w.modes /\ FileMode(req.mode) = req.mode
  BY Zenon DEF FitApart, Apart, FileMode
<1>b. x.kind = "absent" \/ x.kind = "dir" \/ x.kind = "file"
  BY Zenon, <1>1, Kinds
<1>c. x.kind = "absent" <=> x = Absent
  BY Zenon, <1>1, Kinds
<1>5. CASE req.type = "CREATE"
  <2>0. Local(u, hd, req) = OpenCreate(u, p, req.mode) /\ Mirrored(u, req) = OpenCreate(u, p, req.mode)
    BY Zenon, <1>3, <1>5, <1>m DEF LocalIs, MirroredIs
  <2>1. CASE x.kind = "dir"
    <3>1. OpenCreate(u, p, req.mode) = Failed(u)
      BY Zenon, <1>1, <2>1 DEF OpenCreate
    <3>2. After(w, req, x, FALSE, x)
      BY Zenon, <1>5, <1>c, <2>1, Kinds DEF After
    <3> QED
      BY Zenon, <1>2, <1>4, <2>0, <3>1, <3>2
  <2>4. CASE x = Absent /\ ~InDirectory(u, p)
    <3>1. OpenCreate(u, p, req.mode) = Failed(u)
      BY Zenon, <1>1, <2>4 DEF OpenCreate
    <3>2. After(w, req, x, FALSE, x)
      BY Zenon, <1>5, <1>d, <2>4, Kinds DEF After
    <3> QED
      BY Zenon, <1>2, <1>4, <2>0, <3>1, <3>2
  <2>2. CASE x = Absent /\ InDirectory(u, p)
    <3>0. PICK n : n = FileNode(req.mode, <<>>)
      BY Zenon
    <3>1. OpenCreate(u, p, req.mode) = Done(Put(u, p, n))
      BY Zenon, <1>0, <1>1, <2>2, <3>0, Kinds DEF OpenCreate, Put
    <3>2. After(w, req, x, TRUE, n)
      BY Zenon, <1>5, <1>d, <2>2, <3>0, Kinds DEF After
    <3>3. SoundNode(w, p, n)
      BY Zenon, <1>0, <1>1, <1>5, <1>m, <2>2, <3>0, SoundNodes, Kinds
    <3>4. NodeAt(w, p, n)
      BY Zenon, <3>0, MadeNodes, Kinds DEF NodeAt
    <3> QED
      BY Zenon, <1>2, <1>4, <2>0, <3>1, <3>2, <3>3, <3>4
  <2>3. CASE x.kind = "file"
    <3>1. OpenCreate(u, p, req.mode) = Done(Put(u, p, x))
      BY Zenon, <1>0, <1>1, <1>c, <2>3, Kinds DEF OpenCreate, Put
    <3>2. After(w, req, x, TRUE, x)
      BY Zenon, <1>5, <1>c, <2>3 DEF After
    <3> QED
      BY Zenon, <1>1, <1>2, <1>4, <2>0, <3>1, <3>2
  <2> QED
    BY Zenon, <1>b, <1>c, <2>1, <2>2, <2>3, <2>4
<1>6. CASE req.type = "MKDIR"
  <2> PICK n : n = DirNode(FileMode(req.mode))
    BY Zenon
  <2>0. Local(u, hd, req) = Make(u, p, n) /\ Mirrored(u, req) = Make(u, p, n)
    BY Zenon, <1>3, <1>6 DEF LocalIs, MirroredIs
  <2>a. InDirectory(w.tree, p) /\ InDirectory(u, p) /\ Flat(w)
    BY Zenon, <1>0, <1>6, <1>d DEF Apart, Rooted
  <2>1. CASE x = Absent
    <3>1. Make(u, p, n) = Done(Put(u, p, n))
      BY Zenon, <1>1, <2>1, <2>a DEF Make, Put
    <3>2. After(w, req, x, TRUE, n)
      BY Zenon, <1>6, <2>1 DEF After
    <3>3. NodeAt(w, p, n) /\ n.kind = "dir"
      BY Zenon, <1>0, <1>6, NewNodes, MadeNodes, Kinds DEF Asked
    <3>4. SoundNode(w, p, n)
      BY Zenon, <1>0, <1>1, <2>a, <3>3, SoundNodes
    <3> QED
      BY Zenon, <1>2, <1>4, <2>0, <3>1, <3>2, <3>3, <3>4
  <2>2. CASE x # Absent
    <3>1. Make(u, p, n) = Failed(u)
      BY Zenon, <2>2 DEF Make
    <3>2. After(w, req, x, FALSE, x)
      BY Zenon, <1>6, <2>2 DEF After
    <3> QED
      BY Zenon, <1>2, <1>4, <2>0, <3>1, <3>2
  <2> QED
    BY Zenon, <2>1, <2>2
<1>7. CASE req.type = "RMDIR"
  <2>0. x.kind = "dir" /\ Flat(w)
    BY Zenon, <1>0, <1>7 DEF FitApart, Apart, Rooted
  <2>1. Local(u, hd, req) = Done(Put(u, p, Absent)) /\ Mirrored(u, req) = Done(Put(u, p, Absent))
    BY Zenon, <1>1, <1>3, <1>7, <1>d, <2>0 DEF LocalIs, MirroredIs, Drop, DropDir, Put
  <2>2. After(w, req, x, TRUE, Absent)
    BY Zenon, <1>7 DEF After
  <2> QED
    BY Zenon, <1>2, <1>4, <1>a, <2>0, <2>1, <2>2
<1>8. CASE req.type = "UNLINK"
  <2>0. x.kind # "dir"
    BY Zenon, <1>1, <1>8 DEF FitApart, NodeAt
  <2>1. Local(u, hd, req) = DropFile(u, p) /\ Mirrored(u, req) = DropFile(u, p)
    BY Zenon, <1>1, <1>3, <1>8, <2>0 DEF LocalIs, MirroredIs, Drop
  <2>2. CASE x = Absent
    <3>1. DropFile(u, p) = Failed(u)
      BY Zenon, <1>1, <2>2, Kinds DEF DropFile
    <3>2. After(w, req, x, FALSE, x)
      BY Zenon, <1>8, <2>2 DEF After
    <3> QED
      BY Zenon, <1>2, <1>4, <2>1, <3>1, <3>2
  <2>3. CASE x # Absent /\ InDirectory(u, p)
    <3>1. DropFile(u, p) = Done(Put(u, p, Absent))
      BY Zenon, <1>1, <1>c, <2>0, <2>3 DEF DropFile, Put
    <3>2. After(w, req, x, TRUE, Absent)
      BY Zenon, <1>8, <1>d, <2>3 DEF After
    <3> QED
      BY Zenon, <1>2, <1>4, <1>a, <2>0, <2>1, <3>1, <3>2
  <2>4. CASE x # Absent /\ ~InDirectory(u, p)
    <3>1. DropFile(u, p) = Failed(u)
      BY Zenon, <2>4 DEF DropFile
    <3>2. After(w, req, x, FALSE, x)
      BY Zenon, <1>8, <1>d, <2>4 DEF After
    <3> QED
      BY Zenon, <1>2, <1>4, <2>1, <3>1, <3>2
  <2> QED
    BY Zenon, <2>2, <2>3, <2>4
<1>9. CASE req.type = "SETATTR"
  <2>0. Local(u, hd, req) = Chmod(u, p, req.mode) /\ Mirrored(u, req) = Chmod(u, p, req.mode)
    BY Zenon, <1>3, <1>9, <1>m DEF LocalIs, MirroredIs
  <2>1. CASE x # Absent
    <3>0. PICK n : n = [x EXCEPT !.mode = req.mode]
      BY Zenon
    <3>1. Chmod(u, p, req.mode) = Done(Put(u, p, n))
      BY Zenon, <1>1, <1>b, <1>c, <2>1, <3>0 DEF Chmod, Put
    <3>2. After(w, req, x, TRUE, n)
      BY Zenon, <1>9, <2>1, <3>0 DEF After
    <3>3. NodeAt(w, p, n) /\ SoundNode(w, p, n)
      BY Zenon, <1>0, <1>1, <1>9, <1>m, <2>1, <3>0, SoundNodes, ChangedAt
    <3> QED
      BY Zenon, <1>2, <1>4, <2>0, <3>1, <3>2, <3>3
  <2>2. CASE x = Absent
    <3>1. Chmod(u, p, req.mode) = Failed(u)
      BY Zenon, <1>1, <2>2, Kinds DEF Chmod
    <3>2. After(w, req, x, FALSE, x)
      BY Zenon, <1>9, <2>2 DEF After
    <3> QED
      BY Zenon, <1>2, <1>4, <2>0, <3>1, <3>2
  <2> QED
    BY Zenon, <2>1, <2>2
<1> QED
  BY Zenon, <1>0, <1>5, <1>6, <1>7, <1>8, <1>9 DEF Apart

AlikeAfter(w, x, req, ok, m, works, n) ==
  /\ Like(w, m, n) /\ ok = works
  /\ x.kind = "file" /\ req.type # "UNLINK" /\ req.type # "RMDIR" => m.kind = "file"
  /\ req.type = "CREATE" /\ ok => m.kind = "file"

\* What becomes of like nodes is alike. A file stays a file, and a new one is one.
LEMMA AfterLike ==
  ASSUME NEW w, NEW x, NEW y, IsNode(x), IsNode(y), x.kind # "link", Like(w, x, y), NEW req,
         \/ req.type = "CREATE" \/ req.type = "MKDIR" \/ req.type = "RMDIR"
         \/ req.type = "UNLINK" \/ req.type = "SETATTR",
         NEW ok, NEW m, After(w, req, x, ok, m), NEW works, NEW n, After(w, req, y, works, n)
  PROVE  AlikeAfter(w, x, req, ok, m, works, n)
<1> USE DEF AlikeAfter
<1>1. /\ x = Absent <=> y = Absent
      /\ x.kind = "absent" \/ x.kind = "dir" \/ x.kind = "file"
      /\ x.kind = "absent" <=> x = Absent
      /\ x.kind = y.kind /\ (Whole(w) => x = y)
  BY Zenon, Kinds DEF Like
<1>2. CASE req.type = "CREATE"
  <2>1. /\ x = Absent => /\ y = Absent /\ m = n /\ ok = works
                         /\ m = FileNode(req.mode, <<>>) \/ ok = FALSE
        /\ x.kind = "file" => m = x /\ n = y /\ ok = works
        /\ x.kind = "dir" => m = x /\ n = y /\ ok = FALSE /\ works = FALSE
    BY Zenon, <1>1, <1>2 DEF After
  <2>2. FileNode(req.mode, <<>>).kind = "file"
    BY DEF FileNode
  <2> QED
    BY Zenon, <1>1, <1>2, <2>1, <2>2 DEF Like
<1>3. CASE req.type = "MKDIR" \/ req.type = "RMDIR" \/ req.type = "UNLINK"
  <2>1. \/ m = n /\ ok = works /\ (req.type = "MKDIR" => x.kind # "file")
        \/ m = x /\ n = y /\ ok = works
    BY Zenon, <1>1, <1>3, Kinds DEF After
  <2> QED
    BY Zenon, <1>1, <1>3, <2>1 DEF Like
<1>4. CASE req.type = "SETATTR"
  <2>1. CASE x # Absent
    <3>1. m = [x EXCEPT !.mode = req.mode] /\ n = [y EXCEPT !.mode = req.mode] /\ ok = TRUE /\ works = TRUE
      BY Zenon, <1>1, <1>4, <2>1 DEF After
    <3>2. m.kind = x.kind /\ n.kind = y.kind
      BY Zenon, <3>1, ChangedNodes
    <3>3. Whole(w) => m = n
      BY Zenon, <1>1, <3>1
    <3> QED
      BY Zenon, <1>1, <1>4, <2>1, <3>1, <3>2, <3>3 DEF Like
  <2>2. CASE x = Absent
    <3>1. m = x /\ n = y /\ ok = works
      BY Zenon, <1>1, <1>4, <2>2 DEF After
    <3> QED
      BY Zenon, <1>1, <1>4, <2>2, <3>1 DEF Like
  <2> QED
    BY Zenon, <2>1, <2>2
<1> QED
  BY Zenon, <1>2, <1>3, <1>4

\* A write by the initiator, and its repetition by Mirror. A whole one is the same.
Written(w, u, req, r) ==
  \E ok, n : /\ Gives(w, u, req.rel, r, ok, n) /\ n.kind = "file"
             /\ Whole(w) => ok = TRUE /\ n = [u[req.rel] EXCEPT !.data = <<req.val>>]

\* Both write to the file there is.
LEMMA BothWrite ==
  ASSUME NEW w \in Workloads, Apart(w), NEW u, SoundTree(w, u), NEW hd, NEW req,
         FitApart(w, u, req), req.type = "WRITE"
  PROVE  /\ hd.at = req.rel => Written(w, u, req, Local(u, hd, req))
         /\ Written(w, u, req, Mirrored(u, req))
<1> PICK p, x : p = req.rel /\ x = u[p]
  BY Zenon
<1>0. p \in All(w) /\ x.kind = "file" /\ req.off \in w.offsets /\ "WRITE" \in w.types
  BY Zenon DEF FitApart
<1>1. SoundAt(w, u, p) /\ IsFile(x)
  BY ZenonT(30), <1>0, SoundPaths, Kinds DEF SoundAt, NodeAt
<1>2. /\ Gives(w, u, p, Failed(u), FALSE, x)
      /\ \A n : NodeAt(w, p, n) /\ SoundNode(w, p, n) => Gives(w, u, p, Done(Put(u, p, n)), TRUE, n)
  BY Zenon, <1>0, GivesEnds
<1>3. LocalIs(u, hd, req) /\ MirroredIs(u, req) /\ p # <<>>
  BY Zenon, <1>0, Cases, WorkloadsAssumption DEF All
<1>4. Whole(w) => Brief(x) /\ req.off = 0
  BY Zenon, <1>0, <1>1 DEF SoundAt, SoundNode, Whole
<1>5. ASSUME NEW d, d = <<>> \/ d = x.data, NEW n, n = [x EXCEPT !.data = WriteAt(d, req.off, req.val)]
      PROVE  /\ NodeAt(w, p, n) /\ SoundNode(w, p, n) /\ n.kind = "file"
             /\ Whole(w) => n = [x EXCEPT !.data = <<req.val>>]
  <2>0. PICK e : e = WriteAt(d, req.off, req.val)
    BY Zenon
  <2>a. n = [x EXCEPT !.data = e] /\ NodeAt(w, p, x) /\ IsNode(x)
    BY Zenon, <1>1, <1>5, <2>0 DEF SoundAt, NodeAt
  <2>b. NodeAt(w, p, n)
    BY Zenon, <2>a, ChangedAt
  <2>c. [x EXCEPT !.data = e].kind = x.kind
    BY ZenonT(30), <2>a, ChangedNodes
  <2>1. NodeAt(w, p, n) /\ n.kind = "file"
    BY Zenon, <1>0, <2>a, <2>b, <2>c
  <2>2. ASSUME Whole(w) PROVE Brief(n) /\ n = [x EXCEPT !.data = <<req.val>>]
    <3>1. d = <<>> \/ d = <<d[1]>>
      BY Zenon, <1>0, <1>4, <1>5, <2>2 DEF Brief
    <3>2. WriteAt(d, req.off, req.val) = <<req.val>>
      BY Zenon, <1>4, <2>2, <3>1, WholeWrite
    <3>3. n = [x EXCEPT !.data = <<req.val>>]
      BY Zenon, <1>5, <3>2
    <3>4. n.mode = x.mode /\ n.data = <<n.data[1]>>
      BY <1>1, <3>3 DEF IsFile
    <3> QED
      BY Zenon, <1>0, <1>4, <2>2, <3>3, <3>4 DEF Brief
  <2>3. Flat(w) \/ SameDir(w, p, n)
    BY Zenon, <1>0, <1>1, <2>1, NoDirs DEF SoundAt, SoundNode
  <2>4. SoundNode(w, p, n)
    BY Zenon, <2>1, <2>2, <2>3 DEF SoundNode
  <2> QED
    BY Zenon, <2>1, <2>2, <2>4
<1>6. ASSUME hd.at = p PROVE Written(w, u, req, Local(u, hd, req))
  <2>1. PICK n : n = [x EXCEPT !.data = WriteAt(x.data, req.off, req.val)]
    BY Zenon
  <2>2. [u EXCEPT ![p].data = WriteAt(@, req.off, req.val)] = Put(u, p, n)
    BY Zenon, <2>1 DEF Put
  <2>3. Local(u, hd, req) = Done(Put(u, p, n))
    BY Zenon, <1>3, <1>6, <2>2 DEF LocalIs
  <2>4. /\ NodeAt(w, p, n) /\ SoundNode(w, p, n) /\ n.kind = "file"
        /\ Whole(w) => n = [x EXCEPT !.data = <<req.val>>]
    BY Zenon, <1>5, <2>1
  <2>5. Gives(w, u, p, Done(Put(u, p, n)), TRUE, n)
    BY Zenon, <1>2, <2>4
  <2>6. Gives(w, u, p, Local(u, hd, req), TRUE, n)
    BY Zenon, <2>3, <2>5
  <2> QED
    BY Zenon, <2>4, <2>6 DEF Written
<1>7. Written(w, u, req, Mirrored(u, req))
  <2>0. Mirrored(u, req) = MirrorWrite(u, req)
    BY Zenon, <1>3 DEF MirroredIs
  <2>1. OpenCreate(u, p, "ro") = Done(u)
    <3>1. [u EXCEPT ![p] = x] = u
      BY <1>0 DEF SoundTree, IsTree
    <3>2. x # Absent
      BY Zenon, <1>0, Kinds
    <3>3. OpenCreate(u, p, "ro") = Done([u EXCEPT ![p] = x])
      BY Zenon, <1>0, <1>1, <3>2 DEF OpenCreate, SoundAt
    <3> QED
      BY Zenon, <3>1, <3>3
  <2>a. /\ OpenCreate(u, req.rel, "ro").ok = TRUE /\ OpenCreate(u, req.rel, "ro").tree = u
        /\ Follow(u, req.rel) = p /\ At(u, p) = x
    BY Zenon, <1>1, <2>1, Ends DEF SoundAt
  <2>2. CASE x.mode = "ro"
    <3>1. Mirrored(u, req) = Failed(u)
      BY Zenon, <1>0, <2>0, <2>2, <2>a DEF MirrorWrite
    <3>2. ~Whole(w)
      BY Zenon, <1>0, <1>4, <2>2 DEF Brief
    <3> QED
      BY Zenon, <1>0, <1>2, <3>1, <3>2 DEF Written
  <2>3. CASE x.mode # "ro"
    <3>1. PICK n : n = [x EXCEPT !.data = WriteAt(<<>>, req.off, req.val)]
      BY Zenon
    <3>2. MirrorWrite(u, req) = Done([u EXCEPT ![p].data = WriteAt(<<>>, req.off, req.val)])
      BY Zenon, <1>0, <2>3, <2>a DEF MirrorWrite
    <3>3. Mirrored(u, req) = Done(Put(u, p, n))
      BY Zenon, <2>0, <3>1, <3>2 DEF Put
    <3>4. /\ NodeAt(w, p, n) /\ SoundNode(w, p, n) /\ n.kind = "file"
          /\ Whole(w) => n = [x EXCEPT !.data = <<req.val>>]
      BY Zenon, <1>5, <3>1
    <3>5. Gives(w, u, p, Done(Put(u, p, n)), TRUE, n)
      BY Zenon, <1>2, <3>4
    <3>6. Gives(w, u, p, Mirrored(u, req), TRUE, n)
      BY Zenon, <3>3, <3>5
    <3> QED
      BY Zenon, <3>4, <3>6 DEF Written
  <2> QED
    BY Zenon, <2>2, <2>3
<1> QED
  BY Zenon, <1>6, <1>7

\* What an operation on a path does to a tree u that is like t there.
RepeatsAt(w, t, u, req, r) ==
  /\ SoundTree(w, r.tree) /\ \A q \in All(w) : q # req.rel => r.tree[q] = u[q]
  /\ Like(w, Mirrored(t, req).tree[req.rel], r.tree[req.rel])
  /\ Whole(w) => r.ok = Mirrored(t, req).ok
  /\ u[req.rel].kind = "file" /\ req.type # "UNLINK" => r.tree[req.rel].kind = "file"
  /\ req.type = "CREATE" /\ r.ok => r.tree[req.rel].kind = "file"

\* Two peers whose nodes at a path are alike perform an operation on it alike,
\* whatever is in flight on other paths.
LEMMA TwinsAt ==
  ASSUME NEW w \in Workloads, Apart(w), NEW t, NEW u, SoundTree(w, t), SoundTree(w, u),
         NEW req, FitApart(w, t, req), Like(w, t[req.rel], u[req.rel]), NEW hd
  PROVE  /\ (req.type = "WRITE" => hd.at = req.rel) => RepeatsAt(w, t, u, req, Local(u, hd, req))
         /\ RepeatsAt(w, t, u, req, Mirrored(u, req))
<1> PICK p, x, y : p = req.rel /\ x = t[p] /\ y = u[p]
  BY Zenon
<1>1. p \in All(w) /\ req.type \in w.types
  BY Zenon DEF FitApart
<1>2. IsNode(x) /\ IsNode(y) /\ x.kind # "link" /\ y.kind # "link"
  BY Zenon, <1>1 DEF SoundTree, SoundNode, IsTree, NodeAt
<1>3. Like(w, x, y) /\ Like(w, y, x) /\ x.kind = y.kind
  BY Zenon DEF Like
<1>4. FitApart(w, u, req)
  BY Zenon, <1>2, <1>3, Kinds DEF FitApart
<1>5. CASE req.type = "WRITE"
  <2>1. Written(w, t, req, Mirrored(t, req)) /\ Written(w, u, req, Mirrored(u, req))
    BY Zenon, <1>4, <1>5, BothWrite
  <2>2. hd.at = req.rel => Written(w, u, req, Local(u, hd, req))
    BY Zenon, <1>4, <1>5, BothWrite
  <2>3. PICK works, m : /\ Gives(w, t, p, Mirrored(t, req), works, m) /\ m.kind = "file"
                        /\ Whole(w) => works = TRUE /\ m = [x EXCEPT !.data = <<req.val>>]
    BY Zenon, <2>1 DEF Written
  <2>4. ASSUME NEW r, Written(w, u, req, r) PROVE RepeatsAt(w, t, u, req, r)
    <3>1. PICK ok, n : /\ Gives(w, u, p, r, ok, n) /\ n.kind = "file"
                       /\ Whole(w) => ok = TRUE /\ n = [y EXCEPT !.data = <<req.val>>]
      BY Zenon, <2>4 DEF Written
    <3>2. Whole(w) => m = n
      BY Zenon, <1>3, <2>3, <3>1 DEF Like
    <3>3. Like(w, m, n)
      BY Zenon, <2>3, <3>1, <3>2 DEF Like
    <3> QED
      BY Zenon, <1>5, <2>3, <3>1, <3>3 DEF RepeatsAt, Gives
  <2> QED
    BY Zenon, <1>5, <2>1, <2>2, <2>4
<1>6. CASE req.type # "WRITE"
  <2>1. BothGive(w, t, hd, req) /\ BothGive(w, u, hd, req)
    BY Zenon, <1>4, <1>6, BothAfter
  <2>2. PICK works, m : After(w, req, x, works, m) /\ Gives(w, t, p, Mirrored(t, req), works, m)
    BY Zenon, <2>1 DEF BothGive
  <2>3. PICK ok, n : /\ After(w, req, y, ok, n)
                     /\ Gives(w, u, p, Local(u, hd, req), ok, n) /\ Gives(w, u, p, Mirrored(u, req), ok, n)
    BY Zenon, <2>1 DEF BothGive
  <2>4. \/ req.type = "CREATE" \/ req.type = "MKDIR" \/ req.type = "RMDIR"
        \/ req.type = "UNLINK" \/ req.type = "SETATTR"
    BY Zenon, <1>1, <1>6 DEF Apart
  <2>a. AlikeAfter(w, y, req, ok, n, works, m)
    BY Zenon, <1>2, <1>3, <2>2, <2>3, <2>4, AfterLike
  <2>5. /\ ok = works
        /\ y.kind = "file" /\ req.type # "UNLINK" /\ req.type # "RMDIR" => n.kind = "file"
        /\ req.type = "CREATE" /\ ok => n.kind = "file"
    BY Zenon, <2>a DEF AlikeAfter
  <2>6. Like(w, m, n)
    BY Zenon, <2>a DEF AlikeAfter, Like
  <2>7. req.type = "RMDIR" => y.kind # "file"
    BY Zenon, <1>4, Kinds DEF FitApart
  <2>8. ASSUME NEW r, Gives(w, u, p, r, ok, n) PROVE RepeatsAt(w, t, u, req, r)
    BY Zenon, <2>2, <2>5, <2>6, <2>7, <2>8 DEF RepeatsAt, Gives
  <2> QED
    BY Zenon, <2>3, <2>8
<1> QED
  BY Zenon, <1>5, <1>6

\* An open file is the file at the path it was opened under.
Held(h) ==
  \/ handle[h] = NoHandle
  \/ /\ handle[h].at = handle[h].path /\ handle[h].path \in All(load)
     /\ tree[h][handle[h].path].kind = "file"

\* What a request says of its initiator.
Aimed(h, req) ==
  FitApart(load, tree[h], req) /\ (req.type = "WRITE" => handle[h].at = req.rel)

\* Midway through the operation of i: at its path, the hosts that have yet to perform
\* it hold what t holds, the others what Mirror makes of it.
Midway(i, t) ==
  /\ SoundTree(load, t) /\ FitApart(load, t, op[i])
  /\ op[i].type = "WRITE" => handle[i].at = op[i].rel
  /\ \A h \in Hosts :
       IF h \in todo[i] THEN Like(load, t[op[i].rel], tree[h][op[i].rel])
       ELSE Like(load, Mirrored(t, op[i]).tree[op[i].rel], tree[h][op[i].rel])
  /\ Whole(load) => outcome[i] \in Seq({Mirrored(t, op[i]).ok})

\* No operation is in flight on p.
Free(p) == \A i \in Hosts : op[i] # NoOp => op[i].rel # p

Shaped ==
  /\ outcome = [i \in Hosts |-> outcome[i]] /\ handle = [h \in Hosts |-> handle[h]]
  /\ \A h \in Hosts : SoundTree(load, tree[h])
Idle == \A i \in Hosts : op[i] = NoOp => todo[i] = {} /\ outcome[i] = <<>>
OneEach == \A i, j \in Hosts : op[i] # NoOp /\ op[j] # NoOp /\ op[i].rel = op[j].rel => i = j
Settled == \A p \in All(load) : Free(p) => \A g, h \in Hosts : Like(load, tree[g][p], tree[h][p])
Underway == \A i \in Hosts : op[i] # NoOp => \E t : Midway(i, t)
Holding == "WRITE" \in Types => \A h \in Hosts : Held(h)

\* At most one operation is in flight on a path. Where there is none the peers are
\* alike, and where there is one they are midway.
OnPaths == Shaped /\ Idle /\ OneEach /\ Settled /\ Underway /\ Holding

\* Looking for a request that is aimed: links, renames and copies are not asked for.
LEMMA OthersNotAsked ==
  ASSUME Apart(load), NEW h
  PROVE  ~Rename(h) /\ ~Symlink(h) /\ ~Link(h) /\ ~CopyFileRange(h)
<1>1. ASSUME NEW req, Replicate(h, req),
             \/ req.type = "RENAME" \/ req.type = "SYMLINK" \/ req.type = "LINK"
             \/ req.type = "COPY_FILE_RANGE"
      PROVE  FALSE
  <2>1. req.type \in load.types
    BY Zenon, <1>1 DEF Replicate, Types
  <2> QED
    BY <1>1, <2>1 DEF Apart
<1>2. ~Rename(h)
  <2> SUFFICES ASSUME Rename(h) PROVE FALSE
    BY Zenon
  <2>1. PICK p, new, q : Replicate(h, [Request("RENAME", p, new) EXCEPT !.to = q])
    BY Zenon DEF Rename
  <2>2. [Request("RENAME", p, new) EXCEPT !.to = q].type = "RENAME"
    BY DEF Request
  <2> QED
    BY Zenon, <1>1, <2>1, <2>2
<1>3. ~Symlink(h) /\ ~Link(h)
  <2> SUFFICES ASSUME Symlink(h) \/ Link(h) PROVE FALSE
    BY Zenon
  <2>1. PICK type, p, q, text : /\ type = "SYMLINK" \/ type = "LINK"
                                /\ Replicate(h, [Request(type, p, q) EXCEPT !.text = text])
    BY Zenon DEF Symlink, Link
  <2>2. [Request(type, p, q) EXCEPT !.text = text].type = type
    BY DEF Request
  <2> QED
    BY Zenon, <1>1, <2>1, <2>2
<1>4. ~CopyFileRange(h)
  <2> SUFFICES ASSUME CopyFileRange(h) PROVE FALSE
    BY Zenon
  <2>1. PICK p, q, roff, off :
          Replicate(h, [Request("COPY_FILE_RANGE", p, q) EXCEPT !.roff = roff, !.off = off])
    BY Zenon DEF CopyFileRange
  <2>2. [Request("COPY_FILE_RANGE", p, q) EXCEPT !.roff = roff, !.off = off].type = "COPY_FILE_RANGE"
    BY DEF Request
  <2> QED
    BY Zenon, <1>1, <2>1, <2>2
<1> QED
  BY Zenon, <1>2, <1>3, <1>4

\* Every request is for a path of the workload, and for what the initiator has there.
LEMMA RequestsAimed ==
  ASSUME TreesInv, Apart(load), OnPaths, NEW h \in Hosts,
         \/ Create(h) \/ Mkdir(h) \/ Rmdir(h) \/ Setattr(h) \/ Unlink(h) \/ Write(h)
  PROVE  \E req : Aimed(h, req) /\ Replicate(h, req)
<1>0. /\ Paths = All(load) /\ DirPaths = load.dirs /\ FilePaths = load.files
      /\ \A p \in load.files : p \in All(load)
      /\ \A p \in load.dirs : p \in All(load) /\ p \in Seq(STRING)
  BY Zenon, PathsNamed DEF All
<1>1. ASSUME NEW req, Replicate(h, req) PROVE req.type \in load.types
  BY Zenon, <1>1 DEF Replicate, Types
<1>2. CASE Create(h)
  <2>1. PICK d, name, mode :
          /\ d \in DirsOf(h) /\ name \in NamesIn(d, FilePaths) /\ mode \in Modes
          /\ Replicate(h, [Request("CREATE", relativePath(d, name), <<>>) EXCEPT !.mode = mode])
    BY Zenon, <1>2 DEF Create
  <2>2. PICK p \in FilePaths : d = Front(p) /\ name = <<Last(p)>>
    BY Zenon, <2>1 DEF NamesIn
  <2>3. PICK req : req = [Request("CREATE", relativePath(d, name), <<>>) EXCEPT !.mode = mode]
    BY Zenon
  <2>4. req.type = "CREATE" /\ req.rel = d \o name /\ req.new = <<>> /\ req.mode = mode
    BY <2>3 DEF Request, relativePath
  <2>5. req.rel = p /\ p \in All(load)
    BY Zenon, <1>0, <2>2, <2>4, PathsNamed DEF Named
  <2>6. Aimed(h, req)
    BY Zenon, <1>1, <2>1, <2>3, <2>4, <2>5 DEF Aimed, FitApart, Asked, OpTypes, Modes
  <2> QED
    BY Zenon, <2>1, <2>3, <2>6
<1>3. CASE Mkdir(h)
  <2>1. PICK p \in DirPaths, mode \in Modes :
          Replicate(h, [Request("MKDIR", relativePath(<<>>, p), <<>>) EXCEPT !.mode = mode])
    BY Zenon, <1>3 DEF Mkdir
  <2>2. PICK req : req = [Request("MKDIR", relativePath(<<>>, p), <<>>) EXCEPT !.mode = mode]
    BY Zenon
  <2>3. p \in load.dirs /\ p \in Seq(STRING)
    BY Zenon, <1>0
  <2>4. req.type = "MKDIR" /\ req.rel = p /\ req.new = <<>>
    BY <2>2, <2>3 DEF Request, relativePath
  <2>5. Aimed(h, req)
    BY Zenon, <1>0, <1>1, <2>1, <2>2, <2>3, <2>4 DEF Aimed, FitApart, Asked, OpTypes
  <2> QED
    BY Zenon, <2>1, <2>2, <2>5
<1>4. CASE Rmdir(h)
  <2>1. PICK p \in DirPaths : tree[h][p].kind = "dir" /\ Replicate(h, Request("RMDIR", p, <<>>))
    BY Zenon, <1>4 DEF Rmdir
  <2>2. PICK req : req = Request("RMDIR", p, <<>>)
    BY Zenon
  <2>3. req.type = "RMDIR" /\ req.rel = p /\ req.new = <<>>
    BY <2>2 DEF Request
  <2>4. Aimed(h, req)
    BY Zenon, <1>0, <1>1, <2>1, <2>2, <2>3 DEF Aimed, FitApart, Asked, OpTypes
  <2> QED
    BY Zenon, <2>1, <2>2, <2>4
<1>5. CASE Setattr(h)
  <2>1. PICK p \in Paths, mode \in Modes :
          Replicate(h, [Request("SETATTR", p, <<>>) EXCEPT !.mode = mode])
    BY Zenon, <1>5 DEF Setattr
  <2>2. PICK req : req = [Request("SETATTR", p, <<>>) EXCEPT !.mode = mode]
    BY Zenon
  <2>3. req.type = "SETATTR" /\ req.rel = p /\ req.new = <<>> /\ req.mode = mode
    BY <2>2 DEF Request
  <2>4. Aimed(h, req)
    BY Zenon, <1>0, <1>1, <2>1, <2>2, <2>3 DEF Aimed, FitApart, Asked, OpTypes, Modes
  <2> QED
    BY Zenon, <2>1, <2>2, <2>4
<1>6. CASE Unlink(h)
  <2>1. PICK p \in FilePaths : Replicate(h, Request("UNLINK", p, <<>>))
    BY Zenon, <1>6 DEF Unlink
  <2>2. PICK req : req = Request("UNLINK", p, <<>>)
    BY Zenon
  <2>3. req.type = "UNLINK" /\ req.rel = p /\ req.new = <<>>
    BY <2>2 DEF Request
  <2>4. Aimed(h, req)
    BY Zenon, <1>0, <1>1, <2>1, <2>2, <2>3 DEF Aimed, FitApart, Asked, OpTypes
  <2> QED
    BY Zenon, <2>1, <2>2, <2>4
<1>7. CASE Write(h)
  <2>1. PICK off \in Offsets, v \in Blocks :
          /\ handle[h] # NoHandle
          /\ Replicate(h, [Request("WRITE", handle[h].path, <<>>) EXCEPT !.off = off, !.val = v])
    BY Zenon, <1>7 DEF Write
  <2>2. PICK req : req = [Request("WRITE", handle[h].path, <<>>) EXCEPT !.off = off, !.val = v]
    BY Zenon
  <2>3. req.type = "WRITE" /\ req.rel = handle[h].path /\ req.new = <<>> /\ req.off = off
    BY <2>2 DEF Request
  <2>4. "WRITE" \in load.types
    BY Zenon, <1>1, <2>1, <2>2, <2>3
  <2>5. /\ handle[h].at = handle[h].path /\ handle[h].path \in All(load)
        /\ tree[h][handle[h].path].kind = "file"
    BY Zenon, <2>1, <2>4 DEF OnPaths, Holding, Held, Types
  <2>6. Aimed(h, req)
    BY Zenon, <2>1, <2>3, <2>4, <2>5 DEF Aimed, FitApart, Asked, OpTypes, Offsets
  <2> QED
    BY Zenon, <2>1, <2>2, <2>6
<1> QED
  BY Zenon, <1>2, <1>3, <1>4, <1>5, <1>6, <1>7

\* A request that was agreed upon is the only one for its path, where the peers are
\* alike.
LEMMA ReplicateApart ==
  ASSUME TreesInv, Apart(load), OnPaths, NEW h \in Hosts, NEW req, Aimed(h, req),
         Replicate(h, req), UNCHANGED load
  PROVE  OnPaths'
<1>1. op[h] = NoOp /\ UNCHANGED <<load, tree, handle, outcome>>
  BY Zenon DEF Replicate
<1>2. CASE UNCHANGED <<op, todo>>
  <2>1. ASSUME NEW i, NEW t, Midway(i, t) PROVE Midway(i, t)'
    BY Zenon, <1>1, <1>2, <2>1 DEF Midway
  <2>2. Underway'
    BY Zenon, <1>2, <2>1 DEF OnPaths, Underway
  <2>3. Settled'
    BY Zenon, <1>1, <1>2 DEF OnPaths, Settled, Free
  <2>4. Holding' /\ Shaped'
    BY Zenon, <1>1 DEF OnPaths, Holding, Held, Types, Shaped
  <2>5. Idle' /\ OneEach'
    BY Zenon, <1>1, <1>2 DEF OnPaths, Idle, OneEach
  <2> QED
    BY Zenon, <2>2, <2>3, <2>4, <2>5 DEF OnPaths
<1>3. CASE /\ op' = [op EXCEPT ![h] = req] /\ todo' = [todo EXCEPT ![h] = Hosts]
           /\ \A i \in Hosts \ {h} : op[i] # NoOp => ~Conflict(op[i], req)
  <2>1. FitApart(load, tree[h], req) /\ Asked(load, req) /\ req.rel \in All(load) /\ req.new = <<>>
    BY Zenon DEF Aimed, FitApart
  <2>2. req # NoOp
    BY Zenon, <2>1, AskedIsOp
  <2>3. /\ op'[h] = req /\ todo'[h] = Hosts
        /\ \A i \in Hosts : i # h => op'[i] = op[i] /\ todo'[i] = todo[i]
    BY <1>3 DEF TreesInv
  <2>4. \A i \in Hosts : op[i] # NoOp => op[i].new = <<>>
    BY Zenon DEF OnPaths, Underway, Midway, FitApart
  <2>5. Free(req.rel)
    BY Zenon, <1>1, <1>3, <2>1, <2>4 DEF Free, Conflict
  <2>6. \A g \in Hosts : Like(load, tree[h][req.rel], tree[g][req.rel])
    BY Zenon, <2>1, <2>5 DEF OnPaths, Settled
  <2>7. Whole(load) => outcome[h] \in Seq({Mirrored(tree[h], req).ok})
    <3>1. outcome[h] = <<>>
      BY Zenon, <1>1 DEF OnPaths, Idle
    <3> QED
      BY <3>1
  <2>8. Midway(h, tree[h])'
    <3>1. SoundTree(load, tree[h]) /\ (req.type = "WRITE" => handle[h].at = req.rel)
      BY Zenon DEF OnPaths, Shaped, Aimed
    <3> QED
      BY Zenon, <1>1, <2>1, <2>3, <2>6, <2>7, <3>1 DEF Midway
  <2>9. Underway'
    <3> SUFFICES ASSUME NEW i \in Hosts, op'[i] # NoOp PROVE \E t : Midway(i, t)'
      BY Zenon DEF Underway
    <3>1. CASE i = h
      BY Zenon, <2>8, <3>1
    <3>2. CASE i # h
      <4>1. PICK t : Midway(i, t)
        BY Zenon, <2>3, <3>2 DEF OnPaths, Underway
      <4>2. Midway(i, t)'
        BY Zenon, <1>1, <2>3, <3>2, <4>1 DEF Midway
      <4> QED
        BY Zenon, <4>2
    <3> QED
      BY Zenon, <3>1, <3>2
  <2>10. OneEach'
    <3> SUFFICES ASSUME NEW i \in Hosts, NEW j \in Hosts,
                        op'[i] # NoOp, op'[j] # NoOp, op'[i].rel = op'[j].rel
                 PROVE  i = j
      BY Zenon DEF OneEach
    <3>1. CASE i = h
      BY Zenon, <2>3, <2>5, <3>1 DEF Free
    <3>2. CASE j = h
      BY Zenon, <2>3, <2>5, <3>2 DEF Free
    <3>3. CASE i # h /\ j # h
      BY Zenon, <2>3, <3>3 DEF OnPaths, OneEach
    <3> QED
      BY Zenon, <3>1, <3>2, <3>3
  <2>11. Idle'
    BY Zenon, <1>1, <2>2, <2>3 DEF OnPaths, Idle
  <2>12. Settled'
    <3> SUFFICES ASSUME NEW p \in All(load), Free(p)', NEW g \in Hosts, NEW k \in Hosts
                 PROVE  Like(load, tree[g][p], tree[k][p])
      BY Zenon, <1>1 DEF Settled
    <3>1. Free(p)
      BY Zenon, <1>1, <2>3 DEF Free
    <3> QED
      BY Zenon, <3>1 DEF OnPaths, Settled
  <2>13. Shaped' /\ Holding'
    BY Zenon, <1>1 DEF OnPaths, Shaped, Holding, Held, Types
  <2> QED
    BY Zenon, <2>9, <2>10, <2>11, <2>12, <2>13 DEF OnPaths
<1>4. ASSUME NEW i \in Hosts \ {h}, op[i] # NoOp PROVE ~Conflict(op[i], req)
  BY Zenon, <1>4 DEF Replicate, Apart, Rivals
<1> QED
  BY Zenon, <1>2, <1>3, <1>4 DEF Replicate

Kept(hd, initiator, req, x) ==
  x = hd \/ (req.type = "CREATE" /\ initiator /\ x = [path |-> req.rel, at |-> req.rel])

\* Of a workload with writes, only Create changes a handle.
LEMMA HandleApart ==
  ASSUME NEW hd, NEW initiator, NEW req, Apart(load), "WRITE" \in Types, req.type \in Types
  PROVE  Kept(hd, initiator, req, Handle(hd, initiator, req))
<1>1. req.type # "RENAME" /\ req.type # "UNLINK"
  BY Zenon DEF Apart, Types
<1> QED
  BY Zenon, <1>1 DEF Handle, Kept

\* Opening a file.
LEMMA OpenApart ==
  ASSUME TreesInv, OnPaths, NEW h \in Hosts, Open(h), UNCHANGED load
  PROVE  OnPaths'
<1>1. PICK p \in FilePaths : /\ handle' = [handle EXCEPT ![h] = [path |-> p, at |-> p]]
                             /\ tree[h][p].kind = "file" /\ op[h] = NoOp
                             /\ UNCHANGED <<load, tree, op, todo, outcome>>
  BY Zenon DEF Open
<1>2. PICK hd : hd = [path |-> p, at |-> p]
  BY Zenon
<1>3. hd.at = p /\ hd.path = p
  BY <1>2
<1>4. /\ handle' = [g \in Hosts |-> handle'[g]] /\ handle'[h] = hd
      /\ \A g \in Hosts : g # h => handle'[g] = handle[g]
  BY <1>1, <1>2 DEF OnPaths, Shaped
<1>5. p \in All(load)
  BY Zenon DEF All, FilePaths
<1>6. Holding'
  <2> SUFFICES ASSUME NEW g \in Hosts, "WRITE" \in Types PROVE Held(g)'
    BY Zenon, <1>1 DEF Holding, Types
  <2>1. CASE g = h
    BY Zenon, <1>1, <1>3, <1>4, <1>5, <2>1 DEF Held
  <2>2. CASE g # h
    BY Zenon, <1>1, <1>4, <2>2 DEF Held, OnPaths, Holding
  <2> QED
    BY Zenon, <2>1, <2>2
<1>7. Underway'
  <2> SUFFICES ASSUME NEW i \in Hosts, op[i] # NoOp PROVE \E t : Midway(i, t)'
    BY Zenon, <1>1 DEF Underway
  <2>1. PICK t : Midway(i, t)
    BY Zenon DEF OnPaths, Underway
  <2>2. handle'[i] = handle[i]
    BY Zenon, <1>1, <1>4
  <2>3. Midway(i, t)'
    BY Zenon, <1>1, <2>1, <2>2 DEF Midway
  <2> QED
    BY Zenon, <2>3
<1>8. Settled'
  BY Zenon, <1>1 DEF OnPaths, Settled, Free
<1>9. Idle' /\ OneEach'
  BY Zenon, <1>1 DEF OnPaths, Idle, OneEach
<1>10. Shaped'
  BY Zenon, <1>1, <1>4 DEF OnPaths, Shaped
<1> QED
  BY Zenon, <1>6, <1>7, <1>8, <1>9, <1>10 DEF OnPaths

\* A host that performs an operation changes nothing on the paths of the others.
LEMMA ApplyApart ==
  ASSUME TreesInv, Apart(load), OnPaths, NEW h \in Hosts, NEW i \in Hosts, Apply(h, i),
         UNCHANGED load
  PROVE  OnPaths'
<1>1. h \in todo[i] /\ op[i] # NoOp
  BY Zenon DEF Apply, OnPaths, Idle
<1>2. PICK t : Midway(i, t)
  BY Zenon, <1>1 DEF OnPaths, Underway
<1> PICK req, done : /\ req = op[i]
                     /\ done = IF h = i THEN Local(tree[h], handle[h], req) ELSE Mirrored(tree[h], req)
  BY Zenon
<1> PICK p : p = req.rel
  BY Zenon
<1>3. /\ SoundTree(load, t) /\ FitApart(load, t, req) /\ p \in All(load) /\ req.type \in Types
      /\ Like(load, t[p], tree[h][p]) /\ SoundTree(load, tree[h])
      /\ req.type = "WRITE" => handle[i].at = p
  BY Zenon, <1>1, <1>2 DEF Midway, FitApart, OnPaths, Shaped, Types
<1>4. RepeatsAt(load, t, tree[h], req, done)
  <2>1. load \in Workloads /\ Like(load, t[req.rel], tree[h][req.rel])
    BY Zenon, <1>3 DEF TreesInv
  <2>2. /\ (req.type = "WRITE" => handle[h].at = req.rel)
             => RepeatsAt(load, t, tree[h], req, Local(tree[h], handle[h], req))
        /\ RepeatsAt(load, t, tree[h], req, Mirrored(tree[h], req))
    BY Zenon, <1>3, <2>1, TwinsAt
  <2>3. CASE h = i
    BY Zenon, <1>3, <2>2, <2>3
  <2>4. CASE h # i
    BY Zenon, <2>2, <2>4
  <2> QED
    BY Zenon, <2>3, <2>4
<1>5. /\ tree' = [tree EXCEPT ![h] = done.tree]
      /\ handle' = [handle EXCEPT ![h] = IF done.ok THEN Handle(@, h = i, req) ELSE @]
      /\ outcome' = [outcome EXCEPT ![i] = Append(@, done.ok)]
      /\ todo' = [todo EXCEPT ![i] = @ \ {h}]
      /\ UNCHANGED <<load, op>>
  BY Zenon DEF Apply
<1>6. /\ tree'[h] = done.tree /\ \A g \in Hosts : g # h => tree'[g] = tree[g]
      /\ todo'[i] = todo[i] \ {h} /\ \A j \in Hosts : j # i => todo'[j] = todo[j]
      /\ outcome'[i] = Append(outcome[i], done.ok)
      /\ \A j \in Hosts : j # i => outcome'[j] = outcome[j]
      /\ outcome' = [j \in Hosts |-> outcome'[j]]
  BY Zenon, <1>5 DEF TreesInv, OnPaths, Shaped
<1>7. /\ handle' = [g \in Hosts |-> handle'[g]]
      /\ handle'[h] = IF done.ok THEN Handle(handle[h], h = i, req) ELSE handle[h]
      /\ \A g \in Hosts : g # h => handle'[g] = handle[g]
  BY Zenon, <1>5 DEF OnPaths, Shaped
<1>8. ASSUME NEW g \in Hosts, NEW q \in All(load), q # p PROVE tree'[g][q] = tree[g][q]
  <2>1. \A r \in All(load) : r # p => done.tree[r] = tree[h][r]
    BY Zenon, <1>4 DEF RepeatsAt
  <2>2. CASE g = h
    BY Zenon, <1>6, <1>8, <2>1, <2>2
  <2>3. CASE g # h
    BY Zenon, <1>6, <2>3
  <2> QED
    BY Zenon, <2>2, <2>3
<1>9. "WRITE" \in Types =>
        \/ handle'[h] = handle[h]
        \/ /\ req.type = "CREATE" /\ h = i /\ done.ok
           /\ handle'[h] = [path |-> p, at |-> p]
  <2> SUFFICES ASSUME "WRITE" \in Types
               PROVE  \/ handle'[h] = handle[h]
                      \/ /\ req.type = "CREATE" /\ h = i /\ done.ok
                         /\ handle'[h] = [path |-> p, at |-> p]
    BY Zenon
  <2>1. Kept(handle[h], h = i, req, Handle(handle[h], h = i, req))
    BY Zenon, <1>3, HandleApart
  <2> QED
    BY Zenon, <1>7, <2>1 DEF Kept
<1>10. Shaped'
  <2>1. \A g \in Hosts : SoundTree(load, tree'[g])
    BY Zenon, <1>4, <1>6 DEF RepeatsAt, OnPaths, Shaped
  <2> QED
    BY Zenon, <1>5, <1>6, <1>7, <2>1 DEF Shaped
<1>11. Idle' /\ OneEach'
  <2>1. ASSUME NEW j \in Hosts, op'[j] = NoOp PROVE todo'[j] = {} /\ outcome'[j] = <<>>
    <3>1. j # i /\ op[j] = NoOp
      BY Zenon, <1>1, <1>5, <2>1
    <3> QED
      BY Zenon, <1>6, <3>1 DEF OnPaths, Idle
  <2> QED
    BY Zenon, <1>5, <2>1 DEF OnPaths, Idle, OneEach
<1>12. Settled'
  <2> SUFFICES ASSUME NEW q \in All(load), Free(q)', NEW g \in Hosts, NEW k \in Hosts
               PROVE  Like(load, tree'[g][q], tree'[k][q])
    BY Zenon, <1>5 DEF Settled
  <2>1. Free(q) /\ q # p
    BY Zenon, <1>1, <1>5 DEF Free
  <2>2. Like(load, tree[g][q], tree[k][q])
    BY Zenon, <2>1 DEF OnPaths, Settled
  <2> QED
    BY Zenon, <1>8, <2>1, <2>2
<1>13. Midway(i, t)'
  <2>1. ASSUME NEW g \in Hosts
        PROVE  IF g \in todo'[i] THEN Like(load, t[p], tree'[g][p])
               ELSE Like(load, Mirrored(t, req).tree[p], tree'[g][p])
    <3>1. CASE g = h
      BY Zenon, <1>4, <1>6, <3>1 DEF RepeatsAt
    <3>2. CASE g # h
      BY Zenon, <1>2, <1>6, <3>2 DEF Midway
    <3> QED
      BY Zenon, <3>1, <3>2
  <2>2. Whole(load) => outcome'[i] \in Seq({Mirrored(t, req).ok})
    <3> SUFFICES ASSUME Whole(load) PROVE outcome'[i] \in Seq({Mirrored(t, req).ok})
      BY Zenon
    <3> PICK v : v = Mirrored(t, req).ok
      BY Zenon
    <3>1. outcome[i] \in Seq({v}) /\ done.ok = v
      BY Zenon, <1>2, <1>4 DEF Midway, RepeatsAt
    <3>2. Append(outcome[i], v) \in Seq({v})
      BY <3>1
    <3> QED
      BY Zenon, <1>6, <3>1, <3>2
  <2>3. req.type = "WRITE" => handle'[i].at = p
    <3> SUFFICES ASSUME req.type = "WRITE" PROVE handle'[i].at = p
      BY Zenon
    <3>0. "WRITE" \in Types /\ req.type # "CREATE"
      BY Zenon, <1>3
    <3>1. handle'[i] = handle[i]
      BY Zenon, <1>7, <1>9, <3>0
    <3> QED
      BY Zenon, <1>3, <3>1
  <2> QED
    BY Zenon, <1>3, <1>5, <2>1, <2>2, <2>3 DEF Midway
<1>14. Underway'
  <2> SUFFICES ASSUME NEW j \in Hosts, op[j] # NoOp PROVE \E v : Midway(j, v)'
    BY Zenon, <1>5 DEF Underway
  <2>1. CASE j = i
    BY Zenon, <1>13, <2>1
  <2>2. CASE j # i
    <3>1. PICK v : Midway(j, v)
      BY Zenon DEF OnPaths, Underway
    <3>2. op[j].rel # p /\ op[j].rel \in All(load) /\ op[j].type \in Types
      BY Zenon, <1>1, <2>2, <3>1 DEF OnPaths, OneEach, Midway, FitApart, Types
    <3>3. \A g \in Hosts : tree'[g][op[j].rel] = tree[g][op[j].rel]
      BY Zenon, <1>8, <3>2
    <3>4. op[j].type = "WRITE" => handle'[j] = handle[j]
      BY Zenon, <1>7, <1>9, <2>2, <3>2
    <3>a. todo'[j] = todo[j] /\ outcome'[j] = outcome[j] /\ UNCHANGED <<load, op>>
      BY Zenon, <1>5, <1>6, <2>2
    <3>5. Midway(j, v)'
      BY Zenon, <3>1, <3>3, <3>4, <3>a DEF Midway
    <3> QED
      BY Zenon, <3>5
  <2> QED
    BY Zenon, <2>1, <2>2
<1>15. Holding'
  <2> SUFFICES ASSUME NEW g \in Hosts, "WRITE" \in Types PROVE Held(g)'
    BY Zenon, <1>5 DEF Holding, Types
  <2>1. Held(g)
    BY Zenon DEF OnPaths, Holding
  <2>2. req.type # "UNLINK"
    BY Zenon, <1>3 DEF Apart, Types
  <2>3. ASSUME NEW q \in All(load), tree[g][q].kind = "file" PROVE tree'[g][q].kind = "file"
    <3>1. CASE q = p /\ g = h
      BY Zenon, <1>4, <1>6, <2>2, <2>3, <3>1 DEF RepeatsAt
    <3>2. CASE q # p
      BY Zenon, <1>8, <2>3, <3>2
    <3>3. CASE g # h
      BY Zenon, <1>6, <2>3, <3>3
    <3> QED
      BY Zenon, <3>1, <3>2, <3>3
  <2>4. CASE handle'[g] = handle[g]
    BY Zenon, <1>5, <2>1, <2>3, <2>4 DEF Held
  <2>5. CASE handle'[g] # handle[g]
    <3>1. g = h /\ req.type = "CREATE" /\ done.ok /\ handle'[g] = [path |-> p, at |-> p]
      BY Zenon, <1>7, <1>9, <2>5
    <3>2. handle'[g].at = p /\ handle'[g].path = p
      BY <3>1
    <3>3. tree'[g][p].kind = "file"
      BY Zenon, <1>4, <1>6, <3>1 DEF RepeatsAt
    <3> QED
      BY Zenon, <1>3, <1>5, <3>2, <3>3 DEF Held
  <2> QED
    BY Zenon, <2>4, <2>5
<1> QED
  BY Zenon, <1>10, <1>11, <1>12, <1>14, <1>15 DEF OnPaths

\* When all hosts have performed it, they are alike at its path.
LEMMA FinishApart ==
  ASSUME TreesInv, OnPaths, NEW i \in Hosts, Finish(i), UNCHANGED load
  PROVE  OnPaths'
<1>1. PICK t : Midway(i, t)
  BY Zenon DEF Finish, OnPaths, Underway
<1>2. /\ op' = [op EXCEPT ![i] = NoOp] /\ outcome' = [outcome EXCEPT ![i] = <<>>]
      /\ op[i] # NoOp /\ todo[i] = {} /\ UNCHANGED <<load, tree, handle, todo>>
  BY Zenon DEF Finish
<1>3. /\ op'[i] = NoOp /\ outcome'[i] = <<>>
      /\ \A j \in Hosts : j # i => op'[j] = op[j] /\ outcome'[j] = outcome[j]
      /\ outcome' = [j \in Hosts |-> outcome'[j]]
  BY Zenon, <1>2 DEF TreesInv, OnPaths, Shaped
<1>4. Shaped' /\ Holding'
  BY Zenon, <1>2, <1>3 DEF OnPaths, Shaped, Holding, Held, Types
<1>5. Idle' /\ OneEach'
  <2>1. ASSUME NEW j \in Hosts, op'[j] = NoOp PROVE todo'[j] = {} /\ outcome'[j] = <<>>
    BY Zenon, <1>2, <1>3, <2>1 DEF OnPaths, Idle
  <2>2. ASSUME NEW j \in Hosts, NEW k \in Hosts, op'[j] # NoOp, op'[k] # NoOp, op'[j].rel = op'[k].rel
        PROVE  j = k
    <3>1. op'[j] = op[j] /\ op'[k] = op[k]
      BY Zenon, <1>3, <2>2
    <3> QED
      BY Zenon, <2>2, <3>1 DEF OnPaths, OneEach
  <2> QED
    BY Zenon, <2>1, <2>2 DEF Idle, OneEach
<1>6. Settled'
  <2> SUFFICES ASSUME NEW p \in All(load), Free(p)', NEW g \in Hosts, NEW h \in Hosts
               PROVE  Like(load, tree[g][p], tree[h][p])
    BY Zenon, <1>2 DEF Settled
  <2>1. CASE p = op[i].rel
    <3>1. \A k \in Hosts : Like(load, Mirrored(t, op[i]).tree[p], tree[k][p])
      BY Zenon, <1>1, <1>2, <2>1 DEF Midway
    <3> QED
      BY Zenon, <3>1 DEF Like
  <2>2. CASE p # op[i].rel
    <3>1. Free(p)
      BY Zenon, <1>3, <2>2 DEF Free
    <3> QED
      BY Zenon, <3>1 DEF OnPaths, Settled
  <2> QED
    BY Zenon, <2>1, <2>2
<1>7. Underway'
  <2> SUFFICES ASSUME NEW j \in Hosts, op'[j] # NoOp PROVE \E v : Midway(j, v)'
    BY Zenon DEF Underway
  <2>1. j # i /\ op'[j] = op[j] /\ outcome'[j] = outcome[j]
    BY Zenon, <1>3
  <2>2. PICK v : Midway(j, v)
    BY Zenon, <2>1 DEF OnPaths, Underway
  <2>3. Midway(j, v)'
    BY Zenon, <1>2, <2>1, <2>2 DEF Midway
  <2> QED
    BY Zenon, <2>3
<1> QED
  BY Zenon, <1>4, <1>5, <1>6, <1>7 DEF OnPaths

\* Operations on different paths, the peers stay alike where nothing is in flight.
LEMMA NextApart ==
  ASSUME TreesInv, Apart(load) => OnPaths, [Next]_vars
  PROVE  (Apart(load) => OnPaths)'
<1>0. UNCHANGED load
  BY Zenon DEF Next, vars
<1> SUFFICES ASSUME Apart(load), OnPaths PROVE OnPaths'
  BY Zenon, <1>0
<1>1. CASE UNCHANGED vars
  <2>1. UNCHANGED <<load, tree, handle, op, todo, outcome>>
    BY Zenon, <1>1 DEF vars
  <2>2. ASSUME NEW i, NEW t, Midway(i, t) PROVE Midway(i, t)'
    BY Zenon, <2>1, <2>2 DEF Midway
  <2>3. Underway' /\ Settled'
    BY Zenon, <2>1, <2>2 DEF OnPaths, Underway, Settled, Free
  <2>4. Shaped' /\ Idle' /\ OneEach' /\ Holding'
    BY Zenon, <2>1 DEF OnPaths, Shaped, Idle, OneEach, Holding, Held, Types
  <2> QED
    BY Zenon, <2>3, <2>4 DEF OnPaths
<1>2. ASSUME NEW h \in Hosts,
             \/ Create(h) \/ Mkdir(h) \/ Rmdir(h) \/ Setattr(h) \/ Unlink(h) \/ Write(h)
      PROVE  OnPaths'
  <2>1. PICK req : Aimed(h, req) /\ Replicate(h, req)
    BY Zenon, <1>2, RequestsAimed
  <2> QED
    BY Zenon, <1>0, <2>1, ReplicateApart
<1>3. ASSUME NEW h \in Hosts, Open(h) PROVE OnPaths'
  BY Zenon, <1>0, <1>3, OpenApart
<1>4. ASSUME NEW h \in Hosts, Finish(h) \/ \E i \in Hosts : Apply(h, i) PROVE OnPaths'
  BY Zenon, <1>0, <1>4, ApplyApart, FinishApart
<1> QED
  BY Zenon, <1>1, <1>2, <1>3, <1>4, OthersNotAsked DEF Next

\* At the start all peers hold the tree of the workload.
LEMMA InitApart ==
  ASSUME Init, Apart(load)
  PROVE  OnPaths
<1>1. TreesInv
  BY Zenon, InitTrees
<1>2. /\ outcome = [h \in Hosts |-> outcome[h]] /\ handle = [h \in Hosts |-> handle[h]]
      /\ \A h \in Hosts : /\ tree[h] = load.tree /\ op[h] = NoOp /\ handle[h] = NoHandle
                          /\ todo[h] = {} /\ outcome[h] = <<>>
  BY DEF Init
<1>3. ASSUME NEW h \in Hosts PROVE SoundTree(load, tree[h])
  <2>1. IsTree(load, tree[h])
    BY Zenon, <1>1 DEF TreesInv
  <2>2. \A p \in All(load) : SoundNode(load, p, load.tree[p])
    BY Zenon DEF Apart, SoundNode, SameDir, Whole
  <2> QED
    BY Zenon, <1>2, <2>1, <2>2 DEF SoundTree
<1>4. Shaped
  BY Zenon, <1>2, <1>3 DEF Shaped
<1>5. Idle /\ OneEach /\ Underway /\ Holding
  BY Zenon, <1>2 DEF Idle, OneEach, Underway, Holding, Held
<1>6. Settled
  BY Zenon, <1>2 DEF Settled, Like
<1> QED
  BY Zenon, <1>4, <1>5, <1>6 DEF OnPaths

ApartInv == TreesInv /\ (Apart(load) => OnPaths)

\* fuse.go and mirror.go: with any number of operations in flight at once, each on a
\* path of its own because the users keep to that, the peers are alike on every path
\* on which there is none.
THEOREM ApartInvHolds == Spec => []ApartInv
<1>1. Init => ApartInv
  BY Zenon, InitTrees, InitApart DEF ApartInv
<1>2. ApartInv /\ [Next]_vars => ApartInv'
  BY Zenon, NextTrees, NextApart DEF ApartInv
<1> QED
  BY <1>1, <1>2, PTL DEF Spec

\* Without operations in flight no path has one.
LEMMA QuietIsFree == Quiet => \A p : Free(p)
BY Zenon DEF Quiet, Free

\* fuse.go and mirror.go: whatever initiators do at once on different paths, to the
\* files in a tree of directories, or to the files and directories of the root, whole
\* writes included, the directories of all peers look the same to their users when it
\* is done. Operations on one path at once are left out: they may reach two peers in
\* opposite orders.
THEOREM ParallelSameTrees == Spec => [](Apart(load) /\ Whole(load) => SameTrees)
<1>1. ApartInv => (Apart(load) /\ Whole(load) => SameTrees)
  <2> SUFFICES ASSUME OnPaths, Whole(load), Quiet, NEW g \in Hosts, NEW h \in Hosts
               PROVE  View(tree[g]) = View(tree[h])
    BY Zenon DEF ApartInv, SameTrees, SameContents
  <2>1. ASSUME NEW p \in All(load) PROVE tree[g][p] = tree[h][p]
    BY Zenon, <2>1, QuietIsFree DEF OnPaths, Settled, Like
  <2>2. tree[g] = [p \in All(load) |-> tree[g][p]] /\ tree[h] = [p \in All(load) |-> tree[h][p]]
    BY Zenon DEF OnPaths, Shaped, SoundTree, IsTree
  <2>3. tree[g] = tree[h]
    BY <2>1, <2>2
  <2> QED
    BY Zenon, <2>3
<1> QED
  BY <1>1, ApartInvHolds, PTL

\* fuse.go and mirror.go: as long as two users do not work on one path at once, the
\* peers hold the same names and the same kind of thing under each, also where files
\* are written to in pieces, or when they are read-only, and may differ.
THEOREM ParallelSamePaths == Spec => [](Apart(load) => SamePaths)
<1>1. ApartInv => (Apart(load) => SamePaths)
  <2> SUFFICES ASSUME TreesInv, OnPaths, Quiet, NEW g \in Hosts, NEW h \in Hosts, NEW p \in Paths
               PROVE  tree[g][p].kind = tree[h][p].kind
    BY Zenon DEF ApartInv, SamePaths
  <2>1. p \in All(load) /\ Free(p)
    BY Zenon, PathsNamed, QuietIsFree
  <2> QED
    BY Zenon, <2>1 DEF OnPaths, Settled, Like
<1> QED
  BY <1>1, ApartInvHolds, PTL

\* An operation in flight worked on all the peers that performed it, or on none.
AllOrNone == \A i \in Hosts : \A j, k \in DOMAIN outcome[i] : outcome[i][j] = outcome[i][k]

\* mirror.go, Mirror: what the FUSE node of the initiator could do, Mirror can do on
\* every peer, although others are in the middle of operations on other paths.
THEOREM ParallelSameOutcome == Spec => [](Apart(load) /\ Whole(load) => AllOrNone /\ SameOutcome)
<1>1. ApartInv => (Apart(load) /\ Whole(load) => AllOrNone)
  <2> SUFFICES ASSUME OnPaths, Whole(load), NEW i \in Hosts,
                      NEW j \in DOMAIN outcome[i], NEW k \in DOMAIN outcome[i]
               PROVE  outcome[i][j] = outcome[i][k]
    BY Zenon DEF ApartInv, AllOrNone
  <2>1. CASE op[i] = NoOp
    <3>1. outcome[i] = <<>>
      BY Zenon, <2>1 DEF OnPaths, Idle
    <3> QED
      BY <3>1
  <2>2. CASE op[i] # NoOp
    <3>1. PICK v : outcome[i] \in Seq({v})
      BY Zenon, <2>2 DEF OnPaths, Underway, Midway
    <3> QED
      BY <3>1
  <2> QED
    BY Zenon, <2>1, <2>2
<1>2. AllOrNone => SameOutcome
  BY Zenon DEF AllOrNone, SameOutcome
<1> QED
  BY <1>1, <1>2, ApartInvHolds, PTL
==============================================================================
