----------------------------- MODULE FileSystem ------------------------------
(***************************************************************************)
(* rfs and mirror together: every peer serves its directory through FUSE;  *)
(* an operation is consulted with the local mirror, put to the vote, then  *)
(* performed by the FUSE node on the initiator and by Mirror on the        *)
(* others, each in its own time. The vote is one step here: module Host    *)
(* shows that only what all peers acknowledge is applied. A peer starts    *)
(* its next operation when all have performed its last one.                *)
(*                                                                         *)
(* What the kernel guarantees is external: it asks for an operation on     *)
(* names it found to exist, or not to exist, at the initiator, and renames *)
(* nothing to itself.                                                      *)
(***************************************************************************)
EXTENDS Mirror

CONSTANTS
  Hosts,
  Workloads     \* what the users of an instance may do: records, see below

\* Paths are sequences of names, and the tree at the start has a node for each.
ASSUME WorkloadsAssumption ==
  \A w \in Workloads :
    /\ \A p \in w.dirs \cup w.files : p \in Seq(STRING) /\ p # <<>>
    /\ \A p \in w.dirs : Len(p) = 1
    /\ w.dirs \cap w.files = {}
    /\ w.tree = [p \in w.dirs \cup w.files |-> w.tree[p]]
    /\ \A p \in w.dirs \cup w.files : IsNode(w.tree[p])
    /\ \A p \in w.files : w.tree[p].kind # "dir"

VARIABLES
  load,         \* the workload of this behaviour
  tree,         \* the directory of each host
  handle,       \* its open file: the path rootFile recorded, and the place of the file
  op,           \* the operation each initiator has in flight
  todo,         \* hosts that did not perform it yet
  outcome,      \* how it went on the hosts that did
  down          \* hosts whose process panicked

vars == <<load, tree, handle, op, todo, outcome, down>>

\* The fields of a workload: the operations, the paths that may hold a directory
\* (all of length one), and a file or a link, the directories whose entries are
\* renamed, whether directories are renamed onto others, the modes of CREATE, MKDIR
\* and SETATTR, the offsets of WRITE and COPY_FILE_RANGE, the contents of WRITE, the
\* tree at the start, and whether operations of two initiators may overlap, also when
\* they are rivals.
Types == load.types
DirPaths == load.dirs
FilePaths == load.files
RenameDirs == load.from
Onto == load.onto
Modes == load.modes
Offsets == load.offsets
Blocks == load.blocks
Parallel == load.parallel
Rivals == load.rivals

Paths == DirPaths \cup FilePaths
NoOp == [type |-> "none"]
NoHandle == [path |-> <<>>, at |-> <<>>]

\* A request with its text and to: what the local operation is called with.
Request(type, rel, new) ==
  [type |-> type, rel |-> rel, new |-> new, text |-> <<>>, to |-> new,
   mode |-> "rw", off |-> 0, roff |-> 0, val |-> 0]

\* The directories a node may be in: the root, and those the host has.
DirsOf(h) == {<<>>} \cup {p \in DirPaths : tree[h][p].kind = "dir"}

\* relativePath: the name joined to the path of the directory.
relativePath(d, name) == d \o name

NamesIn(d, ps) == {<<Last(p)>> : p \in {q \in ps : Front(q) = d}}

TypeOK ==
  /\ tree \in [Hosts -> [Paths -> {Absent}
                 \cup [kind : {"dir"}, mode : {"rw", "ro", "special"}]
                 \cup [kind : {"file"}, mode : {"rw", "ro", "special"}, data : Seq(Nat)]
                 \cup [kind : {"link"}, text : Seq({Last(p) : p \in Paths}), abs : BOOLEAN]]]
  /\ todo \in [Hosts -> SUBSET Hosts]
  /\ down \subseteq Hosts
  /\ \A h \in Hosts : todo[h] # {} => op[h] # NoOp

Init ==
  /\ load \in Workloads
  /\ tree = [h \in Hosts |-> load.tree]
  /\ handle = [h \in Hosts |-> NoHandle]
  /\ op = [h \in Hosts |-> NoOp]
  /\ todo = [h \in Hosts |-> {}]
  /\ outcome = [h \in Hosts |-> <<>>]
  /\ down = {}

-----------------------------------------------------------------------------
(* The vote. *)

\* The resolver takes two requests for rivals when both paths are equal.
Conflict(a, b) == a.rel = b.rel /\ a.new = b.new

\* rfs.replicate: the local mirror is consulted, then all others. A nil
\* answer passes locally, and is dereferenced by handleTransaction elsewhere. A
\* request with a rival in flight may be refused, or may pass: that depends on its
\* rank, and on the tables the rival is still in (module Host).
Replicate(h, req) ==
  LET mine == Consult(tree[h], req)
      broken == {g \in Hosts : IF g = h THEN mine = "panic"
                               ELSE mine \in {"ACK", "nil"} /\ Consult(tree[g], req) \in {"nil", "panic"}}
      agreed == /\ mine \in {"ACK", "nil"}
                /\ \A g \in Hosts \ {h} : Consult(tree[g], req) = "ACK"
      rivals == {i \in Hosts \ {h} : op[i] # NoOp /\ Conflict(op[i], req)}
  IN  /\ h \notin down
      /\ req.type \in Types
      /\ op[h] = NoOp
      /\ Parallel \/ \A i \in Hosts : op[i] = NoOp
      /\ Rivals \/ rivals = {}
      /\ down' = down \cup broken
      /\ \/ /\ agreed /\ down' = {}
            /\ op' = [op EXCEPT ![h] = req]
            /\ todo' = [todo EXCEPT ![h] = Hosts]
         \/ /\ ~agreed \/ down' # {} \/ rivals # {}
            /\ UNCHANGED <<op, todo>>
      /\ UNCHANGED <<tree, handle, outcome>>

-----------------------------------------------------------------------------
(* The operations of the FUSE nodes. *)

Create(h) ==
  \E d \in DirsOf(h) : \E name \in NamesIn(d, FilePaths), mode \in Modes :
    /\ tree[h][d \o name] = Absent
    /\ Replicate(h, [Request("CREATE", relativePath(d, name), <<>>) EXCEPT !.mode = mode])

Mkdir(h) ==
  \E p \in DirPaths, mode \in Modes :
    /\ tree[h][p] = Absent
    /\ Replicate(h, [Request("MKDIR", relativePath(<<>>, p), <<>>) EXCEPT !.mode = mode])

\* The new path is joined from the new directory and the path of the new
\* name in the old one.
Rename(h) ==
  \E d \in DirsOf(h) \cap RenameDirs, e \in DirsOf(h) :
    \E p \in {q \in Paths : Front(q) = d /\ tree[h][q] # Absent} :
      \E q \in {r \in (IF p \in DirPaths THEN DirPaths ELSE FilePaths) : Front(r) = e} :
        /\ p # q
        /\ tree[h][q].kind = "dir" => Onto
        /\ Replicate(h, [Request("RENAME", p, relativePath(e, relativePath(d, <<Last(q)>>)))
                           EXCEPT !.to = q])

Rmdir(h) ==
  \E p \in DirPaths :
    /\ tree[h][p].kind = "dir"
    /\ Replicate(h, Request("RMDIR", p, <<>>))

\* Setattr of a file or a directory, other than the root.
Setattr(h) ==
  \E p \in Paths, mode \in Modes :
    /\ tree[h][p].kind \in {"file", "dir"}
    /\ Replicate(h, [Request("SETATTR", p, <<>>) EXCEPT !.mode = mode])

\* Symlink: the target is joined to the directory of the link.
Symlink(h) ==
  \E d \in DirsOf(h), target \in Paths : \E name \in NamesIn(d, FilePaths) :
    /\ tree[h][d \o name] = Absent
    /\ Replicate(h, [Request("SYMLINK", relativePath(d, target), relativePath(d, name))
                       EXCEPT !.text = target])

\* Link: the same, for the full path of an existing file.
Link(h) ==
  \E d \in DirsOf(h), target \in FilePaths : \E name \in NamesIn(d, FilePaths) :
    /\ tree[h][d \o name] = Absent
    /\ tree[h][target].kind = "file"
    /\ Replicate(h, [Request("LINK", relativePath(d, target), relativePath(d, name))
                       EXCEPT !.text = target])

Unlink(h) ==
  \E p \in FilePaths :
    /\ tree[h][p] # Absent
    /\ Replicate(h, Request("UNLINK", p, <<>>))

\* CopyFileRange of one block between two files just opened.
CopyFileRange(h) ==
  \E p, q \in FilePaths, roff, off \in Offsets :
    /\ p # q
    /\ tree[h][p].kind = "file" /\ tree[h][q].kind = "file"
    /\ Replicate(h, [Request("COPY_FILE_RANGE", p, q) EXCEPT !.roff = roff, !.off = off])

\* Open: the file handle keeps the path.
Open(h) ==
  \E p \in FilePaths :
    /\ "WRITE" \in Types /\ h \notin down /\ op[h] = NoOp
    /\ tree[h][p].kind = "file" /\ tree[h][p].mode # "ro"
    /\ handle' = [handle EXCEPT ![h] = [path |-> p, at |-> p]]
    /\ UNCHANGED <<tree, op, todo, outcome, down>>

\* rootFile.Write of one block.
Write(h) ==
  \E off \in Offsets, v \in Blocks :
    /\ handle[h] # NoHandle
    /\ Replicate(h, [Request("WRITE", handle[h].path, <<>>) EXCEPT !.off = off, !.val = v])

-----------------------------------------------------------------------------
(* What was agreed upon is performed. *)

\* On the initiator, by the FUSE node: by system calls, except for a new directory.
Local(t, hd, req) ==
  CASE req.type = "CREATE" -> OpenCreate(t, req.rel, req.mode)
    [] req.type \in {"SYMLINK", "LINK"} -> Make(t, req.new, LinkNode(req.text))
    [] req.type = "MKDIR" -> Make(t, req.rel, DirNode(FileMode(req.mode)))
    [] req.type = "RENAME" -> Move(t, req.rel, req.to)
    [] req.type = "RMDIR" -> DropDir(t, req.rel)
    [] req.type = "UNLINK" -> DropFile(t, req.rel)
    [] req.type = "SETATTR" -> Chmod(t, req.rel, req.mode)
    [] req.type = "WRITE" ->
         Done(IF hd.at = <<>> THEN t
              ELSE [t EXCEPT ![hd.at].data = WriteAt(@, req.off, req.val)])
    [] req.type = "COPY_FILE_RANGE" -> Done(CopyBlock(t, req.rel, req.new, req.roff, req.off))

\* Create opens the file (a handle is of use to Write only); an open file stays
\* the same file when it is renamed or removed.
Handle(hd, initiator, req) ==
  LET to == IF initiator THEN req.to ELSE req.new
  IN  CASE req.type = "CREATE" /\ initiator /\ "WRITE" \in Types -> [path |-> req.rel, at |-> req.rel]
        [] req.type = "RENAME" /\ IsPrefix(req.rel, hd.at) ->
             [hd EXCEPT !.at = to \o SubSeq(hd.at, Len(req.rel) + 1, Len(hd.at))]
        [] req.type = "RENAME" /\ hd.at = to -> [hd EXCEPT !.at = <<>>]
        [] req.type = "UNLINK" /\ hd.at = req.rel -> [hd EXCEPT !.at = <<>>]
        [] OTHER -> hd

Apply(h, i) ==
  LET req == op[i]
      done == IF h = i THEN Local(tree[h], handle[h], req) ELSE Mirrored(tree[h], req)
  IN  /\ h \in todo[i]
      /\ tree' = [tree EXCEPT ![h] = done.tree]
      /\ handle' = [handle EXCEPT ![h] = IF done.ok THEN Handle(@, h = i, req) ELSE @]
      /\ outcome' = [outcome EXCEPT ![i] = Append(@, done.ok)]
      /\ todo' = [todo EXCEPT ![i] = @ \ {h}]
      /\ UNCHANGED <<op, down>>

\* The transaction of i is over on every host.
Finish(i) ==
  /\ op[i] # NoOp /\ todo[i] = {}
  /\ op' = [op EXCEPT ![i] = NoOp]
  /\ outcome' = [outcome EXCEPT ![i] = <<>>]
  /\ UNCHANGED <<tree, handle, todo, down>>

Next ==
  /\ \E h \in Hosts :
       \/ Create(h) \/ Mkdir(h) \/ Rename(h) \/ Rmdir(h) \/ Setattr(h) \/ Symlink(h)
       \/ Link(h) \/ Unlink(h) \/ CopyFileRange(h) \/ Open(h) \/ Write(h)
       \/ Finish(h)
       \/ \E i \in Hosts : Apply(h, i)
  /\ UNCHANGED load

Spec == Init /\ [][Next]_vars

-----------------------------------------------------------------------------
(* Properties. *)

Quiet == \A i \in Hosts : op[i] = NoOp

\* What a user sees: links by where they lead.
View(t) == [p \in DOMAIN t |-> IF t[p].kind = "link" THEN <<"link", Hop(t, p)>> ELSE <<"node", t[p]>>]

\* Writes that Mirror does not repeat faithfully: in several pieces, since it
\* truncates the file, or to a file that has become read-only.
Rewrites == "WRITE" \in Types /\ (Offsets # {0} \/ "ro" \in Modes)

\* Once every operation agreed upon was performed everywhere, the peers
\* hold the same names, files, modes, contents and links, although the initiator
\* performed them through its FUSE node and the others through Mirror.Mirror.
SameContents ==
  Quiet => \A g, h \in Hosts \ down : View(tree[g]) = View(tree[h])

\* The peers hold the same trees, as long as their users do not write to a file in
\* pieces (mirror.go opens it with O_TRUNC for each) or after it became read-only,
\* and do what one of the workloads lets them do: rename out of the root only, no
\* links, no open files and no directory onto another; set no special bits; overlap
\* on different paths of the root only, or with rivals that come to the same.
SameTrees == ~Rewrites => SameContents

\* In the same workloads, and with writes in pieces and to files that have become
\* read-only, the peers hold the same names, and the same kind of thing under each.
SamePaths ==
  Quiet => \A g, h \in Hosts \ down : \A p \in Paths : tree[g][p].kind = tree[h][p].kind

\* An operation that was agreed upon works on all peers or on none: what the FUSE
\* node could do, Mirror.Mirror can, also with operations in flight on other paths of
\* the root. (A short copy is an error to Mirror only.)
SameOutcome ==
  ~Rivals /\ ~Rewrites =>
    \A i \in Hosts : \A j, k \in DOMAIN outcome[i] :
      op[i].type # "COPY_FILE_RANGE" => outcome[i][j] = outcome[i][k]

\* Consult refuses only what could not have been done: when it objects to a
\* mkdir, an unlink or a rename, Mirror.Mirror would have failed. (Of paths that
\* are not links: Consult follows links, these operations do not.)
RefusalsJustified ==
  \A h \in Hosts, type \in {"MKDIR", "UNLINK", "RENAME"} :
    LET plain == {p \in Paths : tree[h][p].kind # "link"}
    IN  \A p \in plain : \A q \in plain \ {p} :
          LET req == Request(type, p, q)
          IN  Mirrored(tree[h], req).ok => Consult(tree[h], req) = "ACK"

\* Consult gives every request an answer, so no peer panics over one.
ConsultAnswers == down = {}
==============================================================================
