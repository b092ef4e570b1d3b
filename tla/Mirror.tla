------------------------------- MODULE Mirror --------------------------------
(***************************************************************************)
(* mirror/mirror.go: Consult, which says whether a requested operation     *)
(* would work in the directory of a peer, and Mirror, which performs it.   *)
(* A request is a record: type, rel (RelativePath), new (NewRelativePath), *)
(* mode, off (WriteOffset), roff (ReadOffset) and val (Content).           *)
(***************************************************************************)
EXTENDS FileTree

\* os.FileMode of the mode in a request: package os has other bits for setuid,
\* setgid and sticky than the operating system, so these are lost.
FileMode(mode) == IF mode = "special" THEN "rw" ELSE mode

\* A plausible Mirror that opens the file with O_APPEND.
MirrorAppends(t, req) ==
  LET q == Follow(t, req.rel)
  IN  IF At(t, q).kind # "file" THEN Failed(t)
      ELSE Done([t EXCEPT ![q].data = Append(@, req.val)])

\* Mirror of a write: the file is opened with O_CREATE and O_TRUNC, and mode 0.
MirrorWrite(t, req) ==
  LET opened == OpenCreate(t, req.rel, "ro")
      q == Follow(t, req.rel)
  IN  IF ~opened.ok THEN opened
      ELSE IF At(t, q).kind = "file" /\ At(t, q).mode = "ro" THEN Failed(t)
      ELSE Done([opened.tree EXCEPT ![q].data = WriteAt(<<>>, req.off, req.val)])

\* copy_file_range of one block; it copies nothing beyond the end.
CopyBlock(t, src, dst, roff, off) ==
  IF roff < Len(t[src].data)
    THEN [t EXCEPT ![dst].data = WriteAt(@, off, t[src].data[roff + 1])] ELSE t

\* Mirror of a copy: both files are opened, and a short copy is an error.
MirrorCopy(t, req) ==
  LET src == Follow(t, req.rel)
      dst == Follow(t, req.new)
  IN  IF At(t, src).kind # "file" \/ At(t, dst).kind # "file" \/ At(t, dst).mode = "ro" THEN Failed(t)
      ELSE [ok |-> req.roff < Len(t[src].data), tree |-> CopyBlock(t, src, dst, req.roff, req.off)]

\* A plausible Mirror that gives a new file the mode of a write.
MirrorForgetsMode(t, req) == OpenCreate(t, req.rel, "ro")

\* A plausible Mirror that opens a new file without O_CREATE.
MirrorOpens(t, req) == [ok |-> At(t, req.rel).kind = "file", tree |-> t]

MirrorCreate(t, req) == OpenCreate(t, req.rel, FileMode(req.mode))

\* A plausible Mirror that refuses to replace a file by a rename.
RenameNew(t, req) == IF At(t, req.new) # Absent THEN Failed(t) ELSE OsRename(t, req.rel, req.new)

MirrorRename(t, req) == OsRename(t, req.rel, req.new)

\* A plausible Mirror that leaves out the directory of a link's target.
MirrorLinkHere(t, req) == Make(t, req.new, AbsLinkNode(<<Last(req.rel)>>))

MirrorLink(t, req) == Make(t, req.new, AbsLinkNode(req.rel))

\* Mirror.Mirror.
Mirrored(t, req) ==
  CASE req.type = "CREATE" -> MirrorCreate(t, req)
    [] req.type \in {"SYMLINK", "LINK"} -> MirrorLink(t, req)
    [] req.type = "MKDIR" -> Make(t, req.rel, DirNode(FileMode(req.mode)))
    [] req.type = "RENAME" -> MirrorRename(t, req)
    [] req.type \in {"RMDIR", "UNLINK"} -> Drop(t, req.rel)
    [] req.type = "SETATTR" -> Chmod(t, req.rel, FileMode(req.mode))
    [] req.type = "WRITE" -> MirrorWrite(t, req)
    [] req.type = "COPY_FILE_RANGE" -> MirrorCopy(t, req)

-----------------------------------------------------------------------------
(* Consult. Stat fails with ErrNotExist, or otherwise in a circle of links.  *)

ConsultLink(t, req) ==
  IF "link" \in {Stat(t, req.rel), Stat(t, req.new)} THEN "ERR_UNKNOWN"
  ELSE IF Stat(t, req.rel) = "absent" THEN "ERR_DOES_NOT_EXIST"
  ELSE IF Stat(t, req.new) # "absent" THEN "ERR_ALREADY_EXISTS" ELSE "ACK"

ConsultCreate(t, req) ==
  CASE Stat(t, req.rel) = "absent" -> "ACK"
    [] Stat(t, req.rel) = "link" -> "ERR_UNKNOWN"
    [] OTHER -> "ERR_ALREADY_EXISTS"

\* A plausible Consult that lets a rename replace nothing.
ConsultRenameNew(t, req) ==
  CASE Stat(t, req.rel) = "absent" -> "ERR_DOES_NOT_EXIST"
    [] Stat(t, req.new) # "absent" -> "ERR_ALREADY_EXISTS"
    [] OTHER -> "ACK"

ConsultRename(t, req) ==
  CASE Stat(t, req.rel) = "absent" -> "ERR_DOES_NOT_EXIST"
    [] "link" \in {Stat(t, req.rel), Stat(t, req.new)} -> "ERR_UNKNOWN"
    [] Stat(t, req.new) \notin {"absent", Stat(t, req.rel)} -> "ERR_INVALID_MODE"
    [] OTHER -> "ACK"

\* Consult of a RMDIR returns nil for what exists, and dereferences a nil FileInfo
\* when Stat fails for another reason.
ConsultRmdir(t, req) ==
  CASE Stat(t, req.rel) = "absent" -> "ERR_DOES_NOT_EXIST"
    [] Stat(t, req.rel) = "link" -> "panic"
    [] OTHER -> "nil"

ConsultSetattr(t, req) ==
  CASE Stat(t, req.rel) = "absent" -> "ERR_DOES_NOT_EXIST"
    [] Stat(t, req.rel) = "link" -> "ERR_UNKNOWN"
    [] OTHER -> "ACK"

ConsultUnlink(t, req) == IF Stat(t, req.rel) = "link" THEN "ERR_UNKNOWN" ELSE "ACK"

\* The source is looked at before the destination, and its mode is not.
ConsultCopy(t, req) ==
  LET Answer(p) == CASE Stat(t, p) = "absent" -> "ERR_DOES_NOT_EXIST"
                     [] Stat(t, p) = "link" -> "ERR_UNKNOWN"
                     [] Stat(t, p) = "dir" -> "ERR_NOT_A_FILE"
                     [] OTHER -> "ACK"
  IN  IF Answer(req.rel) # "ACK" THEN Answer(req.rel)
      ELSE IF Answer(req.new) # "ACK" THEN Answer(req.new)
      ELSE IF At(t, Follow(t, req.new)).mode = "ro" THEN "ERR_INVALID_MODE" ELSE "ACK"

\* Mirror.Consult.
Consult(t, req) ==
  CASE req.type \in {"LINK", "SYMLINK"} -> ConsultLink(t, req)
    [] req.type \in {"CREATE", "MKDIR"} -> ConsultCreate(t, req)
    [] req.type = "RENAME" -> ConsultRename(t, req)
    [] req.type = "RMDIR" -> ConsultRmdir(t, req)
    [] req.type = "SETATTR" -> ConsultSetattr(t, req)
    [] req.type = "UNLINK" -> ConsultUnlink(t, req)
    [] req.type = "WRITE" -> "ACK"
    [] req.type = "COPY_FILE_RANGE" -> ConsultCopy(t, req)
==============================================================================
