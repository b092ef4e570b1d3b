---------------------------- MODULE MCFileSystem -----------------------------
(* Instances of FileSystem: a root with the files a and b, and the directories d and e. *)
EXTENDS FileSystem, TLC

CONSTANTS h1, h2

MCHosts == {h1, h2}
Flat == {<<"a">>, <<"b">>}
OneDir == {<<"d">>}
TwoDirs == {<<"d">>, <<"e">>}
Deep == {<<"a">>, <<"b">>, <<"d", "a">>}
Deeper == {<<"a">>, <<"d", "a">>, <<"e", "a">>}

\* A file with one block in the root, nothing else.
OneFile(ps) == [p \in ps |-> IF p = <<"a">> THEN FileNode("rw", <<1>>) ELSE Absent]

Load(types, dirs, files) ==
  [types |-> types, dirs |-> dirs, files |-> files, from |-> {<<>>}, onto |-> FALSE,
   modes |-> {"rw", "ro"}, offsets |-> {0}, blocks |-> {2}, tree |-> OneFile(dirs \cup files),
   parallel |-> FALSE, rivals |-> FALSE]

Names == Load({"CREATE", "MKDIR", "RENAME", "RMDIR", "SETATTR", "UNLINK", "COPY_FILE_RANGE"}, TwoDirs, Deeper)
Links == [Load({"CREATE", "MKDIR", "SYMLINK", "LINK", "UNLINK", "SETATTR"}, OneDir, Deep) EXCEPT !.modes = {"rw"}]
Writes == [Load({"CREATE", "WRITE", "SETATTR"}, {}, Flat) EXCEPT !.offsets = {0, 1}]
Overwrite == [Load({"CREATE", "WRITE"}, {}, Flat) EXCEPT !.modes = {"rw"}, !.blocks = {1, 2}]
Overlap == [Load({"CREATE", "MKDIR", "SETATTR", "UNLINK"}, OneDir, Flat) EXCEPT !.parallel = TRUE]
\* Rivals that come to the same: two that make the same file or directory, or give it
\* the same mode.
Together == [Load({"CREATE", "MKDIR", "SETATTR"}, OneDir, Flat)
               EXCEPT !.modes = {"rw"}, !.parallel = TRUE, !.rivals = TRUE]

MCWorkloads == {Names, Links, Writes, Overwrite, Overlap, Together}

\* Workloads on which the peers part ways; the README says how.
Pieces == {[Writes EXCEPT !.modes = {"rw"}]}
ReadOnly == {Load({"WRITE", "SETATTR"}, {}, Flat)}
Renamed == {[Load({"WRITE", "RENAME"}, {}, Flat) EXCEPT !.modes = {"rw"}]}
Within == {[Load({"MKDIR", "RENAME"}, OneDir, Deep) EXCEPT !.from = {<<>>, <<"d">>}]}
Moved == {Load({"MKDIR", "SYMLINK", "RENAME"}, OneDir, Deep)}
Early == {[Load({"CREATE", "MKDIR"}, OneDir, {<<"d", "a">>}) EXCEPT !.parallel = TRUE]}
Race == {[Load({"RENAME", "UNLINK"}, {}, Flat) EXCEPT !.parallel = TRUE]}
Replaced == {[Load({"MKDIR", "RENAME"}, TwoDirs, Flat) EXCEPT !.onto = TRUE]}
Special == {[Load({"CREATE", "SETATTR"}, OneDir, Flat) EXCEPT !.modes = {"rw", "special"}]}
Rivalry == {[Load({"SETATTR"}, {}, Flat) EXCEPT !.parallel = TRUE, !.rivals = TRUE]}
Locked == {[Load({"CREATE", "SETATTR"}, OneDir, {<<"d", "a">>})
              EXCEPT !.parallel = TRUE, !.tree = [p \in {<<"d">>, <<"d", "a">>} |->
                                                   IF p = <<"d">> THEN DirNode("rw") ELSE Absent]]}
==============================================================================
