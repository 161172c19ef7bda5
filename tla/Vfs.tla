---------------------------------- MODULE Vfs ----------------------------------
(***************************************************************************)
(* Names and directories: open_fs, findnode_fs and mkdir_fs of fs/fs.c on  *)
(* the directories of fs/initrd.c.  A path is looked up one component at a *)
(* time; each lookup and the final open or mkdir hold the lock of one      *)
(* node, and other tasks may run in between.                               *)
(*                                                                         *)
(* A path is the sequence of its components.  Entries are never removed,   *)
(* so the used slots of a directory are a sequence; "." and ".." are left  *)
(* out.                                                                    *)
(***************************************************************************)
EXTENDS Integers, Sequences, FiniteSets, FiniteSetsExt

CONSTANTS
  Tasks,      \* the tasks that use the file system
  Makers,     \* those that create files and directories
  Names, MAX_DEPTH,   \* the components and the length of paths
  NODES,      \* bounds the number of nodes that are created
  SLOTS       \* the free slots of a new directory

ASSUME VfsAssumption ==
  /\ Makers \subseteq Tasks /\ {MAX_DEPTH, NODES, SLOTS} \subseteq Nat
  /\ "" \notin Names

VARIABLES
  type,      \* vfs_node_t.type of each node; "FREE" if it does not exist
  entries,   \* the used slots of each directory
  call       \* what each task does: see Idle

vfsVars == <<type, entries, call>>

fs_root == 1
NULL == 0
Nodes == 1..(NODES + 1)
Paths == UNION {[1..n -> Names] : n \in 1..MAX_DEPTH}

\* The variables of open_fs and findnode_fs: the rest of the path, the last
\* component, dir_node and file_node; the flags; and for the properties the path,
\* whether it existed when the call began, and the result.
Idle == [at |-> "idle", path |-> <<>>, rest |-> <<>>, fname |-> "", dir_node |-> NULL,
         file_node |-> NULL, creat |-> FALSE, excl |-> FALSE, existed |-> NULL,
         created |-> FALSE, node |-> NULL]

VfsTypeOK ==
  /\ type \in [Nodes -> {"FREE", "FS_FILE", "FS_DIRECTORY"}]
  /\ \A d \in Nodes : \A i \in DOMAIN entries[d] : entries[d][i] \in Names \X Nodes
  /\ \A t \in Tasks : /\ call[t].at \in {"idle", "open", "findnode", "done"}
                      /\ {call[t].dir_node, call[t].file_node, call[t].node} \subseteq Nodes \cup {NULL}

VfsInit ==
  /\ type = [n \in Nodes |-> IF n = fs_root THEN "FS_DIRECTORY" ELSE "FREE"]
  /\ entries = [n \in Nodes |-> <<>>]
  /\ call = [t \in Tasks |-> Idle]

-----------------------------------------------------------------------------
\* Faulty variant: no character of the names is compared.
finddir_any(d, name) ==
  IF d = NULL THEN NULL ELSE IF entries[d] = <<>> THEN NULL ELSE entries[d][1][2]

\* finddir_fs: only a directory has entries.  The empty name is that of an unused
\* slot, whose node is NULL.
finddir_fs(d, name) ==
  LET hits == {i \in DOMAIN entries[d] : entries[d][i][1] = name}
  IN  IF d = NULL \/ hits = {} THEN NULL ELSE entries[d][Min(hits)][2]

\* The reference: the node that a name stands for in a directory, and the one that a
\* path names.
Child(d, name) ==
  LET hits == {e \in Names \X Nodes :
                 d # NULL /\ e[1] = name /\ \E i \in DOMAIN entries[d] : entries[d][i] = e}
  IN  IF hits = {} THEN NULL ELSE (CHOOSE e \in hits : TRUE)[2]

Resolve(path) ==
  LET at[k \in 0..Len(path)] == IF k = 0 THEN fs_root ELSE Child(at[k - 1], path[k])
  IN  at[Len(path)]

\* A path that goes through a file.
ThroughFile(path) == \E k \in 1..(Len(path) - 1) :
  LET n == Resolve(SubSeq(path, 1, k)) IN n # NULL /\ type[n] = "FS_FILE"

-----------------------------------------------------------------------------
begin(t, what, path, creat, excl) ==
  /\ call[t].at \in {"idle", "done"}
  /\ creat => what = "open" /\ t \in Makers
  /\ excl => creat
  /\ call' = [call EXCEPT ![t] = [Idle EXCEPT !.at = what, !.path = path, !.rest = path,
                !.creat = creat, !.excl = excl, !.file_node = fs_root,
                !.existed = Resolve(path)]]
  /\ UNCHANGED <<type, entries>>

\* Whether the loop goes on: open_fs also looks into a directory at the end.
MoreToFind(c) ==
  \/ c.rest # <<>> /\ (c.at = "findnode" => c.file_node # NULL)
  \/ c.at = "open" /\ c.file_node # NULL /\ type[c.file_node] = "FS_DIRECTORY"

\* One turn of the loop of open_fs or findnode_fs.
find(t) ==
  LET c == call[t]
      fname == IF c.rest = <<>> THEN "" ELSE Head(c.rest)
  IN  /\ c.at \in {"open", "findnode"} /\ MoreToFind(c)
      /\ call' = [call EXCEPT
           ![t].fname = fname, ![t].dir_node = c.file_node,
           ![t].file_node = IF fname = "" THEN NULL ELSE finddir_fs(c.file_node, fname),
           ![t].rest = IF @ = <<>> THEN <<>> ELSE Tail(@)]
      /\ UNCHANGED <<type, entries>>

return(t, node, created) ==
  call' = [call EXCEPT ![t] = [Idle EXCEPT !.at = "done", !.path = call[t].path,
             !.creat = call[t].creat, !.excl = call[t].excl, !.existed = call[t].existed,
             !.node = node, !.created = created]]

findnode_return(t) ==
  /\ call[t].at = "findnode" /\ ~MoreToFind(call[t])
  /\ return(t, call[t].file_node, FALSE)
  /\ UNCHANGED <<type, entries>>

\* initrd_open refuses a file that exists if it has to be new.
Refuses(c) == c.creat /\ c.excl

\* A directory itself is opened: there is no name left to look for in it.
OpensDirectory(c) == c.fname = ""

\* A new node is kmalloc'ed and gets the first free slot.  If there is none, the
\* loop of initrd_open appends empty block lists until kmalloc fails, and then
\* succeeds without an entry.
new_node(d, name, kind) ==
  LET n == Min({m \in Nodes : type[m] = "FREE"})
  IN  /\ type' = [type EXCEPT ![n] = kind]
      /\ entries' = IF Len(entries[d]) < SLOTS
                    THEN [entries EXCEPT ![d] = Append(@, <<name, n>>)] ELSE entries

\* The end of open_fs: the open handler of the file or, without one, of the node
\* that was searched last.
open_return(t) ==
  LET c == call[t]
      exists == c.file_node # NULL
      node == IF exists THEN c.file_node ELSE c.dir_node
      unused == {m \in Nodes : type[m] = "FREE"}
  IN  /\ c.at = "open" /\ ~MoreToFind(c)
      /\ \/ /\ node = NULL
            /\ return(t, NULL, FALSE) /\ UNCHANGED <<type, entries>>
         \/ /\ node # NULL /\ type[node] = "FS_FILE"
            /\ return(t, IF Refuses(c) THEN NULL ELSE node, FALSE)
            /\ UNCHANGED <<type, entries>>
         \/ /\ node # NULL /\ type[node] = "FS_DIRECTORY" /\ (OpensDirectory(c) \/ ~c.creat)
            /\ return(t, IF OpensDirectory(c) THEN node ELSE NULL, FALSE)
            /\ UNCHANGED <<type, entries>>
         \/ /\ node # NULL /\ type[node] = "FS_DIRECTORY" /\ ~OpensDirectory(c) /\ c.creat
            /\ unused # {}
            /\ new_node(node, c.fname, "FS_FILE")
            /\ return(t, Min(unused), TRUE)

\* The tests of initrd_mkdir, under the lock of the directory.
mkdir_allowed(d, name) == finddir_fs(d, name) = NULL

\* mkdir_fs on a directory that the task knows.  Without a free slot it returns
\* NULL, and the new nodes are freed.
mkdir_fs(t, d, name) ==
  /\ t \in Makers /\ call[t].at \in {"idle", "done"}
  /\ type[d] = "FS_DIRECTORY" /\ Len(entries[d]) < SLOTS /\ mkdir_allowed(d, name)
  /\ \E m \in Nodes : type[m] = "FREE"
  /\ new_node(d, name, "FS_DIRECTORY")
  /\ call' = [call EXCEPT ![t] = Idle]

VfsNext == \E t \in Tasks :
  \/ \E p \in Paths, creat, excl \in BOOLEAN, what \in {"open", "findnode"} :
       begin(t, what, p, creat, excl)
  \/ find(t)
  \/ findnode_return(t)
  \/ open_return(t)
  \/ \E d \in Nodes, name \in Names : mkdir_fs(t, d, name)

VfsSpec == VfsInit /\ [][VfsNext]_vfsVars

-----------------------------------------------------------------------------
(***************************************************************************)
(* Properties.                                                             *)
(***************************************************************************)

\* No directory has two entries of one name.
NamesUnique == \A d \in Nodes : \A i, j \in DOMAIN entries[d] :
  entries[d][i][1] = entries[d][j][1] => i = j

\* A call that returns a node returns the one that the path names.
FindsPath(t) == call[t].at = "done" /\ call[t].node # NULL => call[t].node = Resolve(call[t].path)

\* A lookup that runs while others create entries never returns a node that the
\* path does not name; except for a path that goes through a file.
LookupRight == \A t \in Tasks : ~ThroughFile(call[t].path) => FindsPath(t)

\* The same without the exception: on the way "file must be a directory".
LookupThroughDirectories == \A t \in Tasks : FindsPath(t)

\* A path that existed when the call began is found, whatever happens meanwhile,
\* and a new file is created only for one that did not exist.
ExistingFound == \A t \in Tasks :
  call[t].at = "done" /\ call[t].existed # NULL
    => /\ ~call[t].created
       /\ ~(call[t].creat /\ call[t].excl) => call[t].node = call[t].existed

\* A file opened with O_CREAT and O_EXCL is new.
ExclusiveIsNew == \A t \in Tasks :
  call[t].at = "done" /\ call[t].creat /\ call[t].excl /\ call[t].node # NULL
    /\ type[call[t].node] = "FS_FILE" /\ ~ThroughFile(call[t].path) => call[t].created

\* A created file can be found: "if all blocks are reserved, we have to allocate
\* a new one".
CreatedIsFound == \A t \in Tasks :
  call[t].created => Resolve(call[t].path) = call[t].node

\* Directories stay unambiguous, every node that is returned is the right one, and
\* what existed is found.
LookupsRight == VfsTypeOK /\ NamesUnique /\ LookupRight /\ ExclusiveIsNew /\ ExistingFound
=============================================================================
