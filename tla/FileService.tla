----------------------------- MODULE FileService -----------------------------
(***************************************************************************)
(* The file browser's service (crates/sushi-core/src/fs/mod.rs) as plugin  *)
(* scripts reach it through sushi.fs (lua/bindings.rs): every operation,   *)
(* step by step, over one small file system.                               *)
(*                                                                         *)
(* An operation checks its path and then works on it in one or more system *)
(* calls.  The check, and the whole of a directory rename, run inside a    *)
(* poll of the script and hold the script's virtual machine; every other   *)
(* system call is awaited on a blocking thread, so that calls of one       *)
(* machine, of two generations of a plugin or of two plugins over one root *)
(* interleave between any two of them.                                     *)
(*                                                                         *)
(* Not in the tree: symbolic links (deny_symlink is its default, TRUE: the *)
(* check refuses every path through one), sizes and titles.  A write that  *)
(* comes after its answer, beside later calls, is not told apart from one  *)
(* that comes with it.                                                     *)
(***************************************************************************)
EXTENDS Naturals, Sequences, FiniteSets

CONSTANTS
    Callers,        \* handler calls that may be under way at once
    Machines,       \* which virtual machine each caller runs in, the cases
    Names,          \* file names
    HiddenNames,    \* those that start with a dot (hide_dotfiles is set)
    TextNames,      \* those with a configured text extension
    Inodes,         \* the files there can be, one identity each
    NoFile,         \* none of them
    Texts,          \* contents
    Configs,        \* manifests: sequences of roots, [id, path, can]
    Rels,           \* paths the handlers are asked for, below a root
    Seeds,          \* trees the service may start on: path -> "dir" or a file
    MaxCalls,       \* bound: calls made
    MaxFaults       \* bound: failed writes, dropped calls and crashes

ASSUME FilesAssumption ==
    /\ \A m \in Machines : DOMAIN m = Callers
    /\ HiddenNames \subseteq Names /\ TextNames \subseteq Names
    /\ Rels \subseteq Seq(Names)
    /\ Inodes \cap {NoFile, "absent", "dir"} = {} /\ Texts # {}

VARIABLES
    roots,      \* the service's roots
    vmOf,       \* the virtual machine each caller runs in
    tree,       \* the file system: path -> "absent", "dir" or a file
    data,       \* the content of each file
    fate,       \* file -> "free", "open", "stored" (acknowledged), "deleted"
    call,       \* the call each caller has under way
    made,       \* calls made so far
    faults,     \* faults so far
    raced       \* whether a rename overlapped a call it can lose files to

fileVars == <<roots, vmOf, tree, data, fate, call, made, faults, raced>>

Ops == {"list", "read", "edit", "create", "mkdir", "rename", "delete",
        "upload", "ticket", "download"}
Empty == "empty"

(***************************************************************************)
(* Paths and trees.  Two names deep is enough for a directory with entries *)
(* to be moved and for one directory to hold another; a move that would go *)
(* deeper fails, as one to a path the system finds too long does.          *)
(***************************************************************************)
Depth == 2
Paths == UNION {[1..n -> Names] : n \in 1..Depth}
Parent(p) == SubSeq(p, 1, Len(p) - 1)
Within(p, q) == Len(q) <= Len(p) /\ SubSeq(p, 1, Len(q)) = q
IsDir(t, p) == p = <<>> \/ (p \in Paths /\ t[p] = "dir")
IsFile(t, p) == p \in Paths /\ t[p] \in Inodes
Exists(t, p) == IsDir(t, p) \/ IsFile(t, p)
Children(t, p) == {n \in Names : Exists(t, Append(p, n))}
Free(t, p) == ~Exists(t, p) /\ p \in Paths /\ IsDir(t, Parent(p))
IsTree(t) ==
    /\ t \in [Paths -> {"absent", "dir"} \cup Inodes]
    /\ \A p \in Paths : t[p] # "absent" => IsDir(t, Parent(p))
Height(t, p) == IF IsDir(t, p) /\ Children(t, p) # {} THEN 1 ELSE 0

\* What the operating system's rename leaves: the entry, and all below it, under
\* its new name.
Moved(t, p, q) ==
    [r \in Paths |->
        IF Within(r, q)
        THEN LET s == p \o SubSeq(r, Len(q) + 1, Len(r))
             IN  IF s \in Paths THEN t[s] ELSE "absent"
        ELSE IF Within(r, p) THEN "absent" ELSE t[r]]

Roots(cfg) == {cfg[i] : i \in DOMAIN cfg}

\* validate_roots: no two roots of one id.
ValidateRoots(cfg) == \A i, j \in DOMAIN cfg : i # j => cfg[i].id # cfg[j].id

\* from_manifest: a manifest is refused when a root is no directory and when one
\* root's directory is or lies inside another's.
FromManifest(cfg, t) ==
    /\ \A i \in DOMAIN cfg : IsDir(t, cfg[i].path)
    /\ \A i, j \in DOMAIN cfg :
         i # j => ~Within(cfg[i].path, cfg[j].path)

(***************************************************************************)
(* Calls.                                                                  *)
(***************************************************************************)
Idle(answer) ==
    [op |-> "none", pc |-> "idle", path |-> <<>>, to |-> <<>>, text |-> Empty,
     file |-> NoFile, todo |-> {}, got |-> {}, stack |-> <<>>,
     alone |-> FALSE, before |-> <<>>, answer |-> answer]

Busy(c) == call[c].pc # "idle"
Moving(c) == call[c].pc = "moving"

\* The script's virtual machine is held by the poll that moves a directory.
VmFree(c) == \A d \in Callers \ {c} : vmOf[d] = vmOf[c] => ~Moving(d)

\* An answer is remembered until the next step.
Put(c, r) == call' = [d \in Callers |->
                        IF d = c THEN r ELSE IF Busy(d) THEN call[d] ELSE Idle("none")]
Answer(c, a) == Put(c, Idle(a))
NoFaults == UNCHANGED <<roots, vmOf, made, faults>>
SameTree == UNCHANGED <<tree, data, fate, raced>> /\ NoFaults

\* root, parse_rel_segments, resolve_existing, resolve_for_create and
\* ensure_text_extension: what lets an operation past its checks.
Visible(rel) == \A i \in DOMAIN rel : rel[i] \notin HiddenNames
ResolvesExisting(base, rel, allowRoot) ==
    /\ Visible(rel)
    /\ rel = <<>> => allowRoot
    /\ Exists(tree, base \o rel)
ResolvesForCreate(base, rel) ==
    /\ Visible(rel) /\ rel # <<>>
    /\ Exists(tree, base \o Parent(rel))
Text(rel) == rel # <<>> /\ rel[Len(rel)] \in TextNames

\* A ticket needs what a download needs.
Capability(op) == IF op = "ticket" THEN "download" ELSE op

Admits(root, op, rel, torel) ==
    /\ Capability(op) \in root.can
    /\ op \in {"create", "upload", "mkdir"} => ResolvesForCreate(root.path, rel)
    /\ op \notin {"create", "upload", "mkdir"} =>
         ResolvesExisting(root.path, rel, op = "list")
    /\ op = "rename" => ResolvesForCreate(root.path, torel)
    /\ op \in {"read", "edit", "create"} => Text(rel)

FirstStep(op) ==
    CASE op = "list" -> "scan"
      [] op \in {"create", "upload"} -> "new"
      [] op = "edit" -> "truncate"
      [] op = "read" -> "read"
      [] op = "mkdir" -> "mkdir"
      [] OTHER -> "stat"

\* A rename can lose a file to another rename and to a delete.
Rivals(op, other) ==
    \/ op = "rename" /\ other \in {"rename", "delete"}
    \/ op = "delete" /\ other = "rename"
Creates(op) == op \in {"create", "upload", "edit", "mkdir"}

\* A handler calls sushi.fs: the checks run at once, the work is still to do.
Call(c, root, op, rel, torel, text) ==
    /\ ~Busy(c) /\ VmFree(c) /\ made < MaxCalls
    /\ made' = made + 1
    /\ LET p == root.path \o rel
           q == root.path \o torel
           others == {d \in Callers \ {c} : Busy(d)}
       IN  /\ op = "rename" => Len(q) + Height(tree, p) <= Depth
           /\ call' = [d \in Callers |->
                 IF d = c
                 THEN IF Admits(root, op, rel, torel)
                      THEN [Idle("none") EXCEPT
                              !.op = op, !.pc = FirstStep(op), !.path = p,
                              !.to = IF op = "rename" THEN q ELSE <<>>,
                              !.text = text, !.alone = (others = {}),
                              !.before = IF others = {} THEN tree ELSE <<>>]
                      ELSE Idle("refused")
                 ELSE IF Admits(root, op, rel, torel) /\ Busy(d)
                      THEN [call[d] EXCEPT !.alone = FALSE, !.before = <<>>]
                      ELSE IF Busy(d) THEN call[d] ELSE Idle("none")]
           /\ raced' = \/ raced
                       \/ \E d \in others : \/ Rivals(op, call[d].op)
                                            \/ Moving(d) /\ Creates(op)
    /\ UNCHANGED <<roots, vmOf, tree, data, fate, faults>>

\* list: the directory is read, and then each entry is looked at in turn.
Scan(c) ==
    /\ call[c].pc = "scan"
    /\ IF IsDir(tree, call[c].path)
       THEN Put(c, [call[c] EXCEPT !.pc = "entries",
                    !.todo = Children(tree, call[c].path) \ HiddenNames])
       ELSE Answer(c, "error")
    /\ SameTree

ListEntry(c) ==
    /\ call[c].pc = "entries"
    /\ IF call[c].todo = {} THEN Answer(c, "ok")
       ELSE LET n == CHOOSE n \in call[c].todo : TRUE
            IN  IF Exists(tree, Append(call[c].path, n))
                THEN Put(c, [call[c] EXCEPT !.todo = @ \ {n}, !.got = @ \cup {n}])
                ELSE Answer(c, "error")
    /\ SameTree

\* read_text, and the read that ends read_download.
Read(c) ==
    /\ call[c].pc = "read"
    /\ Answer(c, IF IsFile(tree, call[c].path) THEN "ok" ELSE "error")
    /\ SameTree

\* A new file appears under the path, empty until its content is written.
Unused == {f \in Inodes : fate[f] = "free"}
OpensNew(c) ==
    /\ Unused # {}
    /\ LET f == CHOOSE f \in Unused : TRUE
       IN  /\ tree' = [tree EXCEPT ![call[c].path] = f]
           /\ fate' = [fate EXCEPT ![f] = "open"]
           /\ Put(c, [call[c] EXCEPT !.pc = "write", !.file = f])
    /\ UNCHANGED <<data, raced>> /\ NoFaults

Fails(c) == Answer(c, "error") /\ SameTree

\* A bug to tell apart: the file is opened as an edit opens it.
OpenTruncating(c) ==
    /\ call[c].pc = "new"
    /\ IF IsFile(tree, call[c].path)
       THEN /\ Put(c, [call[c] EXCEPT !.pc = "write", !.file = tree[call[c].path]])
            /\ data' = [data EXCEPT ![tree[call[c].path]] = Empty]
            /\ UNCHANGED <<tree, fate, raced>> /\ NoFaults
       ELSE IF Free(tree, call[c].path) THEN OpensNew(c)
       ELSE Fails(c)

\* create_text and write_upload open with create_new.
OpenNew(c) ==
    /\ call[c].pc = "new"
    /\ IF Free(tree, call[c].path) THEN OpensNew(c)
       ELSE Fails(c)

\* write_text is the library's write: it creates the file when it is missing by
\* now and empties it when it is there.
Truncate(c) ==
    /\ call[c].pc = "truncate"
    /\ IF IsFile(tree, call[c].path)
       THEN /\ Put(c, [call[c] EXCEPT !.pc = "write", !.file = tree[call[c].path]])
            /\ data' = [data EXCEPT ![tree[call[c].path]] = Empty]
            /\ UNCHANGED <<tree, fate, raced>> /\ NoFaults
       ELSE IF Free(tree, call[c].path) THEN OpensNew(c)
       ELSE Fails(c)

\* write_all, on the file that was opened, whatever its name is by now.  What a
\* create or an upload writes is never flushed: it is still on its way when the call
\* is answered, and if it fails nobody is told.
Write(c) ==
    /\ call[c].pc = "write"
    /\ \/ data' = [data EXCEPT ![call[c].file] = call[c].text]
       \/ call[c].op \in {"create", "upload"} /\ UNCHANGED data
    /\ fate' = [fate EXCEPT ![call[c].file] = IF @ = "open" THEN "stored" ELSE @]
    /\ Answer(c, "ok")
    /\ UNCHANGED <<tree, raced>> /\ NoFaults

Mkdir(c) ==
    /\ call[c].pc = "mkdir"
    /\ IF Free(tree, call[c].path)
       THEN /\ tree' = [tree EXCEPT ![call[c].path] = "dir"]
            /\ Answer(c, "ok")
            /\ UNCHANGED <<data, fate, raced>> /\ NoFaults
       ELSE Fails(c)

\* One directory of a directory rename: what remains to be done in it.
Frame(p, q) == [from |-> p, to |-> q, phase |-> "make", todo |-> {}]

GoTo(c, pc) == Put(c, [call[c] EXCEPT !.pc = pc])
Asked(c, op) == call[c].pc = "stat" /\ call[c].op = op /\ VmFree(c)

\* The metadata a rename asks for decides how it goes on; a directory is moved
\* from here without another await.
StatRename(c) ==
    /\ Asked(c, "rename")
    /\ IF ~Exists(tree, call[c].path) THEN Answer(c, "error")
       ELSE IF IsFile(tree, call[c].path) THEN GoTo(c, "link")
       ELSE IF Within(call[c].to, call[c].path) THEN Answer(c, "refused")
       ELSE Put(c, [call[c] EXCEPT !.pc = "moving",
                    !.stack = <<Frame(call[c].path, call[c].to)>>])
    /\ raced' = \/ raced
                \/ /\ IsDir(tree, call[c].path)
                   /\ \E d \in Callers \ {c} : Busy(d) /\ Creates(call[d].op)
    /\ UNCHANGED <<tree, data, fate>> /\ NoFaults

\* remove_dir or remove_file, as the metadata says.
StatDelete(c) ==
    /\ Asked(c, "delete")
    /\ IF ~Exists(tree, call[c].path) THEN Answer(c, "error")
       ELSE GoTo(c, IF IsDir(tree, call[c].path) THEN "rmdir" ELSE "remove")
    /\ SameTree

\* prepare_download answers with a ticket; read_download goes on to read.
StatDownload(c) ==
    /\ Asked(c, "ticket") \/ Asked(c, "download")
    /\ IF ~Exists(tree, call[c].path) THEN Answer(c, "error")
       ELSE IF IsDir(tree, call[c].path) THEN Answer(c, "refused")
       ELSE IF call[c].op = "ticket" THEN Answer(c, "ok")
       ELSE GoTo(c, "read")
    /\ SameTree

\* A file is renamed by a second name, which must be free, ...
Link(c) ==
    /\ call[c].pc = "link"
    /\ IF IsFile(tree, call[c].path) /\ Free(tree, call[c].to)
       THEN /\ tree' = [tree EXCEPT ![call[c].to] = tree[call[c].path]]
            /\ Put(c, [call[c] EXCEPT !.pc = "unlink"])
            /\ UNCHANGED <<data, fate, raced>> /\ NoFaults
       ELSE Fails(c)

\* ... and the removal of whatever file has the first one by then.
Unlink(c) ==
    /\ call[c].pc = "unlink"
    /\ IF IsFile(tree, call[c].path)
       THEN /\ tree' = [tree EXCEPT ![call[c].path] = "absent"]
            /\ Answer(c, "ok")
            /\ UNCHANGED <<data, fate, raced>> /\ NoFaults
       ELSE Fails(c)

(***************************************************************************)
(* rename_directory_no_overwrite, one system call at a time.               *)
(***************************************************************************)
Top(c) == call[c].stack[Len(call[c].stack)]
SetTop(c, f) == [call[c] EXCEPT !.stack[Len(call[c].stack)] = f]

MakeTarget(c) ==
    /\ Moving(c) /\ Top(c).phase = "make"
    /\ IF Free(tree, Top(c).to)
       THEN /\ tree' = [tree EXCEPT ![Top(c).to] = "dir"]
            /\ Put(c, SetTop(c, [Top(c) EXCEPT !.phase = "scan"]))
            /\ UNCHANGED <<data, fate, raced>> /\ NoFaults
       ELSE Fails(c)

\* The entries are told directories from files by what the scan saw.
ScanSource(c) ==
    /\ Moving(c) /\ Top(c).phase = "scan"
    /\ IF IsDir(tree, Top(c).from)
       THEN Put(c, SetTop(c, [Top(c) EXCEPT !.phase = "entries",
                   !.todo = {<<n, IsDir(tree, Append(Top(c).from, n))>> :
                               n \in Children(tree, Top(c).from)}]))
       ELSE Answer(c, "error")
    /\ SameTree

\* A bug to tell apart: directories inside the directory stay where they are.
MoveFilesOnly(c) ==
    /\ Moving(c) /\ Top(c).phase = "entries" /\ Top(c).todo # {}
    /\ LET e == CHOOSE e \in Top(c).todo : TRUE
           p == Append(Top(c).from, e[1])
           q == Append(Top(c).to, e[1])
           rest == SetTop(c, [Top(c) EXCEPT !.todo = @ \ {e}])
       IN  IF e[2] THEN Put(c, rest) /\ SameTree
           ELSE IF Exists(tree, p) /\ q \in Paths /\ IsDir(tree, Parent(q)) /\ ~IsDir(tree, q)
           THEN /\ tree' = Moved(tree, p, q)
                /\ Put(c, rest)
                /\ UNCHANGED <<data, fate, raced>> /\ NoFaults
           ELSE Fails(c)

\* A directory is entered; anything else is moved over what has its name.
MoveEntry(c) ==
    /\ Moving(c) /\ Top(c).phase = "entries" /\ Top(c).todo # {}
    /\ LET e == CHOOSE e \in Top(c).todo : TRUE
           p == Append(Top(c).from, e[1])
           q == Append(Top(c).to, e[1])
           rest == SetTop(c, [Top(c) EXCEPT !.todo = @ \ {e}])
       IN  IF e[2] THEN Put(c, [rest EXCEPT !.stack = Append(@, Frame(p, q))])
                        /\ SameTree
           ELSE IF Exists(tree, p) /\ q \in Paths /\ IsDir(tree, Parent(q)) /\ ~IsDir(tree, q)
           THEN /\ tree' = Moved(tree, p, q)
                /\ Put(c, rest)
                /\ UNCHANGED <<data, fate, raced>> /\ NoFaults
           ELSE Fails(c)

RemoveSource(c) ==
    /\ Moving(c) /\ Top(c).phase = "entries" /\ Top(c).todo = {}
    /\ IF IsDir(tree, Top(c).from) /\ Children(tree, Top(c).from) = {}
       THEN /\ tree' = [tree EXCEPT ![Top(c).from] = "absent"]
            /\ IF Len(call[c].stack) = 1 THEN Answer(c, "ok")
               ELSE Put(c, [call[c] EXCEPT !.stack = Parent(@)])
            /\ UNCHANGED <<data, fate, raced>> /\ NoFaults
       ELSE Fails(c)

\* A bug to tell apart: the directory goes with all it holds.
RemoveDirAll(c) ==
    /\ call[c].pc = "rmdir"
    /\ IF IsDir(tree, call[c].path)
       THEN /\ tree' = [p \in Paths |->
                          IF Within(p, call[c].path) THEN "absent" ELSE tree[p]]
            /\ Answer(c, "ok")
            /\ UNCHANGED <<data, fate, raced>> /\ NoFaults
       ELSE Fails(c)

RemoveDir(c) ==
    /\ call[c].pc = "rmdir"
    /\ IF IsDir(tree, call[c].path) /\ Children(tree, call[c].path) = {}
       THEN /\ tree' = [tree EXCEPT ![call[c].path] = "absent"]
            /\ Answer(c, "ok")
            /\ UNCHANGED <<data, fate, raced>> /\ NoFaults
       ELSE Fails(c)

RemoveFile(c) ==
    /\ call[c].pc = "remove"
    /\ IF IsFile(tree, call[c].path)
       THEN /\ tree' = [tree EXCEPT ![call[c].path] = "absent"]
            /\ fate' = [fate EXCEPT ![tree[call[c].path]] = "deleted"]
            /\ Answer(c, "ok")
            /\ UNCHANGED <<data, raced>> /\ NoFaults
       ELSE Fails(c)

(***************************************************************************)
(* Faults: a write that fails after the file was opened, a request that is *)
(* dropped while its handler waits, and the process's end.                 *)
(***************************************************************************)
Fault == faults < MaxFaults /\ faults' = faults + 1
            /\ UNCHANGED <<roots, vmOf, tree, data, fate, made, raced>>

WriteFails(c) == call[c].pc = "write" /\ Fault /\ Answer(c, "none")
Dropped(c) == Busy(c) /\ ~Moving(c) /\ Fault /\ Answer(c, "none")
FilesCrash ==
    /\ \E c \in Callers : Busy(c)
    /\ Fault
    /\ call' = [c \in Callers |-> Idle("none")]

TreeOf(seed) == [p \in Paths |-> IF p \in DOMAIN seed THEN seed[p] ELSE "absent"]
ASSUME SeedsAssumption == \A seed \in Seeds : IsTree(TreeOf(seed))

FilesInit ==
    /\ vmOf \in Machines
    /\ \E seed \in Seeds : tree = TreeOf(seed)
    /\ \E cfg \in Configs :
         ValidateRoots(cfg) /\ FromManifest(cfg, tree) /\ roots = Roots(cfg)
    /\ data = [f \in Inodes |-> IF \E p \in Paths : tree[p] = f
                                THEN CHOOSE x \in Texts : TRUE ELSE Empty]
    /\ fate = [f \in Inodes |->
                 IF \E p \in Paths : tree[p] = f THEN "stored" ELSE "free"]
    /\ call = [c \in Callers |-> Idle("none")]
    /\ made = 0 /\ faults = 0 /\ raced = FALSE

\* The paths that stay within the tree's depth.
Fits(root, rel) == Len(root.path \o rel) <= Depth

Calls(c) ==
    \E root \in roots, rel \in Rels :
        /\ Fits(root, rel)
        /\ \/ \E op \in Ops \ {"rename"}, x \in Texts : Call(c, root, op, rel, <<>>, x)
           \/ \E torel \in Rels, x \in Texts :
                Fits(root, torel) /\ Call(c, root, "rename", rel, torel, x)

Work(c) ==
    \/ Scan(c) \/ ListEntry(c) \/ Read(c)
    \/ OpenNew(c) \/ Truncate(c) \/ Write(c) \/ Mkdir(c)
    \/ StatRename(c) \/ StatDelete(c) \/ StatDownload(c)
    \/ Link(c) \/ Unlink(c)
    \/ MakeTarget(c) \/ ScanSource(c) \/ MoveEntry(c) \/ RemoveSource(c)
    \/ RemoveDir(c) \/ RemoveFile(c)

FilesNext ==
    \/ \E c \in Callers : Calls(c) \/ Work(c) \/ WriteFails(c) \/ Dropped(c)
    \/ FilesCrash

FilesSpec == FilesInit /\ [][FilesNext]_fileVars

------------------------------------------------------------------------------
(***************************************************************************)
(* Properties.                                                             *)
(***************************************************************************)

\* Every variable has its type, and only a directory holds entries.
FilesTypeOK ==
    /\ IsTree(tree)
    /\ data \in [Inodes -> Texts \cup {Empty}]
    /\ fate \in [Inodes -> {"free", "open", "stored", "deleted"}]
    /\ \A c \in Callers :
         /\ call[c].op \in Ops \cup {"none"}
         /\ call[c].file \in Inodes \cup {NoFile}
         /\ call[c].answer \in {"none", "ok", "error", "refused"}

Replaces(t, u, p) == IsFile(t, p) /\ IsFile(u, p) /\ t[p] # u[p]

\* Renaming overwrites no file: the name another file has stays that file's.
\* So the tests of rename and the name of rename_directory_no_overwrite say; a
\* file that appears in the new directory while its entries are being moved is
\* replaced (rename_directory_no_overwrite's fs::rename).
RenameOverwritesNothing == [][\A p \in Paths : ~Replaces(tree, tree', p)]_fileVars

\* No call gives a name in use to another file or empties a file behind its
\* name, except a directory move onto a file that came into its new directory
\* while it ran, an edit of the file, and the write of the call that created it
\* (create_new, hard_link).
NamesKeepTheirFile ==
    [][/\ \A p \in Paths : Replaces(tree, tree', p) =>
            \E c \in Callers : Moving(c) /\ Parent(p) = Top(c).to
       /\ \A f \in Inodes : fate[f] = "stored" /\ data'[f] # data[f] =>
            \E c \in Callers : \/ call[c].op = "edit"
                               \/ call[c].pc = "write" /\ call[c].file = f]_fileVars

\* A file that a call reported stored has a name, whatever was interrupted and
\* whenever the process stopped, as long as it was not deleted and no rename
\* overlapped a call it can lose files to: another rename, a delete, or, when it
\* moves a directory, a call that creates.
KeptUnlessRaced ==
    ~raced => \A f \in Inodes :
                fate[f] = "stored" => \E p \in Paths : tree[p] = f

\* What a call that ran alone promises: all of its effect, or none.
Promise(k, answer, t) ==
    IF answer = "ok"
    THEN CASE k.op = "rename" -> t = Moved(k.before, k.path, k.to)
           [] k.op = "delete" -> t = [k.before EXCEPT ![k.path] = "absent"]
           [] k.op = "mkdir" -> t = [k.before EXCEPT ![k.path] = "dir"]
           [] k.op \in {"create", "upload"} ->
                t = [k.before EXCEPT ![k.path] = k.file] /\ ~Exists(k.before, k.path)
           [] k.op = "list" ->
                t = k.before /\ k.got = Children(t, k.path) \ HiddenNames
           [] OTHER -> t = k.before
    ELSE t = k.before

\* A call that overlapped no other and was not interrupted either did all it
\* was asked to (a directory rename moved every entry at every depth, the
\* hidden ones too) or refused and left the tree as it was.
AloneIsExact ==
    [][\A c \in Callers :
         Busy(c) /\ call[c].alone /\ call'[c].pc = "idle" /\ call'[c].answer # "none"
           => Promise(call[c], call'[c].answer, tree')]_fileVars
==============================================================================
