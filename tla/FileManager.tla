----------------------------- MODULE FileManager -----------------------------
(***************************************************************************)
(* file_manager.rs: the changes a user makes below an instance's core      *)
(* directory.  A path is the sequence of its names, as safe_join leaves    *)
(* it.  What the file system does with a path too long is its answer to    *)
(* any path beyond the bound.                                              *)
(*                                                                         *)
(* The handlers take no lock and no guard: requests run into each other,   *)
(* and into the instance and its jobs (Outside).  Those that take several  *)
(* files go file by file and may be cut off between two.  Looking at one   *)
(* path and calling the file system for it is one step here, a directory   *)
(* is made and opened in one step and a file is read and written in one;   *)
(* what others do in between is covered by the failures of the step and by *)
(* the names a directory may show or not.  A writer that takes its time is *)
(* two changes, with "empty" between them.                                 *)
(***************************************************************************)
EXTENDS Naturals, SequencesExt

CONSTANTS
  Names,        \* file names
  MaxDepth,     \* bound: names in a path the file system accepts
  SourceLists,  \* the lists of paths a request may name
  DestDirs,     \* the directories it may name to copy or move them into
  InitialTrees, \* the trees a behaviour may begin with
  FileCalls,    \* requests about several files that can be under way at once
  MaxChanges    \* bound: requests and changes from outside of a behaviour

Contents == {"x", "y", "empty"}
FilePaths == UNION {[1..n -> Names] : n \in 0..MaxDepth}
Core == <<>>
Below == FilePaths \ {Core}

\* A tree: everything above what is there is a directory.
Under(p, q) == IsPrefix(p, q)
Trees ==
  {t \in [FilePaths -> {"none", "dir"} \cup Contents] :
     \A p \in FilePaths : t[p] # "none" =>
       \A q \in FilePaths : Under(q, p) /\ q # p => t[q] = "dir"}

\* A request names what is below core: core is not one of the names in it.
ASSUME FilesAssumption ==
  /\ MaxDepth \in Nat /\ MaxChanges \in Nat
  /\ InitialTrees \subseteq Trees
  /\ SourceLists \subseteq Seq(Below) /\ DestDirs \subseteq FilePaths

VARIABLES
  fs,       \* [path -> "none", "dir" or the contents of the file]
  change,   \* [call -> the request under way]
  known,    \* history: [call -> [path -> what was there when the present source
            \* of a copy was begun, or "touched" if anyone else has changed it]]
  changes   \* requests and changes from outside so far

filesVars == <<fs, change, known, changes>>

NoChange == [op |-> "none", todo |-> <<>>, dest |-> Core, stack |-> <<>>, reported |-> {}]
Unknown  == [p \in FilePaths |-> "touched"]

Exists(p) == p \in FilePaths /\ fs[p] # "none"
IsDir(p) == p \in FilePaths /\ fs[p] = "dir"
IsFile(p) == p \in FilePaths /\ fs[p] \in Contents
Entries(t, p) == {n \in Names : p \o <<n>> \in FilePaths /\ t[p \o <<n>>] # "none"}

FilesInit ==
  /\ fs \in InitialTrees
  /\ change = [r \in FileCalls |-> NoChange]
  /\ known = [r \in FileCalls |-> Unknown] /\ changes = 0

\* create_dir_all: nothing above the path may be a file.
CanMakeDirs(p) ==
  p \in FilePaths /\ \A q \in FilePaths : Under(q, p) => ~IsFile(q)
WithDirs(t, p) == [q \in FilePaths |-> IF Under(q, p) /\ t[q] = "none" THEN "dir" ELSE t[q]]
TryMakeDirs(p) == IF CanMakeDirs(p) THEN WithDirs(fs, p) ELSE fs

\* rename(2): a file replaces a file, a directory an empty one or none, and
\* nothing goes below itself.
CanRename(t, p, q) ==
  /\ t[p] # "none" /\ q # Core /\ t[Front(q)] = "dir"
  /\ \/ p = q
     \/ /\ ~Under(p, q)
        /\ IF t[p] = "dir" THEN t[q] = "none" \/ (t[q] = "dir" /\ Entries(t, q) = {})
           ELSE t[q] # "dir"
Rest(p, s) == SubSeq(s, Len(p) + 1, Len(s))
Renamed(t, p, q) ==
  IF p = q THEN t
  ELSE [s \in FilePaths |-> IF Under(q, s) THEN (IF p \o Rest(q, s) \in FilePaths THEN t[p \o Rest(q, s)] ELSE "none")
                            ELSE IF Under(p, s) THEN "none" ELSE t[s]]
\* The bound: nothing is renamed to a path the model does not have.
FitsBelow(t, p, q) ==
  q \in FilePaths /\ \A s \in FilePaths : Under(p, s) /\ t[s] # "none" => q \o Rest(p, s) \in FilePaths

Without(p) == [q \in FilePaths |-> IF Under(p, q) THEN "none" ELSE fs[q]]
-----------------------------------------------------------------------------
(* What a call knows: its own steps leave that alone, those of others do not. *)

Noted(s, written) ==
  [p \in FilePaths |-> IF p \in written \/ fs'[p] # fs[p] THEN "touched" ELSE known[s][p]]

\* Call r goes on to c, and knows k from now on.
Advance(r, c, k, written) ==
  /\ change' = [change EXCEPT ![r] = c]
  /\ known' = [s \in FileCalls |-> IF s = r THEN k ELSE Noted(s, written)]

\* With the next source of a copy, what is there then counts.
Fresh(c) == IF c.op = "copy" /\ c.todo # <<>> THEN fs' ELSE Unknown

\* A change in one go, by no call.
AtOnce(written) ==
  /\ changes' = changes + 1
  /\ known' = [s \in FileCalls |-> Noted(s, written)]
  /\ UNCHANGED change

\* A change more; and what resolve_root asks of a request.
InBounds == changes < MaxChanges
MayBegin == InBounds /\ fs[Core] = "dir"
-----------------------------------------------------------------------------
\* file_content_post; the disk may be full after the file was truncated.
CanWrite(p) == fs[Front(p)] = "dir" /\ fs[p] # "dir"
WriteContent(p, x) ==
  /\ MayBegin /\ CanWrite(p)
  /\ fs' \in {[fs EXCEPT ![p] = x], [fs EXCEPT ![p] = "empty"]}
  /\ AtOnce({p})

\* file_mkdir.
MakeDirectory(p) ==
  /\ MayBegin /\ ~Exists(p) /\ CanMakeDirs(p)
  /\ fs' = WithDirs(fs, p)
  /\ AtOnce({})

\* file_rename: the directories above the new path are made, even if the
\* renaming then fails.
RenamePath(p, q) ==
  LET made == TryMakeDirs(Front(q)) IN
  /\ MayBegin /\ Exists(p) /\ FitsBelow(made, p, q)
  /\ fs' \in {made} \cup (IF CanRename(made, p, q) THEN {Renamed(made, p, q)} ELSE {})
  /\ AtOnce({})

\* The instance's process, an update, a repair or a user of the machine; these
\* may take core itself away, or bring it back.
Outside ==
  /\ InBounds
  /\ \/ \E p \in FilePaths : Exists(p) /\ fs' = Without(p) /\ AtOnce({})
     \/ \E p \in FilePaths : ~Exists(p) /\ CanMakeDirs(p) /\ fs' = WithDirs(fs, p) /\ AtOnce({})
     \/ \E p \in Below, x \in Contents :
          CanWrite(p) /\ fs' = [fs EXCEPT ![p] = x] /\ AtOnce({p})

\* file_delete, file_copy, file_move begin; the last two make the directory
\* they are given.
BeginMany(r, op, sources, dest) ==
  LET c == [op |-> op, todo |-> sources, dest |-> dest, stack |-> <<>>, reported |-> {}] IN
  /\ MayBegin /\ change[r] = NoChange
  /\ changes' = changes + 1
  /\ fs' = IF op = "delete" THEN fs ELSE TryMakeDirs(dest)
  /\ Advance(r, c, Fresh(c), {})

Source(r) == Head(change[r].todo)
Target(r) == change[r].dest \o <<Last(Source(r))>>
AtSource(r, op) == change[r].op = op /\ change[r].stack = <<>> /\ change[r].todo # <<>>

\* The present source is done with, and reported or not.
NextSource(r, done, written) ==
  LET c == [change[r] EXCEPT !.todo = Tail(@), !.stack = <<>>,
                             !.reported = IF done THEN @ \cup {Source(r)} ELSE @] IN
  /\ Advance(r, c, Fresh(c), written)
  /\ UNCHANGED changes

\* It goes on, with other directories entered.
Continue(r, stack, written) ==
  /\ Advance(r, [change[r] EXCEPT !.stack = stack], known[r], written)
  /\ UNCHANGED changes

\* One path of file_delete: remove_dir_all takes a directory apart, ...
DeletePart(r) ==
  /\ AtSource(r, "delete")
  /\ \E p \in FilePaths : Under(Source(r), p) /\ p # Source(r) /\ Exists(p) /\ fs' = Without(p)
  /\ Continue(r, <<>>, {})

\* ... or fails with some of it gone.
DeleteSource(r) ==
  /\ AtSource(r, "delete")
  /\ \/ Exists(Source(r)) /\ fs' = Without(Source(r)) /\ NextSource(r, TRUE, {})
     \/ fs' = fs /\ NextSource(r, FALSE, {})

\* One source of file_move.
MoveSource(r) ==
  /\ AtSource(r, "move")
  /\ \/ /\ Target(r) \in FilePaths /\ CanRename(fs, Source(r), Target(r))
        /\ FitsBelow(fs, Source(r), Target(r))
        /\ fs' = Renamed(fs, Source(r), Target(r)) /\ NextSource(r, TRUE, {})
     \/ fs' = fs /\ NextSource(r, FALSE, {})

CopyFile_KeepsTarget(p, q) ==
  fs' = [WithDirs(fs, Front(q)) EXCEPT ![q] = IF @ = "none" THEN fs[p] ELSE @]

\* copy_file: the source is opened before the target is truncated, and so is
\* truncated itself if it is the target.
CanCopy(p, q) ==
  IsFile(p) /\ q \in FilePaths /\ fs[q] # "dir" /\ CanMakeDirs(Front(q))
CopyFile(p, q) ==
  fs' = [WithDirs(fs, Front(q)) EXCEPT ![q] = IF p = q THEN "empty" ELSE fs[p]]

\* A copy of p to q that fails: with directories made, or the target truncated.
CopyFails(r, p, q) ==
  /\ fs' \in {fs, TryMakeDirs(Front(q)), TryMakeDirs(q)}
             \cup (IF CanCopy(p, q) THEN {[WithDirs(fs, Front(q)) EXCEPT ![q] = "empty"]} ELSE {})
  /\ NextSource(r, FALSE, {q})

\* copy_dir_recursive enters a directory: its target is made, then it is read.
\* Entries that come while it is read may be among the names.
Enter(r, p, q, below) ==
  /\ CanMakeDirs(q) /\ fs' = WithDirs(fs, q)
  /\ \E later \in SUBSET Names :
       Continue(r, <<[from |-> p, to |-> q, names |-> Entries(fs', p) \cup later]>> \o below, {})

\* One source of file_copy, a directory or not.
CopySource(r) ==
  LET p == Source(r)
      q == Target(r)
  IN  /\ AtSource(r, "copy")
      /\ \/ IsDir(p) /\ Enter(r, p, q, <<>>)
         \/ CanCopy(p, q) /\ CopyFile(p, q) /\ NextSource(r, TRUE, {q})
         \/ CopyFails(r, p, q)

Top(r) == Head(change[r].stack)
InDir(r) == change[r].stack # <<>>

\* One entry of the directory being copied.  One that is gone again may have been
\* read or not; an error ends the whole source.
CopyEntry(r) ==
  /\ InDir(r)
  /\ \E n \in Top(r).names :
       LET p == Top(r).from \o <<n>>
           q == Top(r).to \o <<n>>
           rest == <<[Top(r) EXCEPT !.names = @ \ {n}]>> \o Tail(change[r].stack)
       IN  \/ ~Exists(p) /\ fs' = fs /\ Continue(r, rest, {})
           \/ IsDir(p) /\ Enter(r, p, q, rest)
           \/ CanCopy(p, q) /\ CopyFile(p, q) /\ Continue(r, rest, {q})
           \/ CopyFails(r, p, q)

\* A directory is copied, and with the last one its source is; or the reading
\* of it failed.
CopyReturns(r) ==
  /\ InDir(r) /\ fs' = fs
  /\ \/ Top(r).names = {} /\ Len(change[r].stack) = 1 /\ NextSource(r, TRUE, {})
     \/ Top(r).names = {} /\ Len(change[r].stack) > 1 /\ Continue(r, Tail(change[r].stack), {})
     \/ NextSource(r, FALSE, {})

\* The answer; or the client has disconnected, or the launcher was killed.
EndChange(r) ==
  /\ change[r] # NoChange
  /\ fs' = fs /\ UNCHANGED changes
  /\ Advance(r, NoChange, Unknown, {})
-----------------------------------------------------------------------------
FilesNext ==
  \/ \E p \in Below : \/ \E x \in Contents : WriteContent(p, x)
                      \/ MakeDirectory(p)
                      \/ \E q \in Below : RenamePath(p, q)
  \/ Outside
  \/ \E r \in FileCalls :
       \/ \E sources \in SourceLists, dest \in DestDirs :
            \E op \in {"delete", "copy", "move"} : BeginMany(r, op, sources, dest)
       \/ DeletePart(r) \/ DeleteSource(r) \/ MoveSource(r)
       \/ CopySource(r) \/ CopyEntry(r) \/ CopyReturns(r)
       \/ EndChange(r)

FilesSpec == FilesInit /\ [][FilesNext]_filesVars
-----------------------------------------------------------------------------
Frames == [from : FilePaths, to : FilePaths, names : SUBSET Names]
FileChanges ==
  [op : {"none", "delete", "copy", "move"}, todo : Seq(Below), dest : FilePaths,
   stack : Seq(Frames), reported : SUBSET FilePaths]

\* The types: what is there is in a directory.
FilesTypeOK ==
  /\ fs \in Trees
  /\ change \in [FileCalls -> FileChanges]
  /\ known \in [FileCalls -> [FilePaths -> {"none", "dir", "touched"} \cup Contents]]
  /\ changes \in 0..MaxChanges

Reports(r) ==
  change[r].op = "copy" /\ change'[r].op = "copy" /\ change'[r].reported # change[r].reported

\* Where p is copied to.
Copied(r, p) == Target(r) \o Rest(Source(r), p)

\* A source that is reported copied, and neither contains its target nor is in
\* it: whatever other requests, jobs and the instance do meanwhile, each of its
\* files that nobody else touches has arrived where nobody else writes, and what
\* nobody else touches outside the target is as it was when the copying of the
\* source began, but for directories made on the way to the target
\* (file_manager.rs:311-329, 372-394).
CopiedIsThere ==
  [][\A r \in FileCalls :
       Reports(r) /\ ~Under(Source(r), Target(r)) /\ ~Under(Target(r), Source(r)) =>
         /\ \A p \in FilePaths :
              /\ Under(Source(r), p) /\ known[r][p] \in Contents
              /\ Copied(r, p) \in FilePaths => known[r][Copied(r, p)] # "touched"
              => fs'[Copied(r, p)] = known[r][p]
         /\ \A p \in FilePaths :
              ~Under(Target(r), p) /\ known[r][p] # "touched" =>
                \/ fs'[p] = known[r][p]
                \/ Under(p, Target(r)) /\ known[r][p] = "none" /\ fs'[p] = "dir"]_filesVars

\* "Copy sources into dest_dir. Files overwrite." (file_manager.rs:288): a
\* source that is reported copied still has its files, unless somebody else
\* touched them.
CopyKeepsSources ==
  [][\A r \in FileCalls : Reports(r) =>
       \A p \in FilePaths :
         Under(Source(r), p) /\ known[r][p] # "touched" => fs'[p] = known[r][p]]_filesVars
=============================================================================
