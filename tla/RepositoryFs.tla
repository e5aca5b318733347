---------------------------- MODULE RepositoryFs ----------------------------
(***************************************************************************)
(* The native repository provider (native/proc17_repository_fs.c): a       *)
(* handle on one repository below a project base, and the calls            *)
(* revalidate, create_text_file, read_text_file, inventory_tree and close, *)
(* one action per system call whose place among the changes of others      *)
(* matters.  A system call may fail; a call that fails closes what it      *)
(* opened and answers in the same step, since no one can see the order in  *)
(* which it does that.                                                     *)
(*                                                                         *)
(* pass counts the times a call has opened the project base and the root   *)
(* by their paths: a read observes its target twice, an inventory scans    *)
(* twice below one opening of the root and then opens it once more.        *)
(***************************************************************************)
EXTENDS HostFs, FiniteSets, TLC

CONSTANTS
  ProjectBase,  \* path of the project base from Host
  Repository,   \* name of the repository in the project base
  Parent, Final,\* the target's directory below the root, and its name
  Content,      \* what create_text_file is asked to write
  Temps,        \* names getrandom may give a temporary file
  MaxRead,      \* max_bytes of read_text_file
  Bounds,       \* bounds of inventory_tree: entries, depth, file, total
  MaxEintr,     \* PROC17_MAX_WRITE_EINTR_RETRIES and ..._READ_...
  MaxCalls,     \* bound: calls made
  MaxFaults     \* bound: system calls that fail of themselves

\* Temporary names are the provider's alone: others and requests do not use
\* them, and the tree begins whole and safe.
ASSUME ProviderAssumption ==
  /\ Final \in Names \ Temps
  /\ Temps \subseteq Names
  /\ Content \in Seq(STRING)
  /\ \A site \in Sites : site[2] \in Names \ Temps
  /\ \A ns \in Trees0, i \in Inodes :
       /\ ns[i].ents \in [Names -> Inodes \cup {None}]
       /\ ns[i].safe = ns[i].ents
       /\ ns[i].kind = "regular" => ns[i].synced /\ ns[i].data \in Contents

VARIABLES
  handle,       \* struct proc17_repository_handle
  pc,           \* the system call the running call is at, "idle" if none
  call,         \* the running call: op, pass, the temporary file's name
  fds,          \* the descriptors it holds open
  held,         \* what a read has in memory: target kind, stat, bytes
  scan,         \* what an inventory has in memory
  eintr,        \* interrupted reads or writes so far
  answer,       \* what the last call returned
  calls, faults,
  tree,         \* history: whether the root is in its place, and what it holds
  seen,         \* history: the trees that held since the call began
  effect,       \* history: whether the running create has published
  doubt,        \* history: whether a create has answered ambiguous
  kept          \* history: where the last file was published, until others
                \* change anything, and whether its create answered created

Target == Append(Parent, Final)
Roles == {"base", "root", "parent", "target", "read", "temp"}

memory == <<call, fds, held, scan, eintr>>
history == <<effect, doubt, kept>>
vars == <<host, handle, pc, memory, answer, calls, faults, tree, seen, history>>

NoHandle == [state |-> "none", base |-> None, root |-> None, pins |-> {}, born |-> 0]
NoCall == [op |-> "none", pass |-> 0, temp |-> "none"]
NoFds == [r \in Roles |-> None]
NoHeld == [kind |-> "none", stat |-> <<>>, data |-> <<>>]
NoKept == [dir |-> None, sure |-> FALSE]
NoScan == [frames |-> <<>>, snaps |-> <<<<>>, <<>>>>, item |-> <<>>, total |-> 0,
           bound |-> FALSE, stable |-> TRUE]

\* Inodes some descriptor keeps from being given out again.
Pinned ==
  handle.pins \cup {fds[r] : r \in Roles}
    \cup {scan.frames[k].dir : k \in 1..Len(scan.frames)}

View == IF handle.state = "open" THEN ViewOf(handle.root) ELSE <<>>
Bound ==
  /\ handle.state = "open"
  /\ Walk(Host, ProjectBase) = handle.base
  /\ Walk(Host, Append(ProjectBase, Repository)) = handle.root
Tree == [bound |-> Bound, view |-> View]

TheFile == [kind |-> "regular", data |-> Content]

-----------------------------------------------------------------------------
Answered(outcome, what) == [outcome |-> outcome, what |-> what]

\* The call returns, with everything it opened closed.
Return(a) ==
  /\ answer' = a
  /\ pc' = "idle"
  /\ call' = NoCall
  /\ fds' = NoFds
  /\ held' = NoHeld
  /\ scan' = NoScan
  /\ eintr' = 0
  /\ effect' = "none"
  /\ doubt' = (doubt \/ a.outcome = "ambiguous")
  /\ kept' = [dir |-> kept.dir, sure |-> kept.sure \/ a.outcome = "created"]

Fault ==
  /\ faults < MaxFaults
  /\ faults' = faults + 1

\* A system call fails because of what it finds, or of itself.
Fails(found) == (found /\ UNCHANGED faults) \/ Fault

FailWorld(found) ==
  /\ Fails(found)
  /\ Return(Answered("world", <<>>))
  /\ UNCHANGED <<host, handle>>

\* The call goes on with its next system call.
On(stage) ==
  /\ pc' = stage
  /\ UNCHANGED <<handle, answer, faults, history>>

\* Closing the call's descriptors: each is gone even if close reports an
\* error, which is the answer then.
CloseAll == fds' = NoFds

-----------------------------------------------------------------------------
\* Requests.

BeginOpen ==
  /\ pc = "idle"
  /\ handle.state = "none"
  /\ calls < MaxCalls
  /\ calls' = calls + 1
  /\ pc' = "base"
  /\ call' = [NoCall EXCEPT !.op = "open", !.pass = 1]
  /\ effect' = "none"
  /\ UNCHANGED <<host, handle, fds, held, scan, eintr, answer, faults, doubt, kept>>

Begin(op) ==
  /\ pc = "idle"
  /\ handle.state = "open"
  /\ calls < MaxCalls
  /\ calls' = calls + 1
  /\ pc' = "base"
  /\ call' = [NoCall EXCEPT !.op = op, !.pass = 1]
  /\ effect' = "none"
  /\ UNCHANGED <<host, handle, fds, held, scan, eintr, answer, faults, doubt, kept>>

BeginRevalidate == Begin("revalidate")
BeginCreate == Begin("create")
BeginRead == Begin("read")
BeginInventory == Begin("inventory")

\* A malformed request, or any request on a closed handle.
Refuse ==
  /\ pc = "idle"
  /\ handle.state # "none"
  /\ calls < MaxCalls
  /\ calls' = calls + 1
  /\ Return(Answered("contract", <<>>))
  /\ UNCHANGED <<host, handle, faults>>

\* close_repository and the collector's handle_gc; the second call finds
\* the handle closed and does nothing.
CloseRepository ==
  /\ pc = "idle"
  /\ handle.state # "none"
  /\ handle' = [NoHandle EXCEPT !.state = "closed"]
  /\ \/ UNCHANGED faults /\ Return(Answered("closed", <<>>))
     \/ handle.state = "open" /\ Fault /\ Return(Answered("world", <<>>))
  /\ UNCHANGED <<host, calls>>

-----------------------------------------------------------------------------
\* open_identity_pair, and the comparison with the handle that follows it.

OpenBase ==
  /\ pc = "base"
  /\ LET i == Walk(Host, ProjectBase) IN
       \/ /\ IsKind(i, "dir")
          /\ fds' = [fds EXCEPT !.base = i]
          /\ On("root")
          /\ UNCHANGED <<host, call, held, scan, eintr>>
       \/ FailWorld(~IsKind(i, "dir"))

RootIsHandles(i) == fds.base = handle.base /\ i = handle.root

\* Mutation: the handle does not keep its descriptors open.
OpenHandleUnpinned(i) ==
  /\ handle' = [state |-> "open", base |-> fds.base, root |-> i, pins |-> {},
                born |-> nodes[i].born]
  /\ Return(Answered("opened", <<>>))
  /\ UNCHANGED <<host, faults>>

\* open_repository keeps both descriptors: they pin the two inode numbers
\* that later calls compare with.
OpenHandle(i) ==
  /\ handle' = [state |-> "open", base |-> fds.base, root |-> i, pins |-> {fds.base, i},
                born |-> nodes[i].born]
  /\ Return(Answered("opened", <<>>))
  /\ UNCHANGED <<host, faults>>

AfterPair ==
  CASE call.op \in {"create", "read"} -> "parent"
    [] call.op = "inventory" /\ call.pass = 1 -> "scan"
    [] OTHER -> "close"

OpenRoot ==
  /\ pc = "root"
  /\ LET i == Lookup(fds.base, Repository) IN
       \/ call.op = "open" /\ IsKind(i, "dir") /\ OpenHandle(i)
       \/ call.op = "open" /\ FailWorld(~IsKind(i, "dir"))
       \/ /\ call.op # "open"
          /\ IsKind(i, "dir")
          /\ RootIsHandles(i)
          /\ fds' = [fds EXCEPT !.root = i]
          /\ On(AfterPair)
          /\ UNCHANGED <<host, call, held, scan, eintr>>
       \/ call.op # "open" /\ FailWorld(~IsKind(i, "dir") \/ ~RootIsHandles(i))

\* openat2 of the target's directory; create also refuses a directory that
\* is not the caller's own (observe_parent_policy), a fault here.
OpenParent ==
  /\ pc = "parent"
  /\ LET i == Walk(fds.root, Parent) IN
       \/ /\ IsKind(i, "dir")
          /\ fds' = [fds EXCEPT !.parent = i]
          /\ On(CASE call.op = "create" -> "temp"
                  [] call.pass = 1 -> "classify"
                  [] OTHER -> "reobserve")
          /\ UNCHANGED <<host, call, held, scan, eintr>>
       \/ FailWorld(~IsKind(i, "dir"))

-----------------------------------------------------------------------------
\* create_file_transaction.

\* A change the provider makes to the file system.
Stamped(ns) ==
  /\ nodes' = ns
  /\ clock' = clock + 1
  /\ UNCHANGED tampers

\* getrandom, then openat with O_CREAT and O_EXCL.
OpenTemp ==
  /\ pc = "temp"
  /\ \/ \E t \in Temps, i \in Unused(Pinned) :
          /\ IsKind(fds.parent, "dir")
          /\ Lookup(fds.parent, t) = None
          /\ Stamped(Bind([nodes EXCEPT ![i] = NewNode("regular", <<>>, FALSE)],
                          fds.parent, t, i, FALSE))
          /\ fds' = [fds EXCEPT !.temp = i]
          /\ call' = [call EXCEPT !.temp = t]
          /\ On("write")
          /\ UNCHANGED <<held, scan, eintr>>
     \/ FailWorld(\/ ~IsKind(fds.parent, "dir")
                  \/ \E t \in Temps : Lookup(fds.parent, t) # None)

\* fail_private: the temporary file is to be removed by its name.
Abandon(found) ==
  /\ Fails(found)
  /\ pc' = "cleanup"
  /\ fds' = [fds EXCEPT !.temp = None]
  /\ UNCHANGED <<handle, answer, history, call, held, scan, eintr>>

Written == Len(nodes[fds.temp].data)

\* fchmod, the check of the new file and the loop of writes, each of which
\* may be short or interrupted.
WriteTemp ==
  /\ pc = "write"
  /\ Written < Len(Content)
  /\ \/ \E n \in 1..(Len(Content) - Written) :
          /\ Stamped([nodes EXCEPT ![fds.temp] =
               [nodes[fds.temp] EXCEPT !.data = SubSeq(Content, 1, Written + n),
                                       !.stamp = clock + 1]])
          /\ On("write")
          /\ UNCHANGED memory
     \/ Abandon(FALSE) /\ UNCHANGED host

\* Mutation: the retries of an interrupted call are not counted.
InterruptedForever(stage, give_up) ==
  /\ eintr' = (eintr + 1) % (MaxEintr + 1)
  /\ On(stage)
  /\ UNCHANGED <<host, call, fds, held, scan>>

\* A read or write is interrupted: it is tried again, at most MaxEintr
\* times in one call.
Interrupted(stage, give_up) ==
  \/ /\ eintr < MaxEintr
     /\ eintr' = eintr + 1
     /\ On(stage)
     /\ UNCHANGED <<host, call, fds, held, scan>>
  \/ /\ eintr = MaxEintr
     /\ give_up

WriteInterrupted ==
  /\ pc = "write"
  /\ Written < Len(Content)
  /\ Interrupted("write", Abandon(TRUE) /\ UNCHANGED host)

\* Mutation: the temporary file is not synced.
SyncTempSkipped ==
  /\ pc = "write"
  /\ Written = Len(Content)
  /\ On("close_temp")
  /\ UNCHANGED <<host, memory>>

SyncTemp ==
  /\ pc = "write"
  /\ Written = Len(Content)
  /\ \/ /\ nodes' = [nodes EXCEPT ![fds.temp] = [nodes[fds.temp] EXCEPT !.synced = TRUE]]
        /\ On("close_temp")
        /\ UNCHANGED <<clock, tampers, memory>>
     \/ Abandon(FALSE) /\ UNCHANGED host

CloseTemp ==
  /\ pc = "close_temp"
  /\ UNCHANGED host
  /\ \/ /\ fds' = [fds EXCEPT !.temp = None]
        /\ On("rename")
        /\ UNCHANGED <<call, held, scan, eintr>>
     \/ Abandon(FALSE)

Renamed ==
  LET i == Lookup(fds.parent, call.temp) IN
    Restamp(Bind(Bind(nodes, fds.parent, call.temp, None, FALSE),
                 fds.parent, Final, i, FALSE), i)

Published ==
  /\ Stamped(Renamed)
  /\ effect' = "published"
  /\ kept' = [dir |-> fds.parent, sure |-> FALSE]

\* renameat2 with RENAME_NOREPLACE; a failure may be reported of a rename
\* that took place.
RenameTemp ==
  /\ pc = "rename"
  /\ LET free == Lookup(fds.parent, Final) = None /\ Lookup(fds.parent, call.temp) # None IN
       \/ /\ free
          /\ Published
          /\ pc' = "sync_parent"
          /\ UNCHANGED <<handle, answer, faults, doubt, memory>>
       \/ /\ free
          /\ Fault
          /\ Published
          /\ pc' = "cleanup"
          /\ UNCHANGED <<handle, answer, doubt, memory>>
       \/ Abandon(~free) /\ UNCHANGED host

\* Mutation: the target's name is removed instead of the temporary one.
RemoveFinal ==
  /\ pc = "cleanup"
  /\ Lookup(fds.parent, Final) # None
  /\ Stamped(Bind(nodes, fds.parent, Final, None, FALSE))
  /\ On("abandoned")
  /\ UNCHANGED memory

\* unlinkat of the temporary name; when it fails the effect is unknown.
RemoveTemp ==
  /\ pc = "cleanup"
  /\ \/ /\ Lookup(fds.parent, call.temp) # None
        /\ Stamped(Bind(nodes, fds.parent, call.temp, None, FALSE))
        /\ On("abandoned")
        /\ UNCHANGED memory
     \/ /\ Fails(Lookup(fds.parent, call.temp) = None)
        /\ Return(Answered("ambiguous", <<>>))
        /\ UNCHANGED <<host, handle>>

FailAfterTempAttempt ==
  /\ pc = "abandoned"
  /\ Return(Answered("world", <<>>))
  /\ UNCHANGED <<host, handle, faults>>

\* fail_published: what the world holds now is not known for sure.
FailPublished ==
  /\ Fault
  /\ Return(Answered("ambiguous", <<>>))
  /\ UNCHANGED <<host, handle>>

SyncParent ==
  /\ pc = "sync_parent"
  /\ \/ /\ nodes' = [nodes EXCEPT ![fds.parent] =
              [nodes[fds.parent] EXCEPT !.safe = nodes[fds.parent].ents]]
        /\ On("close_create")
        /\ UNCHANGED <<clock, tampers, memory>>
     \/ FailPublished

Created == Answered("created", <<>>)

CloseCreate ==
  /\ pc = "close_create"
  /\ \/ /\ Return(Created)
        /\ UNCHANGED <<host, handle, faults>>
     \/ FailPublished

Valid == Answered("valid", <<>>)

\* revalidate closes the pair it opened and answers.
CloseRevalidate ==
  /\ pc = "close"
  /\ call.op = "revalidate"
  /\ \/ /\ Return(Valid)
        /\ UNCHANGED <<host, handle, faults>>
     \/ FailWorld(FALSE)

-----------------------------------------------------------------------------
\* read_file_transaction and reobserve_named_target.

SameFileIdentity(left, right) == left.inode = right.inode /\ left.kind = right.kind

SameFileVersion(left, right) == SameFileIdentity(left, right) /\ left.stamp = right.stamp

Taken(i) == [kind |-> nodes[i].kind, stat |-> Stat(i), data |-> <<>>]

\* openat2 of the name with O_PATH: only a regular file is opened and read.
ClassifyTarget ==
  /\ pc = "classify"
  /\ LET i == Lookup(fds.parent, Final) IN
       \/ /\ i = None
          /\ held' = [NoHeld EXCEPT !.kind = "missing"]
          /\ On("close")
          /\ UNCHANGED <<host, call, fds, scan, eintr>>
       \/ /\ i # None
          /\ held' = Taken(i)
          /\ fds' = [fds EXCEPT !.target = i]
          /\ On(IF nodes[i].kind = "regular" THEN "open_read" ELSE "close")
          /\ UNCHANGED <<host, call, scan, eintr>>
       \/ FailWorld(FALSE)

OpenRead ==
  /\ pc = "open_read"
  /\ LET i == Lookup(fds.parent, Final)
         same == IsKind(i, "regular") /\ SameFileIdentity(held.stat, Stat(i))
     IN
       \/ /\ same
          /\ held' = Taken(i)
          /\ fds' = [fds EXCEPT !.read = i]
          /\ On("read")
          /\ UNCHANGED <<host, call, scan, eintr>>
       \/ FailWorld(~same)

\* What is left of an open file after the bytes read so far.
Rest(i) == Len(nodes[i].data) - Len(held.data)

\* One read of at most upto bytes in all.
TakeBytes(i, upto) ==
  \E n \in 1..Len(nodes[i].data) :
    /\ n <= Rest(i)
    /\ Len(held.data) + n <= upto
    /\ held' = [held EXCEPT !.data =
                  @ \o SubSeq(nodes[i].data, Len(@) + 1, Len(@) + n)]

ReadTarget ==
  /\ pc = "read"
  /\ \/ /\ TakeBytes(fds.read, MaxRead)
        /\ On("read")
        /\ UNCHANGED <<host, call, fds, scan, eintr>>
     \/ /\ Rest(fds.read) <= 0 \/ Len(held.data) = MaxRead
        /\ On("verify")
        /\ UNCHANGED <<host, memory>>
     \/ FailWorld(FALSE)

ReadInterrupted ==
  /\ pc = "read"
  /\ Len(held.data) < MaxRead
  /\ Interrupted("read", FailWorld(TRUE))

\* fstat again: the file must not have changed while it was read.
VerifyRead ==
  /\ pc = "verify"
  /\ \/ /\ SameFileVersion(held.stat, Stat(fds.read))
        /\ On("close")
        /\ UNCHANGED <<host, memory>>
     \/ FailWorld(~SameFileVersion(held.stat, Stat(fds.read)))

Observed ==
  Answered("observed",
    IF held.kind = "missing" THEN <<>>
    ELSE [p \in {Target} |-> [kind |-> held.kind, data |-> held.data]])

\* After the first pass everything is closed and the target is looked up
\* again from the project base; after the second the answer is given.
CloseRead ==
  /\ pc = "close"
  /\ call.op = "read"
  /\ \/ /\ call.pass = 1
        /\ CloseAll
        /\ call' = [call EXCEPT !.pass = 2]
        /\ On("base")
        /\ UNCHANGED <<host, held, scan, eintr>>
     \/ /\ call.pass = 2
        /\ Return(Observed)
        /\ UNCHANGED <<host, handle, faults>>
     \/ FailWorld(FALSE)

Reobserve ==
  /\ pc = "reobserve"
  /\ LET i == Lookup(fds.parent, Final)
         same == IF held.kind = "missing" THEN i = None
                 ELSE i # None /\ SameFileVersion(held.stat, Stat(i))
     IN
       \/ /\ same
          /\ fds' = [fds EXCEPT !.target = i]
          /\ On("close")
          /\ UNCHANGED <<host, call, held, scan, eintr>>
       \/ FailWorld(~same)

-----------------------------------------------------------------------------
\* inventory_tree: collect_inventory_directory and read_inventory_file.

Frame(i, path) == [dir |-> i, path |-> path, left |-> {}]
Top == scan.frames[Len(scan.frames)]
Snap == scan.snaps[call.pass]
Named == Lookup(Top.dir, scan.item[Len(scan.item)])

\* A pass begins with an openat of "." below the root.
ScanRoot ==
  /\ pc = "scan"
  /\ \/ /\ scan' = [scan EXCEPT !.frames = <<Frame(fds.root, <<>>)>>, !.total = 0]
        /\ On("list")
        /\ UNCHANGED <<host, call, fds, held, eintr>>
     \/ FailWorld(FALSE)

\* readdir: the names of one directory are taken at once.
ListDirectory ==
  /\ pc = "list"
  /\ \/ /\ scan' = [scan EXCEPT !.frames[Len(scan.frames)].left =
                      {n \in Names : Lookup(Top.dir, n) # None}]
        /\ On("item")
        /\ UNCHANGED <<host, call, fds, held, eintr>>
     \/ FailWorld(FALSE)

\* No more is scanned.
EndScan(bound, stable) ==
  /\ scan' = [scan EXCEPT !.frames = <<>>, !.bound = bound, !.stable = stable]
  /\ fds' = [fds EXCEPT !.read = None]
  /\ held' = NoHeld
  /\ On("close_scan")
  /\ UNCHANGED <<host, call, eintr>>

\* A bound is met: the first pass ends the scanning there, the second then
\* differs from the first.
Exceeded == EndScan(call.pass = 1, call.pass = 1)

\* Something changed under the scan: the first pass gives up, the second
\* makes the inventory unstable.
Unstable ==
  \/ call.pass = 1 /\ FailWorld(TRUE)
  \/ call.pass = 2 /\ EndScan(FALSE, FALSE)

\* fstatat of one listed name, under the bounds.
StatItem(n) ==
  LET i == Lookup(Top.dir, n)
      path == Append(Top.path, n)
      size == IF IsKind(i, "regular") THEN Len(nodes[i].data) ELSE 0
      deep == Len(path) > Bounds.depth
      large == size > Bounds.file \/ size > Bounds.total - scan.total
      full == Cardinality(DOMAIN Snap) >= Bounds.entries
  IN
    \/ (deep \/ (i # None /\ (large \/ full))) /\ Exceeded
    \/ ~deep /\ i = None /\ Unstable
    \/ /\ ~deep /\ i # None /\ ~large /\ ~full
       /\ scan' = [scan EXCEPT
            !.frames[Len(scan.frames)].left = @ \ {n},
            !.item = path,
            !.total = @ + size,
            !.snaps[call.pass] = (path :> [kind |-> nodes[i].kind, before |-> Stat(i),
                                           after |-> Stat(i), size |-> size,
                                           data |-> <<>>]) @@ @]
       /\ On(CASE nodes[i].kind = "regular" /\ call.pass = 1 -> "open_file"
               [] nodes[i].kind = "dir" -> "open_child"
               [] OTHER -> "item")
       /\ UNCHANGED <<host, call, fds, held, eintr>>

\* compare_inventory_snapshots, after both are sorted by path: the same
\* paths, and each object in the version the first pass left it in.
SameSnapshots ==
  /\ DOMAIN scan.snaps[1] = DOMAIN scan.snaps[2]
  /\ \A p \in DOMAIN scan.snaps[1] :
       SameFileVersion(scan.snaps[1][p].after, scan.snaps[2][p].before)

\* Mutation: only the paths and kinds of the two passes are compared.
EndFirstOrSecondByName ==
  \/ /\ call.pass = 1
     /\ call' = [call EXCEPT !.pass = 2]
     /\ scan' = [scan EXCEPT !.frames = <<>>]
     /\ On("scan")
     /\ UNCHANGED <<host, fds, held, eintr>>
  \/ /\ call.pass = 2
     /\ EndScan(FALSE, \A p \in DOMAIN scan.snaps[1] \cup DOMAIN scan.snaps[2] :
                         /\ p \in DOMAIN scan.snaps[1] /\ p \in DOMAIN scan.snaps[2]
                         /\ scan.snaps[1][p].kind = scan.snaps[2][p].kind)

\* The whole tree has been scanned: once more, or compared.
EndFirstOrSecond ==
  \/ /\ call.pass = 1
     /\ call' = [call EXCEPT !.pass = 2]
     /\ scan' = [scan EXCEPT !.frames = <<>>]
     /\ On("scan")
     /\ UNCHANGED <<host, fds, held, eintr>>
  \/ /\ call.pass = 2
     /\ EndScan(FALSE, SameSnapshots)

\* The directory is read to its end: back to the one above it.
LeaveDirectory ==
  \/ /\ Len(scan.frames) > 1
     /\ scan' = [scan EXCEPT !.frames = SubSeq(@, 1, Len(@) - 1)]
     /\ On("item")
     /\ UNCHANGED <<host, call, fds, held, eintr>>
  \/ /\ Len(scan.frames) = 1
     /\ EndFirstOrSecond

ScanItem ==
  /\ pc = "item"
  /\ \/ \E n \in Top.left : StatItem(n)
     \/ Top.left = {} /\ LeaveDirectory
     \/ FailWorld(FALSE)

\* A file of the first pass: opened, and still the one fstatat saw.
OpenFile ==
  /\ pc = "open_file"
  /\ LET same == /\ IsKind(Named, "regular")
                 /\ SameFileIdentity(Snap[scan.item].before, Stat(Named))
     IN
       \/ /\ same
          /\ fds' = [fds EXCEPT !.read = Named]
          /\ held' = Taken(Named)
          /\ scan' = [scan EXCEPT !.snaps[1][scan.item].before = Stat(Named)]
          /\ eintr' = 0
          /\ On("read_file")
          /\ UNCHANGED <<host, call>>
       \/ FailWorld(~same)

\* As many bytes as fstatat saw are read, then no more may follow.
ReadFile ==
  /\ pc = "read_file"
  /\ LET size == Snap[scan.item].size
         read == Len(held.data)
     IN
       \/ /\ TakeBytes(fds.read, size)
          /\ On("read_file")
          /\ UNCHANGED <<host, call, fds, scan, eintr>>
       \/ /\ Rest(fds.read) <= 0 /\ read = size
          /\ On("verify_file")
          /\ UNCHANGED <<host, memory>>
       \/ FailWorld((Rest(fds.read) <= 0) # (read = size))

FileInterrupted ==
  /\ pc = "read_file"
  /\ Interrupted("read_file", FailWorld(TRUE))

VerifyFile ==
  /\ pc = "verify_file"
  /\ \/ /\ SameFileVersion(held.stat, Stat(fds.read))
        /\ scan' = [scan EXCEPT !.snaps[1][scan.item].after = held.stat,
                                !.snaps[1][scan.item].data = held.data]
        /\ fds' = [fds EXCEPT !.read = None]
        /\ held' = NoHeld
        /\ On("item")
        /\ UNCHANGED <<host, call, eintr>>
     \/ FailWorld(~SameFileVersion(held.stat, Stat(fds.read)))

\* A directory: opened, still the one fstatat saw, and scanned.  The
\* version kept is that of the opening, before its entries are read.  A
\* failing fstat counts as a change.
OpenChild ==
  /\ pc = "open_child"
  /\ LET same == /\ IsKind(Named, "dir")
                 /\ SameFileIdentity(Snap[scan.item].before, Stat(Named))
     IN
       \/ /\ same
          /\ scan' = [scan EXCEPT
               !.snaps[call.pass][scan.item].after = Stat(Named),
               !.frames = Append(@, Frame(Named, scan.item))]
          /\ On("list")
          /\ UNCHANGED <<host, call, fds, held, eintr>>
       \/ (~same \/ faults < MaxFaults) /\ Unstable
       \/ FailWorld(FALSE)

\* The root's descriptors are closed and the root is opened by its path
\* once more.
CloseScan ==
  /\ pc = "close_scan"
  /\ \/ /\ CloseAll
        /\ call' = [call EXCEPT !.pass = 3]
        /\ On("base")
        /\ UNCHANGED <<host, held, scan, eintr>>
     \/ FailWorld(FALSE)

\* The answer lists the objects as the first pass found them.
Inventory ==
  Answered(CASE scan.bound -> "bound_exceeded"
             [] ~scan.bound /\ scan.stable -> "stable"
             [] OTHER -> "unstable",
           [p \in DOMAIN scan.snaps[1] |->
              [kind |-> scan.snaps[1][p].kind, data |-> scan.snaps[1][p].data]])

CloseInventory ==
  /\ pc = "close"
  /\ call.op = "inventory"
  /\ \/ /\ Return(Inventory)
        /\ UNCHANGED <<host, handle, faults>>
     \/ FailWorld(FALSE)

-----------------------------------------------------------------------------
\* The running call, alone and single-threaded.
Step ==
  \/ OpenBase \/ OpenRoot \/ OpenParent
  \/ OpenTemp \/ WriteTemp \/ WriteInterrupted \/ SyncTemp \/ CloseTemp
  \/ RenameTemp \/ RemoveTemp \/ FailAfterTempAttempt \/ SyncParent \/ CloseCreate
  \/ CloseRevalidate
  \/ ClassifyTarget \/ OpenRead \/ ReadTarget \/ ReadInterrupted \/ VerifyRead
  \/ CloseRead \/ Reobserve
  \/ ScanRoot \/ ListDirectory \/ ScanItem \/ OpenFile \/ ReadFile \/ FileInterrupted
  \/ VerifyFile \/ OpenChild \/ CloseScan \/ CloseInventory

Request ==
  \/ BeginOpen
  \/ BeginRevalidate \/ BeginCreate \/ BeginRead \/ BeginInventory
  \/ Refuse
  \/ CloseRepository

\* Others change something, as long as a call is left to see it.
Disturb ==
  /\ pc # "idle" \/ calls < MaxCalls
  /\ Others(Pinned)
  /\ kept' = NoKept
  /\ UNCHANGED <<handle, pc, memory, answer, calls, faults, effect, doubt>>

\* The trees of the running call.
Witness ==
  /\ tree' = Tree'
  /\ seen' = IF pc' = "idle" THEN {} ELSE (IF pc = "idle" THEN {} ELSE seen) \cup {tree'}

Init ==
  /\ InitHost
  /\ handle = NoHandle
  /\ pc = "idle"
  /\ call = NoCall
  /\ fds = NoFds
  /\ held = NoHeld
  /\ scan = NoScan
  /\ eintr = 0
  /\ answer = Answered("none", <<>>)
  /\ calls = 0
  /\ faults = 0
  /\ tree = Tree
  /\ seen = {}
  /\ effect = "none"
  /\ doubt = FALSE
  /\ kept = NoKept

Progress == Step /\ UNCHANGED calls /\ Witness

Next == Progress \/ (Request /\ Witness) \/ (Disturb /\ Witness)

Spec == Init /\ [][Next]_vars /\ WF_vars(Progress)

-----------------------------------------------------------------------------
\* The provider keeps its contract: whatever others do while a call runs, a
\* read and a stable inventory report what the repository held at one
\* instant of the call, a root reported valid was in its place, a create
\* that answers created has published, one that answers world has not and
\* has left nothing, and it publishes whole, once and over nothing.
Contract == INSTANCE RepositoryContract WITH call <- call.op

ContractSpec == Contract!Spec

\* No step of the provider changes anything in the repository but its
\* temporary files and the target, and that only from absent to complete
\* (RENAME_NOREPLACE in publish_no_replace).
OnlyPublishes ==
  [][tampers' = tampers /\ handle' = handle =>
       \A p \in DOMAIN tree.view \cup DOMAIN tree'.view :
         \/ p[Len(p)] \in Temps
         \/ p \in DOMAIN tree.view /\ p \in DOMAIN tree'.view /\ tree'.view[p] = tree.view[p]
         \/ p = Target /\ p \notin DOMAIN tree.view /\ tree'.view[p] = TheFile]_vars

\* A machine crash at any instant leaves, under the target's name, nothing
\* or a whole file, in every directory; and a file whose creation was
\* reported is still there, as long as others have changed nothing since its
\* publication (fsync_temp before the rename, fsync_parent after it).
CrashSafe ==
  /\ \A i \in Inodes :
       nodes[i].kind = "dir" =>
         \A j \in {nodes[i].ents[Final], nodes[i].safe[Final]} \ {None} :
           nodes[j].kind = "regular" =>
             nodes[j].synced /\ nodes[j].data \in Contents \cup {Content}
  /\ kept.sure /\ kept.dir # None =>
       /\ nodes[kept.dir].safe[Final] = nodes[kept.dir].ents[Final]
       /\ Thing(nodes[kept.dir].safe[Final]) = TheFile

\* A call works below the very directory the handle was opened on, not
\* below another one that was given its inode number: the handle's
\* descriptors pin it (handle_repository_identity_equal compares numbers).
RootGenuine ==
  call.op # "open" /\ fds.root # None => nodes[fds.root].born = handle.born

\* Every call ends, however often it is interrupted (the retry bounds of
\* write_temp and read_target).
CallEnds == pc # "idle" ~> pc = "idle"

=============================================================================
