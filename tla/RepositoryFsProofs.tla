------------------------- MODULE RepositoryFsProofs -------------------------
(***************************************************************************)
(* TLAPS proofs about RepositoryFs, for every initial tree, every set of   *)
(* places others change, and any number of calls, faults and changes:      *)
(* RootInv (the root of a call), FileInv (what a crash leaves and what a   *)
(* step of the provider may change) and EffectInv (what a create answers). *)
(***************************************************************************)
EXTENDS RepositoryFs, TLAPS

-----------------------------------------------------------------------------
\* The root of a call is the root of the handle.

Shaped(ns) ==
  /\ DOMAIN ns = Inodes
  /\ \A i \in Inodes : DOMAIN ns[i] = NodeFields

\* No inode but those in free begins a new life.
SameLives(old, new, free) ==
  /\ Shaped(new)
  /\ \A i \in Inodes \ free : new[i].born = old[i].born

\* Setting an entry, restamping and creating keep the shape and the lives.
LEMMA BindLives ==
  ASSUME NEW ns, Shaped(ns), NEW dir, NEW n, NEW i
  PROVE  /\ SameLives(ns, Bind(ns, dir, n, i, TRUE), {})
         /\ SameLives(ns, Bind(ns, dir, n, i, FALSE), {})
  BY DEF Shaped, SameLives, Bind, NodeFields

LEMMA RestampLives ==
  ASSUME NEW ns, Shaped(ns), NEW i
  PROVE  SameLives(ns, Restamp(ns, i), {})
  BY DEF Shaped, SameLives, Restamp, NodeFields

LEMMA CreateLives ==
  ASSUME NEW ns, Shaped(ns), NEW i, NEW kind, NEW data, NEW ended
  PROVE  SameLives(ns, [ns EXCEPT ![i] = NewNode(kind, data, ended)], {i})
  BY DEF Shaped, SameLives, NewNode, NodeFields

\* The lives of a handle's root are pinned, and a call's root is its handle's.
HandlePinned ==
  handle.state = "open" =>
    /\ handle.root \in Inodes
    /\ handle.root \in handle.pins
    /\ nodes[handle.root].born = handle.born

CallRooted ==
  /\ DOMAIN call = {"op", "pass", "temp"}
  /\ DOMAIN fds = Roles
  /\ pc = "idle" => call.op = "none" /\ fds.root = None
  /\ pc # "idle" /\ call.op # "open" => handle.state = "open"
  /\ call.op # "open" /\ fds.root # None => handle.state = "open" /\ fds.root = handle.root

RootInv == Shaped(nodes) /\ HandlePinned /\ CallRooted

\* A step at the end of a call.
Ends == \E a : Return(a) /\ UNCHANGED <<host, handle>>

\* A step within a call.
Goes ==
  /\ pc # "idle" /\ pc' # "idle"
  /\ handle' = handle
  /\ DOMAIN call' = DOMAIN call /\ call'.op = call.op
  /\ DOMAIN fds' = Roles /\ fds'.root \in {None, fds.root, handle.root}
  /\ SameLives(nodes, nodes', Unused(Pinned))

LEMMA UnusedNotPinned == \A i \in Unused(Pinned) : i \notin handle.pins
  BY DEF Unused, Pinned

LEMMA UnchangedLives ==
  ASSUME Shaped(nodes), nodes' = nodes, NEW free
  PROVE  SameLives(nodes, nodes', free)
  BY DEF SameLives, Shaped

\* A change of file system that starts no life but those of unused inodes.
LEMMA HandleStaysPinned ==
  ASSUME HandlePinned, handle' = handle, SameLives(nodes, nodes', Unused(Pinned))
  PROVE  HandlePinned'
  BY UnusedNotPinned DEF HandlePinned, SameLives

LEMMA EndsKeepsRoot ==
  ASSUME RootInv, Ends
  PROVE  RootInv'
  BY DEF RootInv, Shaped, HandlePinned, CallRooted, Ends, Return, NoCall, NoFds, host, Roles

LEMMA GoesKeepsRoot ==
  ASSUME RootInv, Goes
  PROVE  RootInv'
  <1>1. Shaped(nodes)' /\ HandlePinned'
    BY HandleStaysPinned DEF RootInv, Goes, SameLives
  <1>2. CallRooted'
    BY DEF RootInv, CallRooted, Goes
  <1> QED
    BY <1>1, <1>2 DEF RootInv

\* A failing system call ends the call.
LEMMA FailWorldEnds ==
  ASSUME NEW found, FailWorld(found)
  PROVE  Ends
  BY DEF FailWorld, Ends

\* A step that goes on, and what it leaves alone.
LEMMA OnGoes ==
  ASSUME RootInv, pc # "idle", NEW stage, stage # "idle", On(stage),
         SameLives(nodes, nodes', Unused(Pinned)),
         DOMAIN call' = DOMAIN call, call'.op = call.op,
         DOMAIN fds' = Roles, fds'.root \in {None, fds.root, handle.root}
  PROVE  Goes
  BY DEF Goes, On

LEMMA OpenSteps ==
  ASSUME RootInv, OpenBase \/ OpenParent
  PROVE  Goes \/ Ends
  <1> USE DEF RootInv
  <1>1. CASE OpenBase
    BY <1>1, FailWorldEnds, UnchangedLives, OnGoes DEF OpenBase, host, CallRooted, Roles
  <1>2. CASE OpenParent
    BY <1>2, FailWorldEnds, UnchangedLives, OnGoes DEF OpenParent, host, CallRooted, Roles
  <1> QED
    BY <1>1, <1>2

\* Opening the root: a handle's, or one compared with the handle's.
LEMMA OpenRootKeepsRoot ==
  ASSUME RootInv, OpenRoot
  PROVE  RootInv'
  <1> DEFINE i == Lookup(fds.base, Repository)
  <1>1. CASE call.op = "open" /\ IsKind(i, "dir") /\ OpenHandle(i)
    BY <1>1 DEF RootInv, Shaped, HandlePinned, CallRooted, OpenHandle, Return, IsKind,
                NoCall, NoFds, host, Roles
  <1>2. CASE \E found : FailWorld(found)
    BY <1>2, FailWorldEnds, EndsKeepsRoot
  <1>3. CASE /\ call.op # "open"
             /\ RootIsHandles(i)
             /\ fds' = [fds EXCEPT !.root = i]
             /\ On(AfterPair)
             /\ UNCHANGED <<host, call, held, scan, eintr>>
    <2>1. AfterPair # "idle" /\ pc # "idle"
      BY DEF AfterPair, OpenRoot
    <2>2. SameLives(nodes, nodes', Unused(Pinned))
      BY <1>3, UnchangedLives DEF host, RootInv
    <2>3. Goes
      BY <1>3, <2>1, <2>2, OnGoes DEF RootInv, CallRooted, RootIsHandles, Roles
    <2> QED
      BY <2>3, GoesKeepsRoot
  <1> QED
    BY <1>1, <1>2, <1>3 DEF OpenRoot

\* The steps of a create that change no file leave every life alone.
LEMMA AbandonGoes ==
  ASSUME RootInv, pc # "idle", NEW found, Abandon(found), UNCHANGED host
  PROVE  Goes
  <1>1. SameLives(nodes, nodes', Unused(Pinned))
    BY UnchangedLives DEF host, RootInv
  <1> QED
    BY <1>1 DEF Abandon, Goes, RootInv, CallRooted, Roles

LEMMA OpenTempSteps ==
  ASSUME RootInv, OpenTemp
  PROVE  Goes \/ Ends
  <1>1. CASE \E found : FailWorld(found)
    BY <1>1, FailWorldEnds
  <1>2. ASSUME NEW t \in Temps, NEW i \in Unused(Pinned),
               Stamped(Bind([nodes EXCEPT ![i] = NewNode("regular", <<>>, FALSE)],
                            fds.parent, t, i, FALSE)),
               fds' = [fds EXCEPT !.temp = i],
               call' = [call EXCEPT !.temp = t],
               On("write")
        PROVE  Goes
    <2> DEFINE born == [nodes EXCEPT ![i] = NewNode("regular", <<>>, FALSE)]
    <2>1. SameLives(nodes, born, {i})
      BY CreateLives DEF RootInv
    <2>2. nodes' = Bind(born, fds.parent, t, i, FALSE)
      BY <1>2 DEF Stamped
    <2> HIDE DEF born
    <2>3. SameLives(born, nodes', {})
      <3>1. Shaped(born)
        BY <2>1 DEF SameLives
      <3> QED
        BY <2>2, <3>1, BindLives
    <2>4. SameLives(nodes, nodes', Unused(Pinned))
      BY <2>1, <2>3 DEF SameLives
    <2> QED
      BY <1>2, <2>4, OnGoes DEF RootInv, CallRooted, Roles, OpenTemp
  <1> QED
    BY <1>1, <1>2 DEF OpenTemp

\* Writing and syncing keep the life of the temporary file.
LEMMA WriteSteps ==
  ASSUME RootInv, WriteTemp \/ WriteInterrupted \/ SyncTemp \/ CloseTemp
  PROVE  Goes \/ Ends
  <1> USE DEF memory
  <1>0. pc # "idle"
    BY DEF WriteTemp, WriteInterrupted, SyncTemp, CloseTemp
  <1>1. CASE \E found : Abandon(found) /\ UNCHANGED host
    BY <1>0, <1>1, AbandonGoes
  <1>2. CASE UNCHANGED <<host, call>> /\ \E stage : On(stage) /\ stage # "idle" /\
             (fds' = fds \/ fds' = [fds EXCEPT !.temp = None])
    BY <1>0, <1>2, UnchangedLives, OnGoes DEF host, RootInv, CallRooted, Roles
  <1>3. ASSUME NEW node, node \in {[nodes[fds.temp] EXCEPT !.data = SubSeq(Content, 1, Written + n),
                                                 !.stamp = clock + 1] : n \in 1..(Len(Content) - Written)}
                     \cup {[nodes[fds.temp] EXCEPT !.synced = TRUE]},
               nodes' = [nodes EXCEPT ![fds.temp] = node],
               NEW stage, stage # "idle", On(stage), UNCHANGED memory
        PROVE  Goes
    <2>1. SameLives(nodes, nodes', Unused(Pinned))
      BY <1>3 DEF RootInv, Shaped, SameLives, NodeFields
    <2> QED
      BY <1>0, <1>3, <2>1, OnGoes DEF RootInv, CallRooted, Roles
  <1>4. CASE WriteTemp
    BY <1>1, <1>3, <1>4 DEF WriteTemp, Stamped
  <1>5. CASE WriteInterrupted
    BY <1>1, <1>2, <1>5 DEF WriteInterrupted, Interrupted
  <1>6. CASE SyncTemp
    BY <1>1, <1>3, <1>6 DEF SyncTemp
  <1>7. CASE CloseTemp
    BY <1>1, <1>2, <1>7 DEF CloseTemp
  <1> QED
    BY <1>4, <1>5, <1>6, <1>7

\* Two entries set and a restamp.
LEMMA RenamedLives ==
  ASSUME Shaped(nodes)
  PROVE  SameLives(nodes, Renamed, {})
  <1> DEFINE i == Lookup(fds.parent, call.temp)
             one == Bind(nodes, fds.parent, call.temp, None, FALSE)
             two == Bind(one, fds.parent, Final, i, FALSE)
  <1>1. SameLives(nodes, one, {})
    BY BindLives
  <1>2. Renamed = Restamp(two, i)
    BY DEF Renamed
  <1> HIDE DEF one
  <1>3. SameLives(one, two, {})
    <2>1. Shaped(one)
      BY <1>1 DEF SameLives
    <2> QED
      BY <2>1, BindLives
  <1> HIDE DEF two
  <1>4. SameLives(two, Renamed, {})
    BY <1>2, <1>3, RestampLives DEF SameLives
  <1> QED
    BY <1>1, <1>3, <1>4 DEF SameLives

LEMMA PublishSteps ==
  ASSUME RootInv,
         \/ RenameTemp \/ RemoveTemp \/ FailAfterTempAttempt \/ SyncParent \/ CloseCreate
         \/ CloseRevalidate
  PROVE  Goes \/ Ends
  <1> USE DEF memory
  <1>1. CASE RenameTemp
    <2>1. CASE \E found : Abandon(found) /\ UNCHANGED host
      BY <1>1, <2>1, AbandonGoes DEF RenameTemp
    <2>2. CASE Stamped(Renamed) /\ pc' \in {"sync_parent", "cleanup"}
               /\ UNCHANGED <<handle, memory>>
      BY <1>1, <2>2, RenamedLives DEF RenameTemp, Stamped, Goes, SameLives, RootInv, CallRooted
    <2> QED
      BY <1>1, <2>1, <2>2 DEF RenameTemp, Published
  <1>2. CASE RemoveTemp
    <2>1. CASE /\ Stamped(Bind(nodes, fds.parent, call.temp, None, FALSE))
               /\ On("abandoned")
               /\ UNCHANGED memory
      <3>1. SameLives(nodes, nodes', Unused(Pinned))
        <4>1. SameLives(nodes, nodes', {})
          BY <2>1, BindLives DEF Stamped, RootInv
        <4> QED
          BY <4>1 DEF SameLives
      <3> QED
        BY <1>2, <2>1, <3>1, OnGoes DEF RemoveTemp, RootInv, CallRooted
    <2> QED
      BY <1>2, <2>1 DEF RemoveTemp, Ends
  <1>3. CASE FailAfterTempAttempt
    BY <1>3 DEF FailAfterTempAttempt, Ends
  <1>4. CASE SyncParent
    <2>1. CASE /\ nodes' = [nodes EXCEPT ![fds.parent] =
                    [nodes[fds.parent] EXCEPT !.safe = nodes[fds.parent].ents]]
               /\ On("close_create")
               /\ UNCHANGED memory
      <3>1. SameLives(nodes, nodes', Unused(Pinned))
        BY <2>1 DEF RootInv, Shaped, SameLives, NodeFields
      <3> QED
        BY <1>4, <2>1, <3>1, OnGoes DEF SyncParent, RootInv, CallRooted
    <2> QED
      BY <1>4, <2>1 DEF SyncParent, FailPublished, Ends
  <1>5. CASE CloseCreate
    BY <1>5 DEF CloseCreate, FailPublished, Ends
  <1>6. CASE CloseRevalidate
    BY <1>6, FailWorldEnds DEF CloseRevalidate, Ends
  <1> QED
    BY <1>1, <1>2, <1>3, <1>4, <1>5, <1>6

\* A step that changes no file and keeps its root, or drops it.
LEMMA QuietGoes ==
  ASSUME RootInv, pc # "idle", NEW stage, stage # "idle", On(stage), UNCHANGED host,
         \/ call' = call
         \/ \E n : call' = [call EXCEPT !.pass = n],
         \/ fds' = fds
         \/ fds' = NoFds
         \/ \E r \in Roles \ {"root"} : \E i : fds' = [fds EXCEPT ![r] = i]
  PROVE  Goes
  <1>1. SameLives(nodes, nodes', Unused(Pinned))
    BY UnchangedLives DEF host, RootInv
  <1>2. DOMAIN call' = DOMAIN call /\ call'.op = call.op
    BY DEF RootInv, CallRooted
  <1>3. DOMAIN fds' = Roles /\ fds'.root \in {None, fds.root, handle.root}
    BY DEF RootInv, CallRooted, Roles, NoFds
  <1> QED
    BY <1>1, <1>2, <1>3, OnGoes

LEMMA ReadSteps ==
  ASSUME RootInv,
         \/ ClassifyTarget \/ OpenRead \/ ReadTarget \/ ReadInterrupted \/ VerifyRead
         \/ CloseRead \/ Reobserve
  PROVE  Goes \/ Ends
  <1> USE DEF memory
  <1>1. CASE ClassifyTarget
    BY <1>1, FailWorldEnds, QuietGoes DEF ClassifyTarget, Roles
  <1>2. CASE OpenRead
    BY <1>2, FailWorldEnds, QuietGoes DEF OpenRead, Roles
  <1>3. CASE ReadTarget
    BY <1>3, FailWorldEnds, QuietGoes DEF ReadTarget
  <1>4. CASE ReadInterrupted
    BY <1>4, FailWorldEnds, QuietGoes DEF ReadInterrupted, Interrupted
  <1>5. CASE VerifyRead
    BY <1>5, FailWorldEnds, QuietGoes DEF VerifyRead
  <1>6. CASE CloseRead
    BY <1>6, FailWorldEnds, QuietGoes DEF CloseRead, CloseAll, Ends
  <1>7. CASE Reobserve
    BY <1>7, FailWorldEnds, QuietGoes DEF Reobserve, Roles
  <1> QED
    BY <1>1, <1>2, <1>3, <1>4, <1>5, <1>6, <1>7

\* The end of a scan is a step within the call.
LEMMA EndScanGoes ==
  ASSUME RootInv, pc # "idle", NEW b, NEW s, EndScan(b, s)
  PROVE  Goes
  BY QuietGoes DEF EndScan, Roles

LEMMA UnstableGoes ==
  ASSUME RootInv, pc # "idle", Unstable
  PROVE  Goes \/ Ends
  BY FailWorldEnds, EndScanGoes DEF Unstable

LEMMA ScanItemSteps ==
  ASSUME RootInv, ScanItem
  PROVE  Goes \/ Ends
  <1>0. pc # "idle"
    BY DEF ScanItem
  <1>1. CASE \E n \in Top.left : StatItem(n)
    <2> PICK n \in Top.left : StatItem(n)
      BY <1>1
    <2>1. CASE Exceeded
      BY <1>0, <2>1, EndScanGoes DEF Exceeded
    <2>2. CASE Unstable
      BY <1>0, <2>2, UnstableGoes
    <2>3. CASE /\ \E stage \in {"open_file", "open_child", "item"} : On(stage)
               /\ UNCHANGED <<host, call, fds, held, eintr>>
      BY <1>0, <2>3, QuietGoes
    <2> QED
      BY <2>1, <2>2, <2>3 DEF StatItem
  <1>2. CASE LeaveDirectory
    BY <1>0, <1>2, QuietGoes, EndScanGoes DEF LeaveDirectory, EndFirstOrSecond
  <1> QED
    BY <1>1, <1>2, FailWorldEnds DEF ScanItem

LEMMA ScanSteps ==
  ASSUME RootInv,
         \/ ScanRoot \/ ListDirectory \/ OpenFile \/ ReadFile \/ FileInterrupted
         \/ VerifyFile \/ OpenChild \/ CloseScan \/ CloseInventory
  PROVE  Goes \/ Ends
  <1> USE DEF memory
  <1>1. CASE ScanRoot
    BY <1>1, FailWorldEnds, QuietGoes DEF ScanRoot
  <1>2. CASE ListDirectory
    BY <1>2, FailWorldEnds, QuietGoes DEF ListDirectory
  <1>3. CASE OpenFile
    BY <1>3, FailWorldEnds, QuietGoes DEF OpenFile, Roles
  <1>4. CASE ReadFile
    BY <1>4, FailWorldEnds, QuietGoes DEF ReadFile
  <1>5. CASE FileInterrupted
    BY <1>5, FailWorldEnds, QuietGoes DEF FileInterrupted, Interrupted
  <1>6. CASE VerifyFile
    BY <1>6, FailWorldEnds, QuietGoes DEF VerifyFile, Roles
  <1>7. CASE OpenChild
    BY <1>7, FailWorldEnds, QuietGoes, UnstableGoes DEF OpenChild
  <1>8. CASE CloseScan
    BY <1>8, FailWorldEnds, QuietGoes DEF CloseScan, CloseAll
  <1>9. CASE CloseInventory
    BY <1>9, FailWorldEnds DEF CloseInventory, Ends
  <1> QED
    BY <1>1, <1>2, <1>3, <1>4, <1>5, <1>6, <1>7, <1>8, <1>9

\* Others give no new life to an inode that a descriptor pins.
LEMMA OthersLives ==
  ASSUME Shaped(nodes), Others(Pinned)
  PROVE  SameLives(nodes, nodes', Unused(Pinned))
  <1>1. ASSUME NEW site \in Sites, Appear(site, Pinned)
        PROVE  SameLives(nodes, nodes', Unused(Pinned))
    <2> PICK object \in Objects(site), i \in Unused(Pinned) :
          nodes' = Bind([nodes EXCEPT ![i] = NewNode(object[1], object[2], TRUE)],
                        DirAt(site), site[2], i, TRUE)
      BY <1>1 DEF Appear
    <2> DEFINE born == [nodes EXCEPT ![i] = NewNode(object[1], object[2], TRUE)]
    <2>1. SameLives(nodes, born, {i})
      BY CreateLives
    <2>2. nodes' = Bind(born, DirAt(site), site[2], i, TRUE)
      OBVIOUS
    <2> HIDE DEF born
    <2>3. Shaped(born)
      BY <2>1 DEF SameLives
    <2>4. SameLives(born, nodes', {})
      BY <2>2, <2>3, BindLives
    <2> QED
      BY <2>1, <2>4 DEF SameLives
  <1>2. ASSUME NEW site \in Sites, Vanish(site)
        PROVE  SameLives(nodes, nodes', Unused(Pinned))
    <2> DEFINE emptied ==
          [j \in Inodes |->
             IF j \in Below(At(site))
             THEN [nodes[j] EXCEPT !.kind = IF nodes[j].kind = "dir" THEN "gone"
                                            ELSE nodes[j].kind,
                                   !.ents = NoEntries, !.safe = NoEntries,
                                   !.stamp = clock + 1]
             ELSE nodes[j]]
    <2>1. SameLives(nodes, emptied, {})
      BY DEF Shaped, SameLives, NodeFields
    <2>2. nodes' = Bind(emptied, DirAt(site), site[2], None, TRUE)
      BY <1>2 DEF Vanish
    <2> HIDE DEF emptied
    <2>3. Shaped(emptied)
      BY <2>1 DEF SameLives
    <2>4. SameLives(emptied, nodes', {})
      BY <2>2, <2>3, BindLives
    <2> QED
      BY <2>1, <2>4 DEF SameLives
  <1>3. ASSUME NEW site \in Sites, NEW data \in Contents, Rewrite(site, data)
        PROVE  SameLives(nodes, nodes', Unused(Pinned))
    BY <1>3 DEF Rewrite, Shaped, SameLives, NodeFields
  <1>4. ASSUME NEW site \in Sites, NEW to \in Sites, Move(site, to)
        PROVE  SameLives(nodes, nodes', Unused(Pinned))
    <2> DEFINE one == Bind(nodes, DirAt(site), site[2], None, TRUE)
               two == Bind(one, DirAt(to), to[2], At(site), TRUE)
    <2>1. SameLives(nodes, one, {})
      BY BindLives
    <2>2. nodes' = Restamp(two, At(site))
      BY <1>4 DEF Move
    <2> HIDE DEF one
    <2>3. Shaped(one)
      BY <2>1 DEF SameLives
    <2>4. SameLives(one, two, {})
      BY <2>3, BindLives
    <2> HIDE DEF two
    <2>5. Shaped(two)
      BY <2>4 DEF SameLives
    <2>6. SameLives(two, nodes', {})
      BY <2>2, <2>5, RestampLives
    <2> QED
      BY <2>1, <2>4, <2>6 DEF SameLives
  <1> QED
    BY <1>1, <1>2, <1>3, <1>4 DEF Others

LEMMA DisturbKeepsRoot ==
  ASSUME RootInv, Disturb
  PROVE  RootInv'
  <1>1. SameLives(nodes, nodes', Unused(Pinned))
    BY OthersLives DEF Disturb, RootInv
  <1>2. Shaped(nodes)' /\ HandlePinned'
    BY <1>1, HandleStaysPinned DEF RootInv, Disturb, SameLives
  <1>3. CallRooted'
    BY DEF RootInv, CallRooted, Disturb, memory
  <1> QED
    BY <1>2, <1>3 DEF RootInv

LEMMA RequestKeepsRoot ==
  ASSUME RootInv, Request
  PROVE  RootInv'
  <1>1. CASE BeginOpen \/ \E op \in {"revalidate", "create", "read", "inventory"} : Begin(op)
    BY <1>1 DEF BeginOpen, Begin, RootInv, Shaped, HandlePinned, CallRooted, host, NoCall
  <1>2. CASE Refuse
    BY <1>2, EndsKeepsRoot DEF Refuse, Ends
  <1>3. CASE CloseRepository
    BY <1>3 DEF CloseRepository, Return, NoHandle, RootInv, Shaped, HandlePinned, CallRooted,
                host, NoCall, NoFds, Roles
  <1> QED
    BY <1>1, <1>2, <1>3
    DEF Request, BeginRevalidate, BeginCreate, BeginRead, BeginInventory

\* RootInv is inductive.
LEMMA RootInvariant == Spec => []RootInv
  <1>1. Init => RootInv
    BY HostAssumption
    DEF Init, InitHost, RootInv, Shaped, HandlePinned, CallRooted, NoHandle, NoCall, NoFds, Roles
  <1>2. ASSUME RootInv, [Next]_vars
        PROVE  RootInv'
    <2>1. CASE Progress
      BY <1>2, <2>1, OpenSteps, OpenRootKeepsRoot, OpenTempSteps, WriteSteps, PublishSteps,
         ReadSteps, ScanItemSteps, ScanSteps, GoesKeepsRoot, EndsKeepsRoot
      DEF Progress, Step
    <2>2. CASE Request
      BY <1>2, <2>2, RequestKeepsRoot
    <2>3. CASE Disturb
      BY <1>2, <2>3, DisturbKeepsRoot
    <2>4. CASE UNCHANGED vars
      BY <1>2, <2>4 DEF vars, memory, host, RootInv, Shaped, HandlePinned, CallRooted
    <2> QED
      BY <1>2, <2>1, <2>2, <2>3, <2>4 DEF Next
  <1> QED
    BY <1>1, <1>2, PTL DEF Spec

\* Whatever others remove, move or create, a call of the provider works below
\* the directory its handle was opened on, and never below another one that
\* got the same inode number (open_repository keeps both descriptors, and
\* handle_repository_identity_equal compares each newly opened root).
THEOREM ProviderRootGenuine == Spec => []RootGenuine
  <1>1. RootInv => RootGenuine
    BY DEF RootInv, HandlePinned, CallRooted, RootGenuine
  <1> QED
    BY <1>1, RootInvariant, PTL

-----------------------------------------------------------------------------
\* No file is torn by a crash.

Whole(ns, j) ==
  ns[j].kind = "regular" => ns[j].synced /\ ns[j].data \in Contents \cup {Content}

\* j has none but temporary names.
Private(ns, j) ==
  \A k \in Inodes, n \in Names \ Temps : ns[k].kind = "dir" => ns[k].ents[n] # j

NodesInv(ns) ==
  /\ Shaped(ns)
  /\ \A k \in Inodes :
       /\ ns[k].ents \in [Names -> Inodes \cup {None}]
       /\ ns[k].safe \in [Names -> Inodes \cup {None}]
  /\ \A k \in Inodes, n \in Names \ Temps :
       /\ ns[k].safe[n] \in {None, ns[k].ents[n]}
       /\ ns[k].kind = "dir" /\ ns[k].ents[n] # None => Whole(ns, ns[k].ents[n])

\* What an entry set, a restamp and a creation leave of the nodes.
SetOnly(old, new, dir, n, i) ==
  /\ Shaped(new)
  /\ \A k \in Inodes :
       /\ new[k].kind = old[k].kind
       /\ new[k].data = old[k].data
       /\ new[k].synced = old[k].synced
       /\ new[k].safe = old[k].safe
       /\ new[k].ents = IF k = dir THEN [old[k].ents EXCEPT ![n] = i] ELSE old[k].ents

SetDurably(old, new, dir, n, i) ==
  /\ Shaped(new)
  /\ \A k \in Inodes :
       /\ new[k].kind = old[k].kind
       /\ new[k].data = old[k].data
       /\ new[k].synced = old[k].synced
       /\ new[k].safe = IF k = dir THEN [old[k].safe EXCEPT ![n] = i] ELSE old[k].safe
       /\ new[k].ents = IF k = dir THEN [old[k].ents EXCEPT ![n] = i] ELSE old[k].ents

Alike(old, new) ==
  /\ Shaped(new)
  /\ \A k \in Inodes :
       /\ new[k].kind = old[k].kind
       /\ new[k].data = old[k].data
       /\ new[k].synced = old[k].synced
       /\ new[k].safe = old[k].safe
       /\ new[k].ents = old[k].ents

OnlyCreated(old, new, i, kind, data, ended) ==
  /\ Shaped(new)
  /\ \A k \in Inodes \ {i} : new[k] = old[k]
  /\ i \in Inodes =>
       /\ new[i].kind = kind
       /\ new[i].data = data
       /\ new[i].synced = ended
       /\ new[i].ents = NoEntries
       /\ new[i].safe = NoEntries

LEMMA BindFields ==
  ASSUME NEW ns, Shaped(ns), NEW dir, NEW n, NEW i
  PROVE  /\ SetDurably(ns, Bind(ns, dir, n, i, TRUE), dir, n, i)
         /\ SetOnly(ns, Bind(ns, dir, n, i, FALSE), dir, n, i)
  <1>1. SetDurably(ns, Bind(ns, dir, n, i, TRUE), dir, n, i)
    BY DEF Shaped, SetDurably, Bind, NodeFields
  <1>2. SetOnly(ns, Bind(ns, dir, n, i, FALSE), dir, n, i)
    BY DEF Shaped, SetOnly, Bind, NodeFields
  <1> QED
    BY <1>1, <1>2

LEMMA RestampFields ==
  ASSUME NEW ns, Shaped(ns), NEW i
  PROVE  Alike(ns, Restamp(ns, i))
  BY DEF Shaped, Alike, Restamp, NodeFields

LEMMA CreateFields ==
  ASSUME NEW ns, Shaped(ns), NEW i, NEW kind, NEW data, NEW ended
  PROVE  OnlyCreated(ns, [ns EXCEPT ![i] = NewNode(kind, data, ended)], i, kind, data, ended)
  BY DEF Shaped, OnlyCreated, NewNode, NodeFields

\* Each keeps NodesInv, and gives private files no name but the one set.
LEMMA SetDurablyKeeps ==
  ASSUME NEW old, NEW new, NEW dir, NEW n \in Names \ Temps, NEW i \in Inodes \cup {None},
         NodesInv(old), SetDurably(old, new, dir, n, i), i # None => Whole(old, i)
  PROVE  /\ NodesInv(new)
         /\ \A j : j # i /\ Private(old, j) => Private(new, j)
  <1>0. ASSUME NEW k \in Inodes
        PROVE  /\ new[k].ents \in [Names -> Inodes \cup {None}]
               /\ new[k].safe \in [Names -> Inodes \cup {None}]
               /\ \A m \in Names : \/ /\ new[k].ents[m] = old[k].ents[m]
                                      /\ new[k].safe[m] = old[k].safe[m]
                                   \/ m = n /\ new[k].ents[m] = i /\ new[k].safe[m] = i
    <2>1. /\ old[k].ents \in [Names -> Inodes \cup {None}]
          /\ old[k].safe \in [Names -> Inodes \cup {None}]
      BY DEF NodesInv
    <2>2. CASE k = dir
      <3>1. /\ new[k].ents = [old[k].ents EXCEPT ![n] = i]
            /\ new[k].safe = [old[k].safe EXCEPT ![n] = i]
        BY <2>2 DEF SetDurably
      <3> QED
        BY <2>1, <3>1
    <2>3. CASE k # dir
      <3>1. new[k].ents = old[k].ents /\ new[k].safe = old[k].safe
        BY <2>3 DEF SetDurably
      <3> QED
        BY <2>1, <3>1
    <2> QED
      BY <2>2, <2>3
  <1>1. \A j \in Inodes : Whole(old, j) => Whole(new, j)
    BY DEF SetDurably, Whole
  <1>2. ASSUME NEW k \in Inodes, NEW m \in Names \ Temps
        PROVE  /\ new[k].safe[m] \in {None, new[k].ents[m]}
               /\ new[k].kind = "dir" /\ new[k].ents[m] # None => Whole(new, new[k].ents[m])
    <2>1. new[k].kind = old[k].kind
      BY DEF SetDurably
    <2>2. new[k].ents[m] \in Inodes \cup {None}
      BY <1>0
    <2>3. /\ old[k].safe[m] \in {None, old[k].ents[m]}
          /\ old[k].kind = "dir" /\ old[k].ents[m] # None => Whole(old, old[k].ents[m])
      BY DEF NodesInv
    <2> QED
      BY <1>0, <1>1, <2>1, <2>2, <2>3
  <1>3. ASSUME NEW j, j # i, Private(old, j)
        PROVE  Private(new, j)
    <2>1. SUFFICES ASSUME NEW k \in Inodes, NEW m \in Names \ Temps, new[k].kind = "dir"
                   PROVE  new[k].ents[m] # j
      BY DEF Private
    <2>2. old[k].ents[m] # j
      BY <1>3, <2>1 DEF Private, SetDurably
    <2> QED
      BY <1>0, <1>3, <2>2
  <1>4. NodesInv(new)
    BY <1>0, <1>2 DEF NodesInv, SetDurably
  <1> QED
    BY <1>3, <1>4

LEMMA SetOnlyKeeps ==
  ASSUME NEW old, NEW new, NEW dir, NEW n \in Names, NEW i \in Inodes \cup {None},
         NodesInv(old), SetOnly(old, new, dir, n, i),
         n \notin Temps => /\ i # None => Whole(old, i)
                           /\ dir \in Inodes => old[dir].safe[n] = None
  PROVE  /\ NodesInv(new)
         /\ \A j : (n \in Temps \/ j # i) /\ Private(old, j) => Private(new, j)
  <1>0. ASSUME NEW k \in Inodes
        PROVE  /\ new[k].ents \in [Names -> Inodes \cup {None}]
               /\ new[k].safe = old[k].safe
               /\ \A m \in Names : \/ new[k].ents[m] = old[k].ents[m]
                                   \/ k = dir /\ m = n /\ new[k].ents[m] = i
    <2>1. old[k].ents \in [Names -> Inodes \cup {None}]
      BY DEF NodesInv
    <2>2. new[k].safe = old[k].safe
      BY DEF SetOnly
    <2>3. CASE k = dir
      <3>1. new[k].ents = [old[k].ents EXCEPT ![n] = i]
        BY <2>3 DEF SetOnly
      <3> QED
        BY <2>1, <2>2, <2>3, <3>1
    <2>4. CASE k # dir
      <3>1. new[k].ents = old[k].ents
        BY <2>4 DEF SetOnly
      <3> QED
        BY <2>1, <2>2, <3>1
    <2> QED
      BY <2>3, <2>4
  <1>1. \A j \in Inodes : Whole(old, j) => Whole(new, j)
    BY DEF SetOnly, Whole
  <1>2. ASSUME NEW k \in Inodes, NEW m \in Names \ Temps
        PROVE  /\ new[k].safe[m] \in {None, new[k].ents[m]}
               /\ new[k].kind = "dir" /\ new[k].ents[m] # None => Whole(new, new[k].ents[m])
    <2>1. new[k].kind = old[k].kind
      BY DEF SetOnly
    <2>2. new[k].ents[m] \in Inodes \cup {None}
      BY <1>0
    <2>3. /\ old[k].safe[m] \in {None, old[k].ents[m]}
          /\ old[k].kind = "dir" /\ old[k].ents[m] # None => Whole(old, old[k].ents[m])
      BY DEF NodesInv
    <2> QED
      BY <1>0, <1>1, <2>1, <2>2, <2>3
  <1>3. ASSUME NEW j, n \in Temps \/ j # i, Private(old, j)
        PROVE  Private(new, j)
    <2>1. SUFFICES ASSUME NEW k \in Inodes, NEW m \in Names \ Temps, new[k].kind = "dir"
                   PROVE  new[k].ents[m] # j
      BY DEF Private
    <2>2. old[k].ents[m] # j
      BY <1>3, <2>1 DEF Private, SetOnly
    <2> QED
      BY <1>0, <1>3, <2>2
  <1>4. NodesInv(new)
    <2>1. \A k \in Inodes : new[k].safe \in [Names -> Inodes \cup {None}]
      BY <1>0 DEF NodesInv
    <2> QED
      BY <1>0, <1>2, <2>1 DEF NodesInv, SetOnly
  <1> QED
    BY <1>3, <1>4

LEMMA AlikeKeeps ==
  ASSUME NEW old, NEW new, NodesInv(old), Alike(old, new)
  PROVE  /\ NodesInv(new)
         /\ \A j : Private(old, j) => Private(new, j)
  BY DEF NodesInv, Alike, Private, Whole

LEMMA CreateKeeps ==
  ASSUME NEW old, NEW new, NEW i \in Inodes, NEW kind, NEW data, NEW ended \in BOOLEAN,
         NodesInv(old), OnlyCreated(old, new, i, kind, data, ended),
         \A k \in Inodes, n \in Names : old[k].kind = "dir" => old[k].ents[n] # i
  PROVE  /\ NodesInv(new)
         /\ \A j \in Inodes : Private(old, j) => Private(new, j)
         /\ Private(new, i)
  <1>0. NoEntries \in [Names -> Inodes \cup {None}] /\ \A n \in Names : NoEntries[n] = None
    BY DEF NoEntries
  <1>1. \A k \in Inodes : /\ new[k].ents \in [Names -> Inodes \cup {None}]
                          /\ new[k].safe \in [Names -> Inodes \cup {None}]
    BY <1>0 DEF NodesInv, OnlyCreated
  <1>2. \A k \in Inodes, m \in Names \ Temps : new[k].safe[m] \in {None, new[k].ents[m]}
    BY <1>0 DEF NodesInv, OnlyCreated
  <1>3. \A k \in Inodes, m \in Names : new[k].kind = "dir" =>
          /\ new[k].ents[m] # i
          /\ new[k].ents[m] = None \/ (old[k].kind = "dir" /\ new[k].ents[m] = old[k].ents[m])
    BY <1>0, HostAssumption DEF OnlyCreated
  <1>4. \A j \in Inodes \ {i} : Whole(old, j) => Whole(new, j)
    BY DEF OnlyCreated, Whole
  <1>5. \A k \in Inodes, m \in Names \ Temps :
          new[k].kind = "dir" /\ new[k].ents[m] # None => Whole(new, new[k].ents[m])
    BY <1>1, <1>3, <1>4 DEF NodesInv
  <1>6. \A j \in Inodes : Private(old, j) => Private(new, j)
    BY <1>3, HostAssumption DEF Private
  <1>7. Private(new, i)
    BY <1>3 DEF Private
  <1> QED
    BY <1>1, <1>2, <1>5, <1>6, <1>7 DEF NodesInv, OnlyCreated

-----------------------------------------------------------------------------
\* The temporary file, from its creation to its rename.

Entry(ns, i, n) == IF i \in Inodes /\ ns[i].kind = "dir" THEN ns[i].ents[n] ELSE None

Prefixes == {SubSeq(Content, 1, n) : n \in 0..Len(Content)}

\* A file of the provider's that has none but temporary names.
Spare(ns, j) == j \in Inodes /\ ns[j].kind = "regular" /\ Private(ns, j)

\* Nothing but the temporary file has its name, it is as far as it is
\* written a prefix of the content, and is whole and synced when renamed.
TempInv ==
  /\ pc \in {"write", "close_temp", "rename", "cleanup"} => call.temp \in Temps
  /\ pc \in {"write", "close_temp"} =>
       /\ Spare(nodes, fds.temp)
       /\ Entry(nodes, fds.parent, call.temp) \in {None, fds.temp}
       /\ nodes[fds.temp].data \in Prefixes
  /\ pc = "close_temp" => nodes[fds.temp].synced /\ nodes[fds.temp].data = Content
  /\ pc = "rename" =>
       \A j \in {Entry(nodes, fds.parent, call.temp)} \ {None} :
         Spare(nodes, j) /\ nodes[j].synced /\ nodes[j].data = Content

\* The last file published is where it was published; it is safe there once
\* the parent is synced.
KeptInv ==
  kept.dir # None =>
    /\ kept.dir \in Inodes
    /\ nodes[kept.dir].kind = "dir"
    /\ nodes[kept.dir].ents[Final] \in Inodes
    /\ Thing(nodes[kept.dir].ents[Final]) = TheFile
    /\ kept.sure \/ pc = "close_create" =>
         nodes[kept.dir].safe[Final] = nodes[kept.dir].ents[Final]
    /\ pc = "sync_parent" => kept.dir = fds.parent

FileInv == NodesInv(nodes) /\ TempInv /\ KeptInv

\* What is left alone by a change that others make: every pinned or linked
\* spare file, and the temporary names of every pinned directory.
SameFile(old, new, j) ==
  /\ new[j].kind = old[j].kind
  /\ new[j].data = old[j].data
  /\ new[j].synced = old[j].synced
  /\ Private(old, j) => Private(new, j)

SameEntries(old, new, p) == \A t \in Temps : Entry(new, p, t) \in {None, Entry(old, p, t)}

Tampered(old, new, free) ==
  /\ NodesInv(new)
  /\ \A j \in Inodes \ free : Spare(old, j) => SameFile(old, new, j)
  /\ \A p \in Pinned : SameEntries(old, new, p)

\* An object at a place others change is whole, and not a spare file.
LEMMA SiteObject ==
  ASSUME NodesInv(nodes), NEW site \in Sites, At(site) # None
  PROVE  /\ DirAt(site) \in Inodes /\ nodes[DirAt(site)].kind = "dir"
         /\ At(site) \in Inodes
         /\ Whole(nodes, At(site))
         /\ ~Private(nodes, At(site))
  <1> DEFINE d == DirAt(site)
  <1>1. d \in Inodes /\ nodes[d].kind = "dir" /\ At(site) = nodes[d].ents[site[2]]
    BY DEF At, Lookup, IsKind
  <1>2. site[2] \in Names \ Temps
    BY ProviderAssumption
  <1>3. nodes[d].ents \in [Names -> Inodes \cup {None}]
    BY <1>1 DEF NodesInv
  <1>4. At(site) \in Inodes
    BY <1>1, <1>2, <1>3
  <1>5. Whole(nodes, At(site))
    BY <1>1, <1>2 DEF NodesInv
  <1>6. ~Private(nodes, At(site))
    BY <1>1, <1>2 DEF Private
  <1> QED
    BY <1>1, <1>4, <1>5, <1>6

LEMMA SetDurablyTampers ==
  ASSUME NEW old, NEW new, NEW dir, NEW n \in Names \ Temps, NEW i \in Inodes \cup {None},
         NodesInv(old), SetDurably(old, new, dir, n, i), i # None => Whole(old, i)
  PROVE  /\ NodesInv(new)
         /\ \A j \in Inodes : j # i => SameFile(old, new, j)
         /\ \A p : SameEntries(old, new, p)
  <1>1. NodesInv(new) /\ \A j : j # i /\ Private(old, j) => Private(new, j)
    BY SetDurablyKeeps
  <1>2. \A j \in Inodes : j # i => SameFile(old, new, j)
    BY <1>1 DEF SameFile, SetDurably
  <1>3. ASSUME NEW p, NEW t \in Temps
        PROVE  Entry(new, p, t) = Entry(old, p, t)
    <2>1. CASE p \in Inodes
      <3>1. new[p].kind = old[p].kind
        BY <2>1 DEF SetDurably
      <3>2. old[p].ents \in [Names -> Inodes \cup {None}] /\ t \in Names /\ t # n
        BY <2>1, ProviderAssumption DEF NodesInv
      <3>3. new[p].ents[t] = old[p].ents[t]
        BY <2>1, <3>2 DEF SetDurably
      <3> QED
        BY <3>1, <3>3 DEF Entry
    <2> QED
      BY <2>1 DEF Entry
  <1>4. \A p : SameEntries(old, new, p)
    BY <1>3 DEF SameEntries
  <1> QED
    BY <1>1, <1>2, <1>4

LEMMA AppearTampers ==
  ASSUME NodesInv(nodes), NEW site \in Sites, Appear(site, Pinned)
  PROVE  Tampered(nodes, nodes', Unused(Pinned))
  <1>p. PICK object \in Objects(site), i \in Unused(Pinned) :
        nodes' = Bind([nodes EXCEPT ![i] = NewNode(object[1], object[2], TRUE)],
                      DirAt(site), site[2], i, TRUE)
    BY DEF Appear
  <1> DEFINE made == [nodes EXCEPT ![i] = NewNode(object[1], object[2], TRUE)]
  <1>0. i \in Inodes /\ i \notin Pinned /\ ~Linked(i) /\ i # None /\ site[2] \in Names \ Temps
    BY HostAssumption, ProviderAssumption DEF Unused
  <1>1. OnlyCreated(nodes, made, i, object[1], object[2], TRUE)
    BY CreateFields DEF NodesInv
  <1>2. nodes' = Bind(made, DirAt(site), site[2], i, TRUE)
    BY <1>p
  <1> HIDE DEF made
  <1>3. \A k \in Inodes, n \in Names : nodes[k].kind = "dir" => nodes[k].ents[n] # i
    BY <1>0 DEF Linked, Lookup, IsKind
  <1>4. NodesInv(made) /\ \A j \in Inodes : Private(nodes, j) => Private(made, j)
    BY <1>0, <1>1, <1>3, CreateKeeps
  <1>5. object[1] = "regular" => object[2] \in Contents
    BY DEF Objects
  <1>6. Whole(made, i)
    BY <1>0, <1>1, <1>5 DEF Whole, OnlyCreated
  <1>7. SetDurably(made, nodes', DirAt(site), site[2], i)
    <2>1. Shaped(made)
      BY <1>4 DEF NodesInv
    <2> QED
      BY <1>2, <2>1, BindFields
  <1>8. /\ NodesInv(nodes')
        /\ \A j \in Inodes : j # i => SameFile(made, nodes', j)
        /\ \A p : SameEntries(made, nodes', p)
    <2>1. i \in Inodes \cup {None} /\ site[2] \in Names \ Temps
      BY <1>0
    <2>2. NodesInv(made)
      BY <1>4
    <2> QED
      BY <1>6, <1>7, <2>1, <2>2, SetDurablyTampers
  <1>9. \A j \in Inodes : j # i => SameFile(nodes, made, j)
    BY <1>1, <1>4 DEF SameFile, OnlyCreated
  <1>10. \A j \in Inodes \ Unused(Pinned) : SameFile(nodes, nodes', j)
    BY <1>8, <1>9 DEF SameFile
  <1>11. ASSUME NEW p \in Pinned, NEW t \in Temps
         PROVE  Entry(nodes', p, t) \in {None, Entry(nodes, p, t)}
    <2>1. Entry(made, p, t) = Entry(nodes, p, t)
      BY <1>0, <1>1 DEF Entry, OnlyCreated
    <2> QED
      BY <1>8, <2>1 DEF SameEntries
  <1> QED
    BY <1>8, <1>10, <1>11 DEF Tampered, SameEntries

LEMMA VanishTampers ==
  ASSUME NodesInv(nodes), NEW site \in Sites, Vanish(site)
  PROVE  Tampered(nodes, nodes', Unused(Pinned))
  <1> DEFINE emptied ==
        [j \in Inodes |->
           IF j \in Below(At(site))
           THEN [nodes[j] EXCEPT !.kind = IF nodes[j].kind = "dir" THEN "gone"
                                          ELSE nodes[j].kind,
                                 !.ents = NoEntries, !.safe = NoEntries,
                                 !.stamp = clock + 1]
           ELSE nodes[j]]
  <1>0. NoEntries \in [Names -> Inodes \cup {None}] /\ \A n \in Names : NoEntries[n] = None
    BY DEF NoEntries
  <1>1. /\ Shaped(emptied)
        /\ \A j \in Inodes :
             /\ emptied[j].kind \in {nodes[j].kind, "gone"}
             /\ nodes[j].kind # "dir" => emptied[j].kind = nodes[j].kind
             /\ emptied[j].data = nodes[j].data
             /\ emptied[j].synced = nodes[j].synced
             /\ \/ emptied[j].ents = NoEntries /\ emptied[j].safe = NoEntries
                \/ emptied[j].ents = nodes[j].ents /\ emptied[j].safe = nodes[j].safe
    BY DEF NodesInv, Shaped, NodeFields
  <1>2. nodes' = Bind(emptied, DirAt(site), site[2], None, TRUE)
    BY DEF Vanish
  <1> HIDE DEF emptied
  <1>3. \A j \in Inodes : Whole(nodes, j) => Whole(emptied, j)
    BY <1>1 DEF Whole
  <1>4. ASSUME NEW k \in Inodes
        PROVE  /\ emptied[k].ents \in [Names -> Inodes \cup {None}]
               /\ emptied[k].safe \in [Names -> Inodes \cup {None}]
    BY <1>0, <1>1 DEF NodesInv
  <1>5. ASSUME NEW k \in Inodes, NEW n \in Names \ Temps
        PROVE  /\ emptied[k].safe[n] \in {None, emptied[k].ents[n]}
               /\ emptied[k].kind = "dir" /\ emptied[k].ents[n] # None
                    => Whole(emptied, emptied[k].ents[n])
    <2>1. emptied[k].ents[n] \in Inodes \cup {None}
      BY <1>4
    <2>2. /\ nodes[k].safe[n] \in {None, nodes[k].ents[n]}
          /\ nodes[k].kind = "dir" /\ nodes[k].ents[n] # None => Whole(nodes, nodes[k].ents[n])
      BY DEF NodesInv
    <2>3. emptied[k].kind = "dir" => nodes[k].kind = "dir"
      BY <1>1
    <2> QED
      BY <1>0, <1>1, <1>3, <2>1, <2>2, <2>3
  <1>6. NodesInv(emptied)
    BY <1>1, <1>4, <1>5 DEF NodesInv
  <1>7. ASSUME NEW j \in Inodes, Private(nodes, j)
        PROVE  Private(emptied, j)
    <2>1. SUFFICES ASSUME NEW k \in Inodes, NEW n \in Names \ Temps, emptied[k].kind = "dir"
                   PROVE  emptied[k].ents[n] # j
      BY DEF Private
    <2>2. nodes[k].kind = "dir"
      BY <1>1, <2>1
    <2>3. nodes[k].ents[n] # j
      BY <1>7, <2>2 DEF Private
    <2> QED
      BY <1>0, <1>1, <2>3, HostAssumption
  <1>8. /\ NodesInv(nodes')
        /\ \A j \in Inodes : j # None => SameFile(emptied, nodes', j)
        /\ \A p : SameEntries(emptied, nodes', p)
    <2>1. SetDurably(emptied, nodes', DirAt(site), site[2], None)
      BY <1>1, <1>2, BindFields
    <2>2. site[2] \in Names \ Temps
      BY ProviderAssumption
    <2> QED
      BY <1>6, <2>1, <2>2, SetDurablyTampers
  <1>9. \A j \in Inodes : Spare(nodes, j) => SameFile(nodes, nodes', j)
    BY <1>1, <1>7, <1>8, HostAssumption DEF SameFile, Spare
  <1>10. ASSUME NEW p, NEW t \in Temps
         PROVE  Entry(nodes', p, t) \in {None, Entry(nodes, p, t)}
    <2>1. Entry(emptied, p, t) \in {None, Entry(nodes, p, t)}
      BY <1>0, <1>1, ProviderAssumption DEF Entry
    <2> QED
      BY <1>8, <2>1 DEF SameEntries
  <1> QED
    BY <1>8, <1>9, <1>10 DEF Tampered, SameEntries

LEMMA RewriteTampers ==
  ASSUME NodesInv(nodes), NEW site \in Sites, NEW data \in Contents, Rewrite(site, data)
  PROVE  Tampered(nodes, nodes', Unused(Pinned))
  <1> DEFINE x == At(site)
  <1>1. x \in Inodes /\ x # None /\ nodes[x].kind = "regular"
    BY HostAssumption DEF Rewrite, IsKind
  <1>2. Whole(nodes, x) /\ ~Private(nodes, x)
    BY <1>1, SiteObject
  <1>3. nodes' = [nodes EXCEPT ![x] = [nodes[x] EXCEPT !.data = data, !.stamp = clock + 1]]
    BY DEF Rewrite
  <1> HIDE DEF x
  <1>4. /\ Shaped(nodes')
        /\ \A j \in Inodes :
             /\ nodes'[j].kind = nodes[j].kind
             /\ j # x => nodes'[j].data = nodes[j].data
             /\ nodes'[j].synced = nodes[j].synced
             /\ nodes'[j].ents = nodes[j].ents
             /\ nodes'[j].safe = nodes[j].safe
        /\ nodes'[x].data = data
    BY <1>1, <1>3 DEF NodesInv, Shaped, NodeFields
  <1>5. \A j \in Inodes : Whole(nodes, j) => Whole(nodes', j)
    BY <1>2, <1>4 DEF Whole
  <1>6. NodesInv(nodes')
    BY <1>4, <1>5 DEF NodesInv
  <1>7. \A j \in Inodes : Spare(nodes, j) => SameFile(nodes, nodes', j)
    BY <1>2, <1>4 DEF SameFile, Spare, Private
  <1>8. \A p : SameEntries(nodes, nodes', p)
    BY <1>4 DEF SameEntries, Entry
  <1> QED
    BY <1>6, <1>7, <1>8 DEF Tampered

LEMMA MoveTampers ==
  ASSUME NodesInv(nodes), NEW site \in Sites, NEW to \in Sites, Move(site, to)
  PROVE  Tampered(nodes, nodes', Unused(Pinned))
  <1> DEFINE x == At(site)
             one == Bind(nodes, DirAt(site), site[2], None, TRUE)
             two == Bind(one, DirAt(to), to[2], x, TRUE)
  <1>0. x \in Inodes /\ x # None /\ Whole(nodes, x) /\ ~Private(nodes, x)
    BY SiteObject DEF Move
  <1>1. SetDurably(nodes, one, DirAt(site), site[2], None)
    BY BindFields DEF NodesInv
  <1>2. nodes' = Restamp(two, x)
    BY DEF Move
  <1> HIDE DEF x, one
  <1>3. site[2] \in Names \ Temps /\ to[2] \in Names \ Temps
    BY ProviderAssumption
  <1>4. /\ NodesInv(one)
        /\ \A j \in Inodes : j # None => SameFile(nodes, one, j)
        /\ \A p : SameEntries(nodes, one, p)
    BY <1>1, <1>3, SetDurablyTampers
  <1>5. Whole(one, x)
    BY <1>0, <1>4 DEF Whole, SameFile
  <1>6. SetDurably(one, two, DirAt(to), to[2], x)
    BY <1>4, BindFields DEF NodesInv
  <1> HIDE DEF two
  <1>7. /\ NodesInv(two)
        /\ \A j \in Inodes : j # x => SameFile(one, two, j)
        /\ \A p : SameEntries(one, two, p)
    BY <1>0, <1>3, <1>4, <1>5, <1>6, SetDurablyTampers
  <1>8. Alike(two, nodes')
    BY <1>2, <1>7, RestampFields DEF NodesInv
  <1>9. NodesInv(nodes') /\ \A j : Private(two, j) => Private(nodes', j)
    BY <1>7, <1>8, AlikeKeeps
  <1>10. \A j \in Inodes : SameFile(two, nodes', j)
    BY <1>8, <1>9 DEF SameFile, Alike
  <1>11. \A p, t : Entry(nodes', p, t) = Entry(two, p, t)
    BY <1>8 DEF Alike, Entry
  <1>12. \A p : SameEntries(nodes, nodes', p)
    BY <1>4, <1>7, <1>11 DEF SameEntries
  <1>13. ASSUME NEW j \in Inodes, Spare(nodes, j)
         PROVE  SameFile(nodes, nodes', j)
    <2>1. j # x /\ j # None
      BY <1>0, <1>13, HostAssumption DEF Spare
    <2> QED
      BY <1>4, <1>7, <1>10, <2>1 DEF SameFile
  <1> QED
    BY <1>9, <1>12, <1>13 DEF Tampered

\* Whatever others do, spare files and temporary names stay as they are.
LEMMA OthersTamper ==
  ASSUME NodesInv(nodes), Others(Pinned)
  PROVE  Tampered(nodes, nodes', Unused(Pinned))
  BY AppearTampers, VanishTampers, RewriteTampers, MoveTampers DEF Others

-----------------------------------------------------------------------------
\* Steps that change no file and are not within the writing of one.

CreateStages == {"write", "close_temp", "rename", "cleanup", "sync_parent", "close_create"}

Quiet ==
  /\ nodes' = nodes
  /\ pc' \notin CreateStages \cup {"abandoned"}
  /\ kept'.dir = kept.dir
  /\ kept'.sure => kept.sure \/ pc = "close_create"
  /\ effect' \in {"none", effect}
  /\ pc' = "idle" =>
       effect' = "none" /\ (answer'.outcome = "created" => pc = "close_create")

LEMMA QuietKeeps ==
  ASSUME FileInv, Quiet
  PROVE  FileInv'
  <1>1. NodesInv(nodes)'
    BY DEF FileInv, Quiet
  <1>2. TempInv'
    BY DEF Quiet, TempInv, CreateStages
  <1>3. KeptInv'
    BY DEF FileInv, Quiet, KeptInv, CreateStages, Thing
  <1> QED
    BY <1>1, <1>2, <1>3 DEF FileInv

LEMMA ReturnQuiet ==
  ASSUME NEW a, Return(a), UNCHANGED host, a.outcome = "created" => pc = "close_create"
  PROVE  Quiet
  BY DEF Return, Quiet, CreateStages, host

LEMMA FailWorldQuiet ==
  ASSUME NEW found, FailWorld(found)
  PROVE  Quiet
  <1>1. PICK a : a = Answered("world", <<>>)
    OBVIOUS
  <1>2. Return(a) /\ UNCHANGED host /\ a.outcome # "created"
    BY <1>1 DEF FailWorld, Answered
  <1> QED
    BY <1>2, ReturnQuiet

LEMMA OnQuiet ==
  ASSUME NEW stage, stage \notin CreateStages \cup {"abandoned", "idle"}, On(stage),
         UNCHANGED host
  PROVE  Quiet
  BY DEF On, Quiet, host, history

LEMMA OpenQuiet ==
  ASSUME OpenBase \/ OpenRoot \/ OpenParent
  PROVE  Quiet
  <1>1. CASE OpenBase
    BY <1>1, FailWorldQuiet, OnQuiet DEF OpenBase, CreateStages
  <1>2. CASE OpenRoot
    <2>1. AfterPair \notin CreateStages \cup {"abandoned", "idle"}
      BY DEF AfterPair, CreateStages
    <2>2. ASSUME NEW i, OpenHandle(i)
          PROVE  Quiet
      BY <2>2 DEF OpenHandle, Answered, Return, Quiet, CreateStages, host
    <2> QED
      BY <1>2, <2>1, <2>2, FailWorldQuiet, OnQuiet DEF OpenRoot
  <1>3. CASE OpenParent
    <2> DEFINE stage == CASE call.op = "create" -> "temp"
                          [] call.pass = 1 -> "classify"
                          [] OTHER -> "reobserve"
    <2>1. stage \notin CreateStages \cup {"abandoned", "idle"}
      BY DEF CreateStages
    <2>2. (On(stage) /\ UNCHANGED host) \/ \E found : FailWorld(found)
      BY <1>3 DEF OpenParent
    <2> HIDE DEF stage
    <2> QED
      BY <2>1, <2>2, FailWorldQuiet, OnQuiet
  <1> QED
    BY <1>1, <1>2, <1>3

\* A reported outcome other than created.
LEMMA AnswerQuiet ==
  ASSUME NEW o, NEW w, o # "created", Return(Answered(o, w)), UNCHANGED host
  PROVE  Quiet
  BY DEF Answered, Return, Quiet, CreateStages, host

LEMMA CloseQuiet ==
  ASSUME CloseRevalidate \/ CloseCreate \/ FailAfterTempAttempt \/ FailPublished
  PROVE  Quiet
  <1>1. CASE FailPublished
    BY <1>1, AnswerQuiet DEF FailPublished
  <1>2. CASE CloseCreate
    <2>1. CASE Return(Created) /\ UNCHANGED host
      BY <1>2, <2>1, ReturnQuiet DEF CloseCreate
    <2> QED
      BY <1>1, <1>2, <2>1 DEF CloseCreate
  <1>3. CASE CloseRevalidate
    BY <1>3, AnswerQuiet, FailWorldQuiet DEF CloseRevalidate, Valid
  <1>4. CASE FailAfterTempAttempt
    BY <1>4, AnswerQuiet DEF FailAfterTempAttempt
  <1> QED
    BY <1>1, <1>2, <1>3, <1>4

LEMMA ReadQuiet ==
  ASSUME \/ ClassifyTarget \/ OpenRead \/ ReadTarget \/ ReadInterrupted \/ VerifyRead
         \/ CloseRead \/ Reobserve
  PROVE  Quiet
  <1> USE DEF CreateStages
  <1>1. CASE ClassifyTarget
    BY <1>1, FailWorldQuiet, OnQuiet DEF ClassifyTarget
  <1>2. CASE OpenRead
    BY <1>2, FailWorldQuiet, OnQuiet DEF OpenRead
  <1>3. CASE ReadTarget
    BY <1>3, FailWorldQuiet, OnQuiet DEF ReadTarget
  <1>4. CASE ReadInterrupted
    BY <1>4, FailWorldQuiet, OnQuiet DEF ReadInterrupted, Interrupted
  <1>5. CASE VerifyRead
    BY <1>5, FailWorldQuiet, OnQuiet DEF VerifyRead
  <1>6. CASE CloseRead
    BY <1>6, FailWorldQuiet, OnQuiet, AnswerQuiet DEF CloseRead, Observed
  <1>7. CASE Reobserve
    BY <1>7, FailWorldQuiet, OnQuiet DEF Reobserve
  <1> QED
    BY <1>1, <1>2, <1>3, <1>4, <1>5, <1>6, <1>7

LEMMA EndScanQuiet ==
  ASSUME NEW b, NEW s, EndScan(b, s)
  PROVE  Quiet
  BY OnQuiet DEF EndScan, CreateStages

LEMMA UnstableQuiet ==
  ASSUME Unstable
  PROVE  Quiet
  BY FailWorldQuiet, EndScanQuiet DEF Unstable

LEMMA ScanQuiet ==
  ASSUME \/ ScanRoot \/ ListDirectory \/ ScanItem \/ OpenFile \/ ReadFile \/ FileInterrupted
         \/ VerifyFile \/ OpenChild \/ CloseScan \/ CloseInventory
  PROVE  Quiet
  <1> USE DEF CreateStages
  <1>1. CASE ScanRoot
    BY <1>1, FailWorldQuiet, OnQuiet DEF ScanRoot
  <1>2. CASE ListDirectory
    BY <1>2, FailWorldQuiet, OnQuiet DEF ListDirectory
  <1>3. CASE ScanItem
    <2>1. ASSUME NEW n, StatItem(n)
          PROVE  Quiet
      <3>1. CASE Exceeded
        BY <3>1, EndScanQuiet DEF Exceeded
      <3>2. CASE Unstable
        BY <3>2, UnstableQuiet
      <3>3. CASE /\ \E stage \in {"open_file", "open_child", "item"} : On(stage)
                 /\ UNCHANGED host
        BY <3>3, OnQuiet
      <3> QED
        BY <2>1, <3>1, <3>2, <3>3 DEF StatItem
    <2>2. ASSUME LeaveDirectory
          PROVE  Quiet
      BY <2>2, OnQuiet, EndScanQuiet DEF LeaveDirectory, EndFirstOrSecond
    <2> QED
      BY <1>3, <2>1, <2>2, FailWorldQuiet DEF ScanItem
  <1>4. CASE OpenFile
    BY <1>4, FailWorldQuiet, OnQuiet DEF OpenFile
  <1>5. CASE ReadFile
    BY <1>5, FailWorldQuiet, OnQuiet DEF ReadFile
  <1>6. CASE FileInterrupted
    BY <1>6, FailWorldQuiet, OnQuiet DEF FileInterrupted, Interrupted
  <1>7. CASE VerifyFile
    BY <1>7, FailWorldQuiet, OnQuiet DEF VerifyFile
  <1>8. CASE OpenChild
    BY <1>8, FailWorldQuiet, OnQuiet, UnstableQuiet DEF OpenChild
  <1>9. CASE CloseScan
    BY <1>9, FailWorldQuiet, OnQuiet DEF CloseScan
  <1>10. CASE CloseInventory
    <2>1. ASSUME Return(Inventory), UNCHANGED host
          PROVE  Quiet
      <3> DEFINE o == CASE scan.bound -> "bound_exceeded"
                        [] ~scan.bound /\ scan.stable -> "stable"
                        [] OTHER -> "unstable"
      <3>1. o # "created"
        OBVIOUS
      <3>2. \E w : Inventory = Answered(o, w)
        BY DEF Inventory
      <3> HIDE DEF o
      <3> QED
        BY <2>1, <3>1, <3>2, AnswerQuiet
    <2> QED
      BY <1>10, <2>1, FailWorldQuiet DEF CloseInventory
  <1> QED
    BY <1>1, <1>2, <1>3, <1>4, <1>5, <1>6, <1>7, <1>8, <1>9, <1>10

LEMMA RequestQuiet ==
  ASSUME Request
  PROVE  Quiet
  <1>1. CASE BeginOpen \/ \E op \in {"revalidate", "create", "read", "inventory"} : Begin(op)
    BY <1>1 DEF BeginOpen, Begin, Quiet, CreateStages, host
  <1>2. CASE Refuse
    BY <1>2, AnswerQuiet DEF Refuse
  <1>3. CASE CloseRepository
    BY <1>3, AnswerQuiet DEF CloseRepository
  <1> QED
    BY <1>1, <1>2, <1>3
    DEF Request, BeginRevalidate, BeginCreate, BeginRead, BeginInventory

-----------------------------------------------------------------------------
\* The steps of a create.

\* A change that leaves the last published file where it is.
SameKept ==
  /\ kept' = kept
  /\ kept.dir # None =>
       LET f == nodes[kept.dir].ents[Final] IN
         /\ nodes'[kept.dir].kind = nodes[kept.dir].kind
         /\ nodes'[kept.dir].ents[Final] = f
         /\ nodes'[kept.dir].safe[Final] \in {nodes[kept.dir].safe[Final], f}
         /\ nodes'[f].kind = nodes[f].kind
         /\ nodes'[f].data = nodes[f].data

LEMMA SameKeptKeeps ==
  ASSUME KeptInv, SameKept, pc' \notin {"sync_parent", "close_create"}
  PROVE  KeptInv'
  BY DEF KeptInv, SameKept, Thing

LEMMA AbandonKeeps ==
  ASSUME FileInv, pc \in {"write", "close_temp", "rename"},
         NEW found, Abandon(found), UNCHANGED host
  PROVE  FileInv'
  <1>1. NodesInv(nodes)'
    BY DEF FileInv, host
  <1>2. TempInv'
    BY DEF FileInv, TempInv, Abandon
  <1>3. KeptInv'
    BY DEF FileInv, KeptInv, Abandon, Thing, host, history
  <1> QED
    BY <1>1, <1>2, <1>3 DEF FileInv

\* The names and the data of a file of which only the temporary name is set.
LEMMA OpenTempKeeps ==
  ASSUME RootInv, FileInv, OpenTemp
  PROVE  FileInv'
  <1>1. CASE \E found : FailWorld(found)
    BY <1>1, FailWorldQuiet, QuietKeeps
  <1>2. ASSUME NEW t \in Temps, NEW i \in Unused(Pinned),
               IsKind(fds.parent, "dir"),
               Stamped(Bind([nodes EXCEPT ![i] = NewNode("regular", <<>>, FALSE)],
                            fds.parent, t, i, FALSE)),
               fds' = [fds EXCEPT !.temp = i],
               call' = [call EXCEPT !.temp = t],
               On("write")
        PROVE  FileInv'
    <2> DEFINE made == [nodes EXCEPT ![i] = NewNode("regular", <<>>, FALSE)]
    <2>0. /\ i \in Inodes /\ i # None /\ ~Linked(i) /\ nodes[i].kind # "dir"
          /\ t \in Names /\ t # Final
      BY HostAssumption, ProviderAssumption DEF Unused
    <2>1. NodesInv(nodes)
      BY DEF FileInv
    <2>2. OnlyCreated(nodes, made, i, "regular", <<>>, FALSE)
      BY <2>1, CreateFields DEF NodesInv
    <2>3. nodes' = Bind(made, fds.parent, t, i, FALSE)
      BY <1>2 DEF Stamped
    <2> HIDE DEF made
    <2>4. \A k \in Inodes, n \in Names : nodes[k].kind = "dir" => nodes[k].ents[n] # i
      BY <2>0 DEF Linked, Lookup, IsKind
    <2>5. NodesInv(made) /\ Private(made, i)
      BY <2>0, <2>1, <2>2, <2>4, CreateKeeps
    <2>6. SetOnly(made, nodes', fds.parent, t, i)
      <3>1. Shaped(made)
        BY <2>5 DEF NodesInv
      <3> QED
        BY <2>3, <3>1, BindFields
    <2>7. NodesInv(nodes') /\ Private(nodes', i)
      <3>1. i \in Inodes \cup {None} /\ t \in Names
        BY <2>0
      <3>2. NodesInv(made)
        BY <2>5
      <3>3. /\ NodesInv(nodes')
            /\ \A j : (t \in Temps \/ j # i) /\ Private(made, j) => Private(nodes', j)
        BY <2>6, <3>1, <3>2, SetOnlyKeeps
      <3> QED
        BY <2>5, <3>3
    <2>8. Spare(nodes', i) /\ nodes'[i].data = <<>>
      BY <2>0, <2>2, <2>6, <2>7 DEF Spare, OnlyCreated, SetOnly
    <2>9. fds'.parent = fds.parent /\ fds'.temp = i /\ call'.temp = t /\ pc' = "write"
      BY <1>2 DEF RootInv, CallRooted, Roles, On
    <2>10. fds.parent \in Inodes /\ fds.parent # i
      BY <1>2, <2>0 DEF IsKind
    <2>11. Entry(nodes', fds.parent, t) = i
      <3>1. made[fds.parent].ents \in [Names -> Inodes \cup {None}]
        BY <2>5, <2>10 DEF NodesInv
      <3>2. nodes'[fds.parent].ents = [made[fds.parent].ents EXCEPT ![t] = i]
        BY <2>6, <2>10 DEF SetOnly
      <3>3. nodes'[fds.parent].kind = "dir"
        BY <1>2, <2>2, <2>6, <2>10 DEF SetOnly, OnlyCreated, IsKind
      <3> QED
        BY <2>0, <2>10, <3>1, <3>2, <3>3 DEF Entry
    <2>12. <<>> \in Prefixes
      <3>1. SubSeq(Content, 1, 0) = <<>> /\ 0 \in 0..Len(Content)
        BY ProviderAssumption
      <3> QED
        BY <3>1 DEF Prefixes
    <2>13. TempInv'
      BY <2>8, <2>9, <2>11, <2>12 DEF TempInv
    <2>14. SameKept
      <3>1. kept' = kept
        BY <1>2 DEF On, history
      <3>2. ASSUME kept.dir # None
            PROVE  LET f == nodes[kept.dir].ents[Final] IN
                     /\ nodes'[kept.dir].kind = nodes[kept.dir].kind
                     /\ nodes'[kept.dir].ents[Final] = f
                     /\ nodes'[kept.dir].safe[Final] = nodes[kept.dir].safe[Final]
                     /\ nodes'[f].kind = nodes[f].kind
                     /\ nodes'[f].data = nodes[f].data
        <4> DEFINE d == kept.dir
                   f == nodes[kept.dir].ents[Final]
        <4>1. d \in Inodes /\ nodes[d].kind = "dir" /\ f \in Inodes
          BY <3>2 DEF FileInv, KeptInv
        <4>2. d # i /\ f # i
          BY <2>0, <2>4, <4>1, ProviderAssumption
        <4>3. made[d] = nodes[d] /\ made[f] = nodes[f]
          BY <2>2, <4>1, <4>2 DEF OnlyCreated
        <4>4. nodes'[d].ents[Final] = made[d].ents[Final]
          <5>1. made[d].ents \in [Names -> Inodes \cup {None}] /\ Final \in Names
            BY <2>5, <4>1, ProviderAssumption DEF NodesInv
          <5> QED
            BY <2>0, <2>6, <4>1, <5>1 DEF SetOnly
        <4> QED
          BY <2>6, <4>1, <4>3, <4>4, ZenonT(30) DEF SetOnly
      <3> QED
        BY <3>1, <3>2 DEF SameKept
    <2>15. KeptInv'
      BY <2>9, <2>14, SameKeptKeeps DEF FileInv
    <2> QED
      BY <2>7, <2>13, <2>15 DEF FileInv
  <1> QED
    BY <1>1, <1>2 DEF OpenTemp

\* Only the data or the durability of a spare file changes.
SpareChanged(x) ==
  /\ Shaped(nodes')
  /\ \A k \in Inodes :
       /\ nodes'[k].kind = nodes[k].kind
       /\ nodes'[k].ents = nodes[k].ents
       /\ nodes'[k].safe = nodes[k].safe
       /\ k # x => nodes'[k].data = nodes[k].data /\ nodes'[k].synced = nodes[k].synced

LEMMA SpareChangedKeeps ==
  ASSUME NodesInv(nodes), KeptInv, kept' = kept, NEW x, Spare(nodes, x), SpareChanged(x)
  PROVE  NodesInv(nodes') /\ Spare(nodes', x) /\ SameKept
  <1>1. Spare(nodes', x)
    BY DEF Spare, Private, SpareChanged
  <1>2. ASSUME NEW k \in Inodes, NEW n \in Names \ Temps,
               nodes[k].kind = "dir", nodes[k].ents[n] # None
        PROVE  Whole(nodes', nodes[k].ents[n])
    <2>1. nodes[k].ents[n] \in Inodes
      BY <1>2 DEF NodesInv
    <2>2. nodes[k].ents[n] # x
      BY <1>2 DEF Spare, Private
    <2>3. Whole(nodes, nodes[k].ents[n])
      BY <1>2 DEF NodesInv
    <2> QED
      BY <2>1, <2>2, <2>3 DEF Whole, SpareChanged
  <1>3. NodesInv(nodes')
    BY <1>2 DEF NodesInv, SpareChanged
  <1>4. SameKept
    <2>1. ASSUME kept.dir # None
          PROVE  nodes[kept.dir].ents[Final] # x
      BY <2>1, ProviderAssumption DEF KeptInv, Spare, Private
    <2> QED
      BY <2>1 DEF SameKept, KeptInv, SpareChanged
  <1> QED
    BY <1>1, <1>3, <1>4

LEMMA PrefixLength ==
  ASSUME NEW n \in 0..Len(Content)
  PROVE  Len(SubSeq(Content, 1, n)) = n
  BY ProviderAssumption

LEMMA WholePrefix ==
  ASSUME NEW d \in Prefixes, Len(d) = Len(Content)
  PROVE  d = Content
  <1>1. PICK n \in 0..Len(Content) : d = SubSeq(Content, 1, n)
    BY DEF Prefixes
  <1>2. n = Len(Content)
    BY <1>1, PrefixLength
  <1>3. SubSeq(Content, 1, Len(Content)) = Content
    BY ProviderAssumption
  <1> QED
    BY <1>1, <1>2, <1>3

LEMMA WriteKeeps ==
  ASSUME RootInv, FileInv, WriteTemp \/ WriteInterrupted \/ SyncTemp \/ CloseTemp
  PROVE  FileInv'
  <1> DEFINE x == fds.temp
  <1>0. pc \in {"write", "close_temp"} /\ NodesInv(nodes) /\ KeptInv /\ Spare(nodes, x)
    BY DEF WriteTemp, WriteInterrupted, SyncTemp, CloseTemp, FileInv, TempInv
  <1>1. CASE \E found : Abandon(found) /\ UNCHANGED host
    BY <1>0, <1>1, AbandonKeeps
  <1>2. CASE pc' = pc /\ UNCHANGED <<host, call, fds, kept>>
    BY <1>2 DEF FileInv, TempInv, KeptInv, Thing, host
  <1>3. CASE WriteTemp
    <2>1. ASSUME NEW n \in 1..(Len(Content) - Written),
                 Stamped([nodes EXCEPT ![fds.temp] =
                   [nodes[fds.temp] EXCEPT !.data = SubSeq(Content, 1, Written + n),
                                           !.stamp = clock + 1]]),
                 On("write"), UNCHANGED memory
          PROVE  FileInv'
      <3>1. SpareChanged(x) /\ nodes'[x].data = SubSeq(Content, 1, Written + n)
        BY <1>0, <2>1 DEF Stamped, SpareChanged, NodesInv, Shaped, NodeFields, Spare
      <3>2. kept' = kept /\ pc' = "write" /\ fds' = fds /\ call' = call
        BY <2>1 DEF On, history, memory
      <3>3. NodesInv(nodes') /\ Spare(nodes', x) /\ SameKept
        BY <1>0, <3>1, <3>2, SpareChangedKeeps
      <3>4. Written \in 0..Len(Content)
        <4>1. PICK m \in 0..Len(Content) : nodes[x].data = SubSeq(Content, 1, m)
          BY <1>3 DEF WriteTemp, FileInv, TempInv, Prefixes
        <4> QED
          BY <4>1, PrefixLength DEF Written
      <3>5. nodes'[x].data \in Prefixes
        <4>1. Len(Content) \in Nat
          BY ProviderAssumption
        <4>2. Written + n \in 0..Len(Content)
          BY <3>4, <4>1
        <4> QED
          BY <3>1, <4>2 DEF Prefixes
      <3>6. Entry(nodes', fds.parent, call.temp) = Entry(nodes, fds.parent, call.temp)
        BY <3>1 DEF SpareChanged, Entry
      <3>7. TempInv'
        BY <1>3, <3>2, <3>3, <3>5, <3>6 DEF TempInv, WriteTemp, FileInv
      <3>8. KeptInv'
        BY <1>0, <3>2, <3>3, SameKeptKeeps
      <3> QED
        BY <3>3, <3>7, <3>8 DEF FileInv
    <2> QED
      BY <1>1, <1>3, <2>1 DEF WriteTemp
  <1>4. CASE WriteInterrupted
    BY <1>1, <1>2, <1>4 DEF WriteInterrupted, Interrupted, On, history
  <1>5. CASE SyncTemp
    <2>1. CASE /\ nodes' = [nodes EXCEPT ![fds.temp] = [nodes[fds.temp] EXCEPT !.synced = TRUE]]
               /\ On("close_temp")
               /\ UNCHANGED memory
      <3>1. /\ SpareChanged(x)
            /\ nodes'[x].data = nodes[x].data
            /\ nodes'[x].synced
        BY <1>0, <2>1 DEF SpareChanged, NodesInv, Shaped, NodeFields, Spare
      <3>2. kept' = kept /\ pc' = "close_temp" /\ fds' = fds /\ call' = call
        BY <2>1 DEF On, history, memory
      <3>3. NodesInv(nodes') /\ Spare(nodes', x) /\ SameKept
        BY <1>0, <3>1, <3>2, SpareChangedKeeps
      <3>4. nodes[x].data \in Prefixes /\ nodes[x].data = Content
        BY <1>5, WholePrefix DEF SyncTemp, FileInv, TempInv, Written
      <3>5. Entry(nodes', fds.parent, call.temp) = Entry(nodes, fds.parent, call.temp)
        BY <3>1 DEF SpareChanged, Entry
      <3>6. TempInv'
        BY <1>5, <3>1, <3>2, <3>3, <3>4, <3>5 DEF TempInv, SyncTemp, FileInv
      <3>7. KeptInv'
        BY <1>0, <3>2, <3>3, SameKeptKeeps
      <3> QED
        BY <3>3, <3>6, <3>7 DEF FileInv
    <2> QED
      BY <1>1, <1>5, <2>1 DEF SyncTemp
  <1>6. CASE CloseTemp
    <2>1. CASE /\ fds' = [fds EXCEPT !.temp = None]
               /\ On("rename")
               /\ UNCHANGED <<host, call>>
      <3>1. kept' = kept /\ pc' = "rename" /\ fds'.parent = fds.parent /\ call' = call
            /\ nodes' = nodes
        BY <2>1 DEF On, history, host, RootInv, CallRooted, Roles
      <3>2. TempInv'
        BY <1>6, <3>1 DEF TempInv, CloseTemp, FileInv
      <3>3. KeptInv'
        BY <1>0, <3>1 DEF KeptInv, Thing
      <3> QED
        BY <1>0, <3>1, <3>2, <3>3 DEF FileInv
    <2> QED
      BY <1>1, <1>6, <2>1 DEF CloseTemp
  <1> QED
    BY <1>3, <1>4, <1>5, <1>6

\* unlinkat of the temporary name.
LEMMA RemoveTempKeeps ==
  ASSUME FileInv, RemoveTemp
  PROVE  FileInv'
  <1>1. CASE /\ Stamped(Bind(nodes, fds.parent, call.temp, None, FALSE))
             /\ On("abandoned")
    <2>1. call.temp \in Temps /\ call.temp \in Names /\ call.temp # Final
          /\ Final \in Names /\ NodesInv(nodes)
      BY ProviderAssumption DEF RemoveTemp, FileInv, TempInv
    <2>2. SetOnly(nodes, nodes', fds.parent, call.temp, None)
      BY <1>1, <2>1, BindFields DEF Stamped, NodesInv
    <2>3. NodesInv(nodes')
      BY <2>1, <2>2, SetOnlyKeeps
    <2>4. kept' = kept /\ pc' = "abandoned"
      BY <1>1 DEF On, history
    <2>5. TempInv'
      BY <2>4 DEF TempInv
    <2>6. SameKept
      <3>1. ASSUME kept.dir # None
            PROVE  nodes'[kept.dir].ents[Final] = nodes[kept.dir].ents[Final]
        <4>1. kept.dir \in Inodes
          BY <3>1 DEF FileInv, KeptInv
        <4>2. nodes[kept.dir].ents \in [Names -> Inodes \cup {None}]
          BY <4>1 DEF FileInv, NodesInv
        <4> QED
          BY <2>1, <2>2, <4>1, <4>2 DEF SetOnly
      <3> QED
        BY <2>2, <2>4, <3>1 DEF SameKept, SetOnly, FileInv, KeptInv
    <2>7. KeptInv'
      BY <2>4, <2>6, SameKeptKeeps DEF FileInv
    <2> QED
      BY <2>3, <2>5, <2>7 DEF FileInv
  <1>2. CASE Return(Answered("ambiguous", <<>>)) /\ UNCHANGED host
    BY <1>2, AnswerQuiet, QuietKeeps
  <1> QED
    BY <1>1, <1>2 DEF RemoveTemp

\* The rename gives the whole and synced file the target's name, which is
\* neither in use nor safe before.
LEMMA PublishedKeeps ==
  ASSUME FileInv, pc = "rename", Lookup(fds.parent, Final) = None,
         Lookup(fds.parent, call.temp) # None,
         Published, pc' \in {"sync_parent", "cleanup"}, UNCHANGED <<call, fds>>
  PROVE  FileInv'
  <1> DEFINE p == fds.parent
             i == Lookup(fds.parent, call.temp)
             one == Bind(nodes, p, call.temp, None, FALSE)
             two == Bind(one, p, Final, i, FALSE)
  <1>0. NodesInv(nodes) /\ call.temp \in Temps /\ call.temp \in Names /\ Final \in Names
        /\ Final \notin Temps
    BY ProviderAssumption DEF FileInv, TempInv
  <1>1. p \in Inodes /\ nodes[p].kind = "dir" /\ nodes[p].ents[Final] = None
    BY DEF Lookup, IsKind
  <1>2. i \in Inodes /\ i # None /\ nodes[i].kind = "regular" /\ nodes[i].synced
        /\ nodes[i].data = Content
    BY DEF FileInv, TempInv, Spare, Entry, Lookup, IsKind
  <1>3. SetOnly(nodes, one, p, call.temp, None)
    BY <1>0, BindFields DEF NodesInv
  <1>4. nodes' = Restamp(two, i)
    BY DEF Published, Stamped, Renamed
  <1> HIDE DEF one, i
  <1>5. NodesInv(one)
    BY <1>0, <1>3, SetOnlyKeeps
  <1>6. SetOnly(one, two, p, Final, i)
    BY <1>5, BindFields DEF NodesInv
  <1> HIDE DEF two
  <1>7. NodesInv(two)
    <2>1. Whole(one, i)
      BY <1>2, <1>3 DEF SetOnly, Whole
    <2>2. one[p].safe[Final] = None
      <3>1. nodes[p].safe[Final] \in {None, nodes[p].ents[Final]}
        BY <1>0, <1>1 DEF NodesInv
      <3>2. one[p].safe = nodes[p].safe
        BY <1>1, <1>3 DEF SetOnly
      <3> QED
        BY <1>1, <3>1, <3>2
    <2>3. i \in Inodes \cup {None}
      BY <1>2
    <2> QED
      BY <1>0, <1>5, <1>6, <2>1, <2>2, <2>3, SetOnlyKeeps
  <1>8. Alike(two, nodes')
    BY <1>4, <1>7, RestampFields DEF NodesInv
  <1>9. NodesInv(nodes')
    BY <1>7, <1>8, AlikeKeeps
  <1>10. TempInv'
    BY <1>0 DEF TempInv
  <1>11. nodes'[p].kind = "dir" /\ nodes'[p].ents[Final] = i
    <2>1. one[p].ents \in [Names -> Inodes \cup {None}]
      BY <1>1, <1>5 DEF NodesInv
    <2>2. two[p].ents[Final] = i
      BY <1>0, <1>1, <1>6, <2>1 DEF SetOnly
    <2> QED
      BY <1>1, <1>3, <1>6, <1>8, <2>2 DEF SetOnly, Alike
  <1>12. nodes'[i].kind = "regular" /\ nodes'[i].data = Content
    <2>1. one[i].kind = "regular" /\ one[i].data = Content
      BY <1>2, <1>3 DEF SetOnly
    <2>2. two[i].kind = "regular" /\ two[i].data = Content
      BY <1>2, <1>6, <2>1 DEF SetOnly
    <2> QED
      BY <1>2, <1>8, <2>2 DEF Alike
  <1>13. kept' = [dir |-> p, sure |-> FALSE]
    BY DEF Published
  <1>14. KeptInv'
    BY <1>1, <1>2, <1>11, <1>12, <1>13 DEF KeptInv, Thing, TheFile
  <1> QED
    BY <1>9, <1>10, <1>14 DEF FileInv

LEMMA RenameTempKeeps ==
  ASSUME FileInv, RenameTemp
  PROVE  FileInv'
  <1>1. CASE \E found : Abandon(found) /\ UNCHANGED host
    BY <1>1, AbandonKeeps DEF RenameTemp
  <1>2. CASE /\ Lookup(fds.parent, Final) = None
             /\ Lookup(fds.parent, call.temp) # None
             /\ Published
             /\ pc' \in {"sync_parent", "cleanup"}
             /\ UNCHANGED memory
    BY <1>2, PublishedKeeps DEF RenameTemp, memory
  <1> QED
    BY <1>1, <1>2 DEF RenameTemp

\* fsync of the parent makes its entries safe.
LEMMA SyncParentKeeps ==
  ASSUME FileInv, SyncParent
  PROVE  FileInv'
  <1> DEFINE p == fds.parent
  <1>0. pc = "sync_parent"
    BY DEF SyncParent
  <1>1. CASE /\ nodes' = [nodes EXCEPT ![p] = [nodes[p] EXCEPT !.safe = nodes[p].ents]]
             /\ On("close_create")
    <2>1. /\ Shaped(nodes')
          /\ \A k \in Inodes :
               /\ nodes'[k].kind = nodes[k].kind
               /\ nodes'[k].data = nodes[k].data
               /\ nodes'[k].synced = nodes[k].synced
               /\ nodes'[k].ents = nodes[k].ents
               /\ nodes'[k].safe = IF k = p THEN nodes[k].ents ELSE nodes[k].safe
      BY <1>1 DEF FileInv, NodesInv, Shaped, NodeFields
    <2>2. \A j \in Inodes : Whole(nodes, j) => Whole(nodes', j)
      BY <2>1 DEF Whole
    <2>3. NodesInv(nodes')
      BY <2>1, <2>2 DEF FileInv, NodesInv
    <2>4. kept' = kept /\ pc' = "close_create"
      BY <1>1 DEF On, history
    <2>5. TempInv'
      BY <2>4 DEF TempInv
    <2>6. KeptInv'
      BY <1>0, <2>1, <2>4 DEF FileInv, KeptInv, Thing
    <2> QED
      BY <2>3, <2>5, <2>6 DEF FileInv
  <1>2. CASE FailPublished
    BY <1>2, CloseQuiet, QuietKeeps
  <1> QED
    BY <1>1, <1>2 DEF SyncParent

\* What others do between two steps of a create.
LEMMA DisturbKeeps ==
  ASSUME RootInv, FileInv, Disturb
  PROVE  FileInv'
  <1>1. Tampered(nodes, nodes', Unused(Pinned))
    BY OthersTamper DEF Disturb, FileInv
  <1>2. kept' = NoKept /\ UNCHANGED <<pc, call, fds>>
    BY DEF Disturb, memory
  <1>3. KeptInv'
    BY <1>2 DEF KeptInv, NoKept
  <1>4. fds.parent \in Pinned /\ fds.temp \notin Unused(Pinned)
    BY DEF Pinned, Unused, Roles
  <1>5. ASSUME NEW j, j \in Inodes \ Unused(Pinned), Spare(nodes, j)
        PROVE  /\ Spare(nodes', j)
               /\ nodes'[j].data = nodes[j].data
               /\ nodes'[j].synced = nodes[j].synced
    BY <1>1, <1>5 DEF Tampered, Spare, SameFile
  <1>6. \A t \in Temps : Entry(nodes', fds.parent, t) \in {None, Entry(nodes, fds.parent, t)}
    BY <1>1, <1>4 DEF Tampered, SameEntries
  <1>7. CASE pc \in {"write", "close_temp"}
    <2>1. Spare(nodes, fds.temp)
      BY <1>7 DEF FileInv, TempInv
    <2>2. /\ Spare(nodes', fds.temp)
          /\ nodes'[fds.temp].data = nodes[fds.temp].data
          /\ nodes'[fds.temp].synced = nodes[fds.temp].synced
      BY <1>4, <1>5, <2>1 DEF Spare
    <2>3. TempInv'
      BY <1>2, <1>6, <1>7, <2>2 DEF FileInv, TempInv
    <2> QED
      BY <1>1, <1>3, <2>3 DEF FileInv, Tampered
  <1>8. CASE pc = "rename"
    <2> DEFINE j == Entry(nodes, fds.parent, call.temp)
    <2>1. call.temp \in Temps
      BY <1>8 DEF FileInv, TempInv
    <2>2. ASSUME j # None
          PROVE  /\ Spare(nodes', j)
                 /\ nodes'[j].synced
                 /\ nodes'[j].data = Content
      <3>1. Spare(nodes, j) /\ nodes[j].synced /\ nodes[j].data = Content
        BY <1>8, <2>2 DEF FileInv, TempInv
      <3>2. j \in Inodes \ Unused(Pinned)
        <4>1. Linked(j)
          BY <2>1, <2>2, ProviderAssumption DEF Entry, Linked, Lookup, IsKind
        <4> QED
          BY <3>1, <4>1 DEF Unused, Spare
      <3> QED
        BY <1>5, <3>1, <3>2
    <2>3. Entry(nodes', fds.parent, call.temp) \in {None, j}
      BY <1>6, <2>1
    <2> HIDE DEF j
    <2>4. TempInv'
      BY <1>2, <1>8, <2>1, <2>2, <2>3 DEF TempInv
    <2> QED
      BY <1>1, <1>3, <2>4 DEF FileInv, Tampered
  <1>9. CASE pc \notin {"write", "close_temp", "rename"}
    <2>1. TempInv'
      BY <1>2, <1>9 DEF FileInv, TempInv
    <2> QED
      BY <1>1, <1>3, <2>1 DEF FileInv, Tampered
  <1> QED
    BY <1>7, <1>8, <1>9

\* FileInv is inductive with RootInv.
LEMMA FileInvariant == Spec => []FileInv
  <1>1. Init => FileInv
    <2> SUFFICES ASSUME Init
                 PROVE  FileInv
      OBVIOUS
    <2>1. NodesInv(nodes)
      BY HostAssumption, ProviderAssumption DEF Init, InitHost, NodesInv, Shaped, Whole
    <2>2. TempInv /\ KeptInv
      BY DEF Init, TempInv, KeptInv, NoKept
    <2> QED
      BY <2>1, <2>2 DEF FileInv
  <1>2. ASSUME RootInv, FileInv, [Next]_vars
        PROVE  FileInv'
    <2>1. CASE Progress
      BY <1>2, <2>1, QuietKeeps, OpenQuiet, CloseQuiet, ReadQuiet, ScanQuiet, OpenTempKeeps,
         WriteKeeps, RenameTempKeeps, RemoveTempKeeps, SyncParentKeeps
      DEF Progress, Step
    <2>2. CASE Request
      BY <1>2, <2>2, RequestQuiet, QuietKeeps
    <2>3. CASE Disturb
      BY <1>2, <2>3, DisturbKeeps
    <2>4. CASE UNCHANGED vars
      BY <1>2, <2>4 DEF vars, memory, host, history, FileInv, TempInv, KeptInv, Thing
    <2> QED
      BY <1>2, <2>1, <2>2, <2>3, <2>4 DEF Next
  <1> QED
    BY <1>1, <1>2, RootInvariant, PTL DEF Spec

\* A crash at any instant leaves the target's name absent or naming a whole
\* file, and leaves a file whose creation was reported: the temporary file
\* is synced before the rename and the parent after it (fsync_temp and
\* fsync_parent in create_file_transaction), and what others do in between
\* leaves the temporary file alone, since it has none but its own name.
THEOREM ProviderCrashSafe == Spec => []CrashSafe
  <1>1. FileInv => CrashSafe
    <2> SUFFICES ASSUME FileInv
                 PROVE  CrashSafe
      OBVIOUS
    <2>1. ASSUME NEW i \in Inodes, nodes[i].kind = "dir",
                 NEW j \in {nodes[i].ents[Final], nodes[i].safe[Final]} \ {None},
                 nodes[j].kind = "regular"
          PROVE  nodes[j].synced /\ nodes[j].data \in Contents \cup {Content}
      BY <2>1, ProviderAssumption DEF FileInv, NodesInv, Whole
    <2>2. ASSUME kept.sure, kept.dir # None
          PROVE  /\ nodes[kept.dir].safe[Final] = nodes[kept.dir].ents[Final]
                 /\ Thing(nodes[kept.dir].safe[Final]) = TheFile
      BY <2>2 DEF FileInv, KeptInv
    <2> QED
      BY <2>1, <2>2 DEF CrashSafe
  <1> QED
    BY <1>1, FileInvariant, PTL

-----------------------------------------------------------------------------
\* Nothing is replaced.

\* In every directory, what a name that is not temporary leads to stays as it
\* is, or the name is the target's, was free, and now leads to the whole file.
PublishesOnly ==
  \A k \in Inodes, n \in Names \ Temps :
    nodes[k].kind = "dir" =>
      /\ nodes'[k].kind = "dir"
      /\ \/ /\ nodes'[k].ents[n] = nodes[k].ents[n]
            /\ nodes[k].ents[n] # None =>
                 /\ nodes'[nodes[k].ents[n]].kind = nodes[nodes[k].ents[n]].kind
                 /\ nodes'[nodes[k].ents[n]].data = nodes[nodes[k].ents[n]].data
         \/ /\ n = Final /\ nodes[k].ents[n] = None
            /\ nodes'[nodes'[k].ents[n]].kind = "regular"
            /\ nodes'[nodes'[k].ents[n]].data = Content

LEMMA SamePublishes ==
  ASSUME nodes' = nodes
  PROVE  PublishesOnly
  BY DEF PublishesOnly

\* Only entries under a temporary name, and files without another name, change.
LEMMA SparePublishes ==
  ASSUME NEW t, NEW x, t \in Temps, NodesInv(nodes), Private(nodes, x),
         \A k \in Inodes :
           /\ nodes[k].kind = "dir" =>
                /\ nodes'[k].kind = "dir"
                /\ \A n \in Names \ {t} : nodes'[k].ents[n] = nodes[k].ents[n]
           /\ k # x => nodes'[k].kind = nodes[k].kind /\ nodes'[k].data = nodes[k].data
  PROVE  PublishesOnly
  <1> SUFFICES ASSUME NEW k \in Inodes, NEW n \in Names \ Temps, nodes[k].kind = "dir"
               PROVE  /\ nodes'[k].kind = "dir"
                      /\ nodes'[k].ents[n] = nodes[k].ents[n]
                      /\ nodes[k].ents[n] # None =>
                           /\ nodes'[nodes[k].ents[n]].kind = nodes[nodes[k].ents[n]].kind
                           /\ nodes'[nodes[k].ents[n]].data = nodes[nodes[k].ents[n]].data
    BY DEF PublishesOnly
  <1>1. nodes'[k].kind = "dir" /\ nodes'[k].ents[n] = nodes[k].ents[n]
    OBVIOUS
  <1>2. ASSUME nodes[k].ents[n] # None
        PROVE  nodes[k].ents[n] \in Inodes /\ nodes[k].ents[n] # x
    BY <1>2 DEF NodesInv, Private
  <1> QED
    BY <1>1, <1>2

LEMMA OpenTempPublishes ==
  ASSUME FileInv, OpenTemp
  PROVE  PublishesOnly
  <1>1. CASE \E found : FailWorld(found)
    BY <1>1, SamePublishes DEF FailWorld, host
  <1>2. ASSUME NEW t \in Temps, NEW i \in Unused(Pinned),
               Stamped(Bind([nodes EXCEPT ![i] = NewNode("regular", <<>>, FALSE)],
                            fds.parent, t, i, FALSE))
        PROVE  PublishesOnly
    <2> DEFINE made == [nodes EXCEPT ![i] = NewNode("regular", <<>>, FALSE)]
    <2>1. i \in Inodes /\ ~Linked(i) /\ nodes[i].kind # "dir" /\ t \in Names
      BY ProviderAssumption DEF Unused
    <2>2. NodesInv(nodes)
      BY DEF FileInv
    <2>3. OnlyCreated(nodes, made, i, "regular", <<>>, FALSE)
      BY <2>2, CreateFields DEF NodesInv
    <2>4. nodes' = Bind(made, fds.parent, t, i, FALSE)
      BY <1>2 DEF Stamped
    <2> HIDE DEF made
    <2>5. SetOnly(made, nodes', fds.parent, t, i)
      BY <2>3, <2>4, BindFields DEF OnlyCreated
    <2>6. Private(nodes, i)
      BY <2>1 DEF Linked, Lookup, IsKind, Private
    <2>7. ASSUME NEW k \in Inodes
          PROVE  /\ nodes[k].kind = "dir" =>
                      /\ nodes'[k].kind = "dir"
                      /\ \A n \in Names \ {t} : nodes'[k].ents[n] = nodes[k].ents[n]
                 /\ k # i => nodes'[k].kind = nodes[k].kind /\ nodes'[k].data = nodes[k].data
      <3>1. CASE k = i
        BY <2>1, <3>1
      <3>2. CASE k # i
        <4>1. made[k] = nodes[k] /\ made[k].ents \in [Names -> Inodes \cup {None}]
          BY <2>2, <2>3, <3>2 DEF OnlyCreated, NodesInv
        <4>2. /\ nodes'[k].kind = nodes[k].kind /\ nodes'[k].data = nodes[k].data
              /\ nodes'[k].ents = IF k = fds.parent THEN [made[k].ents EXCEPT ![t] = i]
                                  ELSE made[k].ents
          BY <2>5, <4>1 DEF SetOnly
        <4> QED
          BY <4>1, <4>2
      <3> QED
        BY <3>1, <3>2
    <2> QED
      BY <2>2, <2>6, <2>7, SparePublishes
  <1> QED
    BY <1>1, <1>2 DEF OpenTemp

LEMMA WritePublishes ==
  ASSUME FileInv, WriteTemp \/ WriteInterrupted \/ SyncTemp \/ CloseTemp
  PROVE  PublishesOnly
  <1> DEFINE x == fds.temp
  <1>0. NodesInv(nodes) /\ Spare(nodes, x) /\ call.temp \in Temps
    BY DEF WriteTemp, WriteInterrupted, SyncTemp, CloseTemp, FileInv, TempInv
  <1>1. CASE nodes' = nodes
    BY <1>1, SamePublishes
  <1>2. CASE SpareChanged(x)
    <2>1. \A k \in Inodes :
            /\ nodes[k].kind = "dir" =>
                 /\ nodes'[k].kind = "dir"
                 /\ \A n \in Names \ {call.temp} : nodes'[k].ents[n] = nodes[k].ents[n]
            /\ k # x => nodes'[k].kind = nodes[k].kind /\ nodes'[k].data = nodes[k].data
      BY <1>2 DEF SpareChanged
    <2> QED
      BY <1>0, <2>1, SparePublishes DEF Spare
  <1>3. CASE \E n \in 1..(Len(Content) - Written) :
               Stamped([nodes EXCEPT ![fds.temp] =
                 [nodes[fds.temp] EXCEPT !.data = SubSeq(Content, 1, Written + n),
                                         !.stamp = clock + 1]])
    <2>1. SpareChanged(x)
      BY <1>0, <1>3 DEF Stamped, SpareChanged, NodesInv, Shaped, NodeFields, Spare
    <2> QED
      BY <1>2, <2>1
  <1>4. CASE nodes' = [nodes EXCEPT ![fds.temp] = [nodes[fds.temp] EXCEPT !.synced = TRUE]]
    <2>1. SpareChanged(x)
      BY <1>0, <1>4 DEF SpareChanged, NodesInv, Shaped, NodeFields, Spare
    <2> QED
      BY <1>2, <2>1
  <1> QED
    BY <1>1, <1>3, <1>4 DEF WriteTemp, WriteInterrupted, Interrupted, SyncTemp, CloseTemp, host

LEMMA RemoveTempPublishes ==
  ASSUME FileInv, RemoveTemp
  PROVE  PublishesOnly
  <1>1. CASE Stamped(Bind(nodes, fds.parent, call.temp, None, FALSE))
    <2>1. call.temp \in Temps /\ call.temp \in Names /\ NodesInv(nodes)
      BY ProviderAssumption DEF RemoveTemp, FileInv, TempInv
    <2>2. SetOnly(nodes, nodes', fds.parent, call.temp, None)
      BY <1>1, <2>1, BindFields DEF Stamped, NodesInv
    <2>3. ASSUME NEW k \in Inodes, NEW n \in Names \ {call.temp}
          PROVE  nodes'[k].ents[n] = nodes[k].ents[n]
      <3>1. nodes[k].ents \in [Names -> Inodes \cup {None}]
        BY <2>1 DEF NodesInv
      <3> QED
        BY <2>2, <3>1 DEF SetOnly
    <2>4. \A k \in Inodes : nodes'[k].kind = nodes[k].kind /\ nodes'[k].data = nodes[k].data
      BY <2>2 DEF SetOnly
    <2>5. ASSUME NEW k \in Inodes, NEW n \in Names \ Temps, nodes[k].kind = "dir",
                 nodes[k].ents[n] # None
          PROVE  nodes[k].ents[n] \in Inodes
      BY <2>1, <2>5 DEF NodesInv
    <2> QED
      BY <2>1, <2>3, <2>4, <2>5 DEF PublishesOnly
  <1>2. CASE UNCHANGED host
    BY <1>2, SamePublishes DEF host
  <1> QED
    BY <1>1, <1>2 DEF RemoveTemp

LEMMA PublishedPublishes ==
  ASSUME FileInv, pc = "rename", Lookup(fds.parent, Final) = None,
         Lookup(fds.parent, call.temp) # None, Published
  PROVE  PublishesOnly
  <1> DEFINE p == fds.parent
             i == Lookup(fds.parent, call.temp)
             one == Bind(nodes, p, call.temp, None, FALSE)
             two == Bind(one, p, Final, i, FALSE)
  <1>0. NodesInv(nodes) /\ call.temp \in Temps /\ call.temp \in Names /\ Final \in Names
        /\ Final \notin Temps
    BY ProviderAssumption DEF FileInv, TempInv
  <1>1. p \in Inodes /\ nodes[p].kind = "dir" /\ nodes[p].ents[Final] = None
    BY DEF Lookup, IsKind
  <1>2. i \in Inodes /\ nodes[i].kind = "regular" /\ nodes[i].data = Content
    BY DEF FileInv, TempInv, Spare, Entry, Lookup, IsKind
  <1>3. SetOnly(nodes, one, p, call.temp, None)
    BY <1>0, BindFields DEF NodesInv
  <1>4. nodes' = Restamp(two, i)
    BY DEF Published, Stamped, Renamed
  <1> HIDE DEF one, i
  <1>5. SetOnly(one, two, p, Final, i)
    <2>1. Shaped(one)
      BY <1>3 DEF SetOnly
    <2> QED
      BY <2>1, BindFields
  <1> HIDE DEF two
  <1>6. Alike(two, nodes')
    BY <1>4, <1>5, RestampFields DEF SetOnly
  <1>7. \A k \in Inodes : nodes'[k].kind = nodes[k].kind /\ nodes'[k].data = nodes[k].data
    <2>1. \A k \in Inodes : one[k].kind = nodes[k].kind /\ one[k].data = nodes[k].data
      BY <1>3 DEF SetOnly
    <2>2. \A k \in Inodes : two[k].kind = one[k].kind /\ two[k].data = one[k].data
      BY <1>5 DEF SetOnly
    <2>3. \A k \in Inodes : nodes'[k].kind = two[k].kind /\ nodes'[k].data = two[k].data
      BY <1>6 DEF Alike
    <2> QED
      BY <2>1, <2>2, <2>3
  <1>8. ASSUME NEW k \in Inodes, NEW n \in Names \ Temps
        PROVE  nodes'[k].ents[n] = IF k = p /\ n = Final THEN i ELSE nodes[k].ents[n]
    <2>1. nodes[k].ents \in [Names -> Inodes \cup {None}]
      BY <1>0 DEF NodesInv
    <2>2. one[k].ents = IF k = p THEN [nodes[k].ents EXCEPT ![call.temp] = None]
                        ELSE nodes[k].ents
      BY <1>3 DEF SetOnly
    <2>3. nodes'[k].ents = IF k = p THEN [one[k].ents EXCEPT ![Final] = i] ELSE one[k].ents
      BY <1>5, <1>6 DEF SetOnly, Alike
    <2> QED
      BY <1>0, <2>1, <2>2, <2>3
  <1>9. ASSUME NEW k \in Inodes, NEW n \in Names \ Temps, nodes[k].kind = "dir",
               nodes[k].ents[n] # None
        PROVE  nodes[k].ents[n] \in Inodes
    BY <1>0, <1>9 DEF NodesInv
  <1> QED
    BY <1>1, <1>2, <1>7, <1>8, <1>9 DEF PublishesOnly

\* No step of the provider, in whatever call, replaces, removes or rewrites an
\* object that has a name of its own; the only entry it adds is the target's,
\* where there was none, and with the whole content (openat with O_EXCL,
\* RENAME_NOREPLACE in publish_no_replace, unlinkat of the temporary name).
\* It holds wherever others have moved the directories of the repository.
THEOREM ProviderOnlyPublishes == Spec => [][Disturb \/ PublishesOnly]_vars
  <1>1. ASSUME FileInv, Next
        PROVE  Disturb \/ PublishesOnly
    <2>1. CASE Quiet
      BY <2>1, SamePublishes DEF Quiet
    <2>2. CASE RenameTemp
      <3>1. \/ nodes' = nodes
            \/ /\ pc = "rename" /\ Lookup(fds.parent, Final) = None
               /\ Lookup(fds.parent, call.temp) # None /\ Published
        BY <2>2 DEF RenameTemp, host
      <3> QED
        BY <1>1, <3>1, SamePublishes, PublishedPublishes
    <2>3. CASE SyncParent
      <3>1. CASE FailPublished
        BY <2>1, <3>1, CloseQuiet
      <3>2. CASE nodes' = [nodes EXCEPT ![fds.parent] =
                   [nodes[fds.parent] EXCEPT !.safe = nodes[fds.parent].ents]]
        <4>1. \A k \in Inodes :
                /\ nodes'[k].kind = nodes[k].kind
                /\ nodes'[k].data = nodes[k].data
                /\ nodes'[k].ents = nodes[k].ents
          BY <1>1, <3>2 DEF FileInv, NodesInv, Shaped, NodeFields
        <4>2. ASSUME NEW k \in Inodes, NEW n \in Names \ Temps, nodes[k].kind = "dir",
                     nodes[k].ents[n] # None
              PROVE  nodes[k].ents[n] \in Inodes
          BY <1>1, <4>2 DEF FileInv, NodesInv
        <4> QED
          BY <4>1, <4>2 DEF PublishesOnly
      <3> QED
        BY <2>3, <3>1, <3>2 DEF SyncParent
    <2>4. CASE Progress
      BY <1>1, <2>1, <2>2, <2>3, <2>4, OpenQuiet, CloseQuiet, ReadQuiet, ScanQuiet,
         OpenTempPublishes, WritePublishes, RemoveTempPublishes
      DEF Progress, Step
    <2>5. CASE Request
      BY <2>1, <2>5, RequestQuiet
    <2> QED
      BY <1>1, <2>4, <2>5 DEF Next
  <1> QED
    BY <1>1, FileInvariant, PTL DEF Spec

-----------------------------------------------------------------------------
\* What a create says of its effect.

\* From the creation of the temporary file to the answer.
TempStages == CreateStages \cup {"abandoned"}

\* A create knows whether it has published, but for a rename that took place
\* and was reported as failed; its temporary name is free again when it ends.
EffectInv ==
  /\ effect \in {"none", "published"}
  /\ effect = "published" => pc \in {"cleanup", "sync_parent", "close_create"}
  /\ pc \in {"sync_parent", "close_create"} => effect = "published"
  /\ pc = "abandoned" \/ effect = "published" =>
       call.temp \in Temps /\ Entry(nodes, fds.parent, call.temp) = None

\* What the end of a call must be true of.
EffectTold ==
  pc # "idle" /\ pc' = "idle" =>
    /\ answer'.outcome = "created" => effect = "published"
    /\ answer'.outcome = "world" => effect = "none"
    /\ pc \in TempStages /\ answer'.outcome # "ambiguous" =>
         Lookup(fds.parent, call.temp) = None

LEMMA LookupIsEntry ==
  ASSUME NEW i, NEW n
  PROVE  Lookup(i, n) = Entry(nodes, i, n)
  BY DEF Lookup, IsKind, Entry

\* The steps outside the writing of a file.
Elsewhere ==
  \/ OpenBase \/ OpenRoot \/ OpenParent \/ CloseRevalidate
  \/ ClassifyTarget \/ OpenRead \/ ReadTarget \/ ReadInterrupted \/ VerifyRead
  \/ CloseRead \/ Reobserve
  \/ ScanRoot \/ ListDirectory \/ ScanItem \/ OpenFile \/ ReadFile \/ FileInterrupted
  \/ VerifyFile \/ OpenChild \/ CloseScan \/ CloseInventory

LEMMA ElsewhereQuiet ==
  ASSUME Elsewhere
  PROVE  Quiet /\ pc \notin TempStages
  <1>1. Quiet
    BY OpenQuiet, CloseQuiet, ReadQuiet, ScanQuiet DEF Elsewhere
  <1>2. pc \in {"base", "root", "parent", "close", "classify", "open_read", "read", "verify",
                "reobserve", "scan", "list", "item", "open_file", "read_file", "verify_file",
                "open_child", "close_scan"}
    BY Zenon
    DEF Elsewhere, OpenBase, OpenRoot, OpenParent, CloseRevalidate, ClassifyTarget, OpenRead,
        ReadTarget, ReadInterrupted, VerifyRead, CloseRead, Reobserve, ScanRoot, ListDirectory,
        ScanItem, OpenFile, ReadFile, FileInterrupted, VerifyFile, OpenChild, CloseScan,
        CloseInventory
  <1>3. pc \notin TempStages
    BY <1>2 DEF TempStages, CreateStages
  <1> QED
    BY <1>1, <1>3

LEMMA QuietEffect ==
  ASSUME EffectInv, Quiet, pc \notin TempStages \/ pc' = "idle"
  PROVE  EffectInv'
  BY DEF EffectInv, Quiet, TempStages, CreateStages

\* Outside the writing of a file nothing has been published.
LEMMA QuietTold ==
  ASSUME EffectInv, Quiet, pc \notin TempStages
  PROVE  EffectTold
  BY DEF EffectInv, EffectTold, Quiet, TempStages, CreateStages

\* The temporary file is made, written, synced and closed, or given up.
LEMMA WriteEffect ==
  ASSUME EffectInv, pc \in {"temp", "write", "close_temp", "rename"}, effect' = effect,
         pc' \in {"write", "close_temp", "rename", "cleanup"}
  PROVE  EffectInv' /\ EffectTold
  BY DEF EffectInv, EffectTold

LEMMA RenameEffect ==
  ASSUME FileInv, EffectInv, RenameTemp
  PROVE  EffectInv' /\ EffectTold
  <1>0. pc = "rename"
    BY DEF RenameTemp
  <1>1. CASE \E found : Abandon(found)
    <2>1. effect' = effect /\ pc' = "cleanup"
      BY <1>1 DEF Abandon, history
    <2> QED
      BY <1>0, <2>1, WriteEffect
  <1>2. CASE /\ Lookup(fds.parent, Final) = None
             /\ Published
             /\ pc' \in {"sync_parent", "cleanup"}
             /\ UNCHANGED memory
    <2> DEFINE p == fds.parent
               i == Lookup(fds.parent, call.temp)
               one == Bind(nodes, p, call.temp, None, FALSE)
               two == Bind(one, p, Final, i, FALSE)
    <2>0. NodesInv(nodes) /\ call.temp \in Temps /\ call.temp \in Names /\ Final # call.temp
      BY <1>0, ProviderAssumption DEF FileInv, TempInv
    <2>1. SetOnly(nodes, one, p, call.temp, None)
      BY <2>0, BindFields DEF NodesInv
    <2>2. nodes' = Restamp(two, i)
      BY <1>2 DEF Published, Stamped, Renamed
    <2> HIDE DEF one, i
    <2>3. SetOnly(one, two, p, Final, i)
      <3>1. Shaped(one)
        BY <2>1 DEF SetOnly
      <3> QED
        BY <3>1, BindFields
    <2> HIDE DEF two
    <2>4. Alike(two, nodes')
      BY <2>2, <2>3, RestampFields DEF SetOnly
    <2>5. Entry(nodes', p, call.temp) = None
      <3>1. CASE p \in Inodes
        <4>1. nodes[p].ents \in [Names -> Inodes \cup {None}]
          BY <2>0, <3>1 DEF NodesInv
        <4>2. one[p].ents = [nodes[p].ents EXCEPT ![call.temp] = None]
          BY <2>1, <3>1 DEF SetOnly
        <4>3. nodes'[p].ents = [one[p].ents EXCEPT ![Final] = i]
          BY <2>3, <2>4, <3>1 DEF SetOnly, Alike
        <4> QED
          BY <2>0, <4>1, <4>2, <4>3 DEF Entry
      <3>2. CASE p \notin Inodes
        BY <3>2 DEF Entry
      <3> QED
        BY <3>1, <3>2
    <2>6. effect' = "published" /\ fds' = fds /\ call' = call
      BY <1>2 DEF Published, memory
    <2> QED
      BY <1>2, <2>0, <2>5, <2>6 DEF EffectInv, EffectTold
  <1> QED
    BY <1>1, <1>2 DEF RenameTemp

LEMMA RemoveTempEffect ==
  ASSUME FileInv, EffectInv, RemoveTemp
  PROVE  EffectInv' /\ EffectTold
  <1>0. pc = "cleanup" /\ NodesInv(nodes) /\ call.temp \in Temps /\ call.temp \in Names
    BY ProviderAssumption DEF RemoveTemp, FileInv, TempInv
  <1>1. CASE /\ Lookup(fds.parent, call.temp) # None
             /\ Stamped(Bind(nodes, fds.parent, call.temp, None, FALSE))
             /\ On("abandoned")
             /\ UNCHANGED memory
    <2>1. effect' = "none" /\ pc' = "abandoned" /\ fds' = fds /\ call' = call
      BY <1>1, LookupIsEntry DEF EffectInv, On, history, memory
    <2>2. SetOnly(nodes, nodes', fds.parent, call.temp, None)
      BY <1>0, <1>1, BindFields DEF Stamped, NodesInv
    <2>3. Entry(nodes', fds.parent, call.temp) = None
      <3>1. fds.parent \in Inodes => nodes[fds.parent].ents \in [Names -> Inodes \cup {None}]
        BY <1>0 DEF NodesInv
      <3> QED
        BY <1>0, <2>2, <3>1 DEF SetOnly, Entry
    <2> QED
      BY <1>0, <2>1, <2>3 DEF EffectInv, EffectTold
  <1>2. CASE Return(Answered("ambiguous", <<>>)) /\ UNCHANGED host
    <2>1. Quiet
      BY <1>2, AnswerQuiet
    <2>2. pc' = "idle" /\ answer'.outcome = "ambiguous"
      BY <1>2 DEF Return, Answered
    <2> QED
      BY <2>1, <2>2, QuietEffect DEF EffectTold
  <1> QED
    BY <1>1, <1>2 DEF RemoveTemp

LEMMA EndEffect ==
  ASSUME FileInv, EffectInv, SyncParent \/ CloseCreate \/ FailAfterTempAttempt
  PROVE  EffectInv' /\ EffectTold
  <1>0. pc \in {"sync_parent", "close_create", "abandoned"}
    BY DEF SyncParent, CloseCreate, FailAfterTempAttempt
  <1>1. Lookup(fds.parent, call.temp) = None /\ call.temp \in Temps
    BY <1>0, LookupIsEntry DEF EffectInv
  <1>2. CASE FailPublished
    <2>1. Quiet /\ pc' = "idle" /\ answer'.outcome = "ambiguous"
      BY <1>2, CloseQuiet DEF FailPublished, Return, Answered
    <2> QED
      BY <2>1, QuietEffect DEF EffectTold
  <1>3. CASE pc = "close_create" /\ Return(Created) /\ UNCHANGED host
    <2>1. Quiet /\ pc' = "idle" /\ answer'.outcome = "created"
      BY <1>3, ReturnQuiet DEF Return, Created, Answered
    <2> QED
      BY <1>1, <1>3, <2>1, QuietEffect DEF EffectTold, EffectInv
  <1>4. CASE FailAfterTempAttempt
    <2>1. Quiet /\ pc' = "idle" /\ answer'.outcome = "world" /\ pc = "abandoned"
      BY <1>4, CloseQuiet DEF FailAfterTempAttempt, Return, Answered
    <2> QED
      BY <1>1, <2>1, QuietEffect DEF EffectTold, EffectInv
  <1>5. CASE /\ pc = "sync_parent"
             /\ nodes' = [nodes EXCEPT ![fds.parent] =
                  [nodes[fds.parent] EXCEPT !.safe = nodes[fds.parent].ents]]
             /\ On("close_create")
             /\ UNCHANGED memory
    <2>1. pc' = "close_create" /\ effect' = effect /\ fds' = fds /\ call' = call
      BY <1>5 DEF On, history, memory
    <2>2. \A k \in Inodes : nodes'[k].kind = nodes[k].kind /\ nodes'[k].ents = nodes[k].ents
      BY <1>5 DEF FileInv, NodesInv, Shaped, NodeFields
    <2>3. Entry(nodes', fds.parent, call.temp) = Entry(nodes, fds.parent, call.temp)
      BY <2>2 DEF Entry
    <2> QED
      BY <1>5, <2>1, <2>3 DEF EffectInv, EffectTold
  <1> QED
    BY <1>2, <1>3, <1>4, <1>5 DEF SyncParent, CloseCreate

LEMMA DisturbEffect ==
  ASSUME FileInv, EffectInv, Disturb
  PROVE  EffectInv' /\ EffectTold
  <1>1. Tampered(nodes, nodes', Unused(Pinned))
    BY OthersTamper DEF Disturb, FileInv
  <1>2. UNCHANGED <<pc, call, fds, effect>>
    BY DEF Disturb, memory
  <1>3. fds.parent \in Pinned
    BY DEF Pinned, Roles
  <1>4. \A t \in Temps : Entry(nodes', fds.parent, t) \in {None, Entry(nodes, fds.parent, t)}
    BY <1>1, <1>3 DEF Tampered, SameEntries
  <1> QED
    BY <1>2, <1>4 DEF EffectInv, EffectTold

LEMMA EffectSteps ==
  ASSUME FileInv, EffectInv, [Next]_vars
  PROVE  EffectInv' /\ (Next => EffectTold)
  <1>1. CASE Elsewhere
    BY <1>1, ElsewhereQuiet, QuietEffect, QuietTold
  <1>2. CASE OpenTemp
    <2>1. pc = "temp" /\ pc \notin TempStages
      BY <1>2 DEF OpenTemp, TempStages, CreateStages
    <2>2. CASE \E found : FailWorld(found)
      BY <2>1, <2>2, FailWorldQuiet, QuietEffect, QuietTold
    <2>3. CASE On("write")
      <3>1. effect' = effect /\ pc' = "write"
        BY <2>3 DEF On, history
      <3> QED
        BY <2>1, <3>1, WriteEffect
    <2> QED
      BY <1>2, <2>2, <2>3 DEF OpenTemp
  <1>3. CASE WriteTemp \/ WriteInterrupted \/ SyncTemp \/ CloseTemp
    <2>1. pc \in {"write", "close_temp"}
      BY <1>3 DEF WriteTemp, WriteInterrupted, SyncTemp, CloseTemp
    <2>2. CASE \E found : Abandon(found)
      <3>1. effect' = effect /\ pc' = "cleanup"
        BY <2>2 DEF Abandon, history
      <3> QED
        BY <2>1, <3>1, WriteEffect
    <2>3. CASE \E stage \in {"write", "close_temp", "rename"} : On(stage)
      <3>1. effect' = effect /\ pc' \in {"write", "close_temp", "rename"}
        BY <2>3 DEF On, history
      <3> QED
        BY <2>1, <3>1, WriteEffect
    <2> QED
      BY <1>3, <2>2, <2>3 DEF WriteTemp, WriteInterrupted, Interrupted, SyncTemp, CloseTemp
  <1>4. CASE RenameTemp \/ RemoveTemp \/ SyncParent \/ CloseCreate \/ FailAfterTempAttempt
    BY <1>4, RenameEffect, RemoveTempEffect, EndEffect
  <1>5. CASE Request
    <2>1. pc = "idle" /\ pc \notin TempStages /\ Quiet
      BY <1>5, RequestQuiet
      DEF Request, BeginOpen, BeginRevalidate, BeginCreate, BeginRead, BeginInventory, Begin,
          Refuse, CloseRepository, TempStages, CreateStages
    <2> QED
      BY <2>1, QuietEffect DEF EffectTold
  <1>6. CASE Disturb
    BY <1>6, DisturbEffect
  <1>7. CASE UNCHANGED vars
    BY <1>7 DEF vars, memory, host, history, EffectInv, EffectTold
  <1> QED
    BY <1>1, <1>2, <1>3, <1>4, <1>5, <1>6, <1>7 DEF Next, Progress, Step, Elsewhere

\* A create that answers created has published its file; one that answers
\* world has not, also when a rename that was reported as failed took place;
\* and unless it answers ambiguous it leaves no temporary file behind
\* (fail_private, fail_published and fail_after_temp_attempt).  Others may
\* change the repository between any two of its system calls.
THEOREM ProviderEffectTold == Spec => [][EffectTold]_vars
  <1>1. Init => EffectInv
    BY DEF Init, EffectInv
  <1>2. FileInv /\ EffectInv /\ [Next]_vars => EffectInv'
    BY EffectSteps
  <1>3. FileInv /\ EffectInv /\ [Next]_vars => [EffectTold]_vars
    BY EffectSteps
  <1> QED
    BY <1>1, <1>2, <1>3, FileInvariant, PTL DEF Spec

=============================================================================
