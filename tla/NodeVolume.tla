----------------------------- MODULE NodeVolume -----------------------------
(***************************************************************************)
(* The node server (internal/csi/node.go): NodePublishVolume mounts a tmpfs *)
(* on a volume's target path, writes the secret's files into it and notes   *)
(* the restart time on the pod; NodeUnpublishVolume undoes the mount.       *)
(* The kubelet, the file system and the API server are external: the        *)
(* kubelet keeps retrying, gives up on a call that is slow, and has at most *)
(* one call per volume that it still waits for.  A handler the kubelet gave *)
(* up on goes on running, and a plugin that dies leaves its mounts behind.  *)
(***************************************************************************)
EXTENDS Naturals, Sequences

CONSTANTS
  Volumes,
  Pods,
  Publishes,  \* NodePublishVolume calls
  VolumeOf,   \* the volume (and so the target path) of a publish
  PodOf,      \* the pod a volume belongs to
  Files,      \* file names
  FilesOf,    \* names of the files the backend returns to a publish
  ExpiryOf,   \* ExpiresTime of a publish; 0 when it is nil
  None,
  MaxCrashes  \* bound on plugin crashes

ASSUME NodeAssumption ==
  /\ VolumeOf \in [Publishes -> Volumes]
  /\ PodOf \in [Volumes -> Pods]
  /\ FilesOf \in [Publishes -> SUBSET Files]
  /\ ExpiryOf \in [Publishes -> Nat]
  /\ None \notin Publishes
  /\ MaxCrashes \in Nat

VARIABLES
  dir,        \* the target path of a volume exists
  under,      \* files in that directory itself
  stack,      \* contents of the tmpfs mounted on it, the visible one last
  notes,      \* per pod and volume: the restarter-expires-at annotation (0: none)
  cached,     \* the pods as the plugin's informer has them
  pc,         \* where a publish is, or how it ended
  todo,       \* files it still has to write
  pod,        \* annotations of the pod object it read
  waiting,    \* publish of a volume the kubelet waits for, or None
  served,     \* publish of a volume that the kubelet got an OK from, or None
  want,       \* whether the kubelet wants the volume "up" or "down"
  upc,        \* NodeUnpublishVolume of a volume: idle, or its next step
  gone,       \* the kubelet got an OK from NodeUnpublishVolume
  overlapped, \* volumes of which two handlers have run at the same time
  crashes

target == <<dir, under, stack>>
podState == <<notes, cached>>
handler == <<pc, todo, pod>>
kubelet == <<waiting, served, want, gone>>
vars == <<target, podState, handler, kubelet, upc, overlapped, crashes>>

Running == {"prepare", "check", "mkdir", "mount", "write"}

\* Contents of a directory: for each file the publish that wrote it.
Contents == [Files -> Publishes \cup {None}]
Empty == [f \in Files |-> None]
Notes == [Volumes -> Nat]

TypeOK ==
  /\ dir \in [Volumes -> BOOLEAN]
  /\ under \in [Volumes -> Contents]
  /\ stack \in [Volumes -> Seq(Contents)]
  /\ notes \in [Pods -> Notes]
  /\ cached \in [Pods -> Notes]
  /\ pc \in [Publishes -> {"idle", "ok", "failed"} \cup Running]
  /\ todo \in [Publishes -> SUBSET Files]
  /\ pod \in [Publishes -> Notes]
  /\ waiting \in [Volumes -> Publishes \cup {None}]
  /\ served \in [Volumes -> Publishes \cup {None}]
  /\ want \in [Volumes -> {"up", "down"}]
  /\ upc \in [Volumes -> {"idle", "unmount", "remove"}]
  /\ gone \in [Volumes -> BOOLEAN]
  /\ overlapped \subseteq Volumes
  /\ crashes \in 0 .. MaxCrashes
  \* The kubelet only waits for a handler that runs.
  /\ \A v \in Volumes : waiting[v] # None =>
       VolumeOf[waiting[v]] = v /\ pc[waiting[v]] \in Running

NoNotes == [v \in Volumes |-> 0]

Init ==
  /\ dir = [v \in Volumes |-> FALSE]
  /\ under = [v \in Volumes |-> Empty]
  /\ stack = [v \in Volumes |-> <<>>]
  /\ notes = [p \in Pods |-> NoNotes]
  /\ cached = [p \in Pods |-> NoNotes]
  /\ pc = [c \in Publishes |-> "idle"]
  /\ todo = [c \in Publishes |-> {}]
  /\ pod = [c \in Publishes |-> NoNotes]
  /\ waiting = [v \in Volumes |-> None]
  /\ served = [v \in Volumes |-> None]
  /\ want = [v \in Volumes |-> "up"]
  /\ upc = [v \in Volumes |-> "idle"]
  /\ gone = [v \in Volumes |-> FALSE]
  /\ overlapped = {}
  /\ crashes = 0

\* A handler starts for v; the kubelet's order of calls would not let it start
\* beside another one that it still waits for.
Enter(v) ==
  overlapped' = IF \E c \in Publishes : VolumeOf[c] = v /\ pc[c] \in Running
                THEN overlapped \cup {v} ELSE overlapped

Goto(c, from, to) ==
  /\ pc[c] = from
  /\ pc' = [pc EXCEPT ![c] = to]

\* Slip: an error is logged and never returned to the kubelet.
AnswerOnlyOK(c, how) ==
  LET v == VolumeOf[c] IN
  /\ pc' = [pc EXCEPT ![c] = how]
  /\ todo' = [todo EXCEPT ![c] = {}]
  /\ pod' = [pod EXCEPT ![c] = NoNotes]
  /\ waiting' = [waiting EXCEPT ![v] = IF how = "ok" /\ @ = c THEN None ELSE @]
  /\ served' = [served EXCEPT ![v] = IF how = "ok" /\ waiting[v] = c THEN c ELSE @]
  /\ UNCHANGED <<want, gone, upc, overlapped, crashes>>

\* The handler returns.  The kubelet only learns of it if it still waits.
Answer(c, how) ==
  LET v == VolumeOf[c] IN
  /\ pc' = [pc EXCEPT ![c] = how]
  /\ todo' = [todo EXCEPT ![c] = {}]
  /\ pod' = [pod EXCEPT ![c] = NoNotes]
  /\ waiting' = [waiting EXCEPT ![v] = IF @ = c THEN None ELSE @]
  /\ served' = [served EXCEPT ![v] = IF how = "ok" /\ waiting[v] = c THEN c ELSE @]
  /\ UNCHANGED <<want, gone, upc, overlapped, crashes>>
-----------------------------------------------------------------------------
StartPublish(c) ==
  LET v == VolumeOf[c] IN
  /\ Goto(c, "idle", "prepare")
  /\ want[v] = "up" /\ waiting[v] = None /\ served[v] = None
  /\ waiting' = [waiting EXCEPT ![v] = c]
  /\ Enter(v)
  /\ UNCHANGED <<target, podState, todo, pod, served, want, gone, upc, crashes>>

\* Everything before mount(): the request is checked, the SecretClass and the
\* pod are read, the backend returns the files.
Prepare(c) ==
  /\ Goto(c, "prepare", "check")
  /\ todo' = [todo EXCEPT ![c] = FilesOf[c]]
  /\ pod' = [pod EXCEPT ![c] = cached[PodOf[VolumeOf[c]]]]
  /\ UNCHANGED <<target, podState, kubelet, upc, overlapped, crashes>>

\* Slip: an existing target path is taken for one made in advance.
CheckNothing(c) ==
  /\ Goto(c, "check", "mkdir")
  /\ UNCHANGED <<target, podState, todo, pod, kubelet, upc, overlapped, crashes>>

\* mount.PathExists.
CheckPath(c) ==
  /\ ~dir[VolumeOf[c]]
  /\ Goto(c, "check", "mkdir")
  /\ UNCHANGED <<target, podState, todo, pod, kubelet, upc, overlapped, crashes>>

\* os.MkdirAll, which accepts a directory that appeared since the check.
Mkdir(c) ==
  /\ Goto(c, "mkdir", "mount")
  /\ dir' = [dir EXCEPT ![VolumeOf[c]] = TRUE]
  /\ UNCHANGED <<under, stack, podState, todo, pod, kubelet, upc, overlapped, crashes>>

Mount(c) ==
  LET v == VolumeOf[c] IN
  /\ dir[v]
  /\ Goto(c, "mount", "write")
  /\ stack' = [stack EXCEPT ![v] = Append(@, Empty)]
  /\ UNCHANGED <<dir, under, podState, todo, pod, kubelet, upc, overlapped, crashes>>

\* One os.WriteFile of writeData; the map's order is arbitrary.
WriteFile(c, f) ==
  LET v == VolumeOf[c] IN
  /\ pc[c] = "write" /\ f \in todo[c] /\ dir[v]
  /\ \/ /\ stack[v] # <<>>
        /\ stack' = [stack EXCEPT ![v][Len(stack[v])][f] = c]
        /\ UNCHANGED under
     \/ /\ stack[v] = <<>>
        /\ under' = [under EXCEPT ![v][f] = c]
        /\ UNCHANGED stack
  /\ todo' = [todo EXCEPT ![c] = @ \ {f}]
  /\ UNCHANGED <<dir, podState, pc, pod, kubelet, upc, overlapped, crashes>>

\* Slip: the pod is updated as a whole from the cached object.
WholePod(c) ==
  notes' = [notes EXCEPT ![PodOf[VolumeOf[c]]] = [pod[c] EXCEPT ![VolumeOf[c]] = ExpiryOf[c]]]

\* The merge patch holds the keys in which the new object differs from the
\* one that was read.
Patch(c) ==
  LET new == [pod[c] EXCEPT ![VolumeOf[c]] = ExpiryOf[c]] IN
  notes' = [notes EXCEPT ![PodOf[VolumeOf[c]]] =
              [v \in Volumes |-> IF new[v] # pod[c][v] THEN new[v] ELSE @[v]]]

\* updatePod, and the OK.  The request is bound to the call's context, which
\* ends when the kubelet gives up.
UpdatePod(c) ==
  /\ pc[c] = "write" /\ todo[c] = {}
  /\ \/ ExpiryOf[c] = 0 /\ UNCHANGED notes
     \/ ExpiryOf[c] # 0 /\ waiting[VolumeOf[c]] = c /\ Patch(c)
  /\ Answer(c, "ok")
  /\ UNCHANGED <<target, cached>>

\* The API server applied the patch but its answer was lost.
UpdatePodLost(c) ==
  /\ pc[c] = "write" /\ todo[c] = {}
  /\ ExpiryOf[c] # 0 /\ waiting[VolumeOf[c]] = c /\ Patch(c)
  /\ Answer(c, "failed")
  /\ UNCHANGED <<target, cached>>

\* Any step may end in an error, which the handler returns as it stands:
\* whatever it has mounted or written stays.  A step whose guard is false (a
\* target path that exists or that has vanished) can only end so.
PublishFails(c) ==
  /\ pc[c] \in Running
  /\ Answer(c, "failed")
  /\ UNCHANGED <<target, podState>>
-----------------------------------------------------------------------------
\* NodeUnpublishVolume; the kubelet repeats it until it is answered with OK.
StartUnpublish(v) ==
  /\ want[v] = "down" /\ waiting[v] = None /\ ~gone[v] /\ upc[v] = "idle"
  /\ upc' = [upc EXCEPT ![v] = "unmount"]
  /\ Enter(v)
  /\ UNCHANGED <<target, podState, handler, kubelet, crashes>>

Unmount(v) ==
  /\ upc[v] = "unmount" /\ stack[v] # <<>>
  /\ stack' = [stack EXCEPT ![v] = SubSeq(@, 1, Len(@) - 1)]
  /\ upc' = [upc EXCEPT ![v] = "remove"]
  /\ UNCHANGED <<dir, under, podState, handler, kubelet, overlapped, crashes>>

\* Slip: the error is returned, as the FIXME in the code asks.
UnmountErrorReturned(v) ==
  /\ upc[v] = "unmount"
  /\ upc' = [upc EXCEPT ![v] = "idle"]
  /\ UNCHANGED <<target, podState, handler, kubelet, overlapped, crashes>>

\* Nothing is mounted, or the mount is busy: the error is only logged.
UnmountFails(v) ==
  /\ upc[v] = "unmount"
  /\ upc' = [upc EXCEPT ![v] = "remove"]
  /\ UNCHANGED <<target, podState, handler, kubelet, overlapped, crashes>>

\* Slip: the error of os.RemoveAll is dropped like that of Unmount.
RemoveAllOrNot(v) ==
  /\ upc[v] = "remove"
  /\ dir' = [dir EXCEPT ![v] = stack[v] # <<>>]
  /\ under' = [under EXCEPT ![v] = IF stack[v] = <<>> THEN Empty ELSE @]
  /\ gone' = [gone EXCEPT ![v] = TRUE]
  /\ served' = [served EXCEPT ![v] = None]
  /\ upc' = [upc EXCEPT ![v] = "idle"]
  /\ UNCHANGED <<stack, podState, handler, waiting, want, overlapped, crashes>>

RemoveAll(v) ==
  /\ upc[v] = "remove" /\ stack[v] = <<>>
  /\ dir' = [dir EXCEPT ![v] = FALSE]
  /\ under' = [under EXCEPT ![v] = Empty]
  /\ gone' = [gone EXCEPT ![v] = TRUE]
  /\ served' = [served EXCEPT ![v] = None]
  /\ upc' = [upc EXCEPT ![v] = "idle"]
  /\ UNCHANGED <<stack, podState, handler, waiting, want, overlapped, crashes>>

\* A mount point cannot be removed: os.RemoveAll empties the visible tmpfs
\* and fails.  It may also fail before it removed anything.
RemoveAllFails(v) ==
  /\ upc[v] = "remove"
  /\ \/ /\ stack[v] # <<>>
        /\ stack' = [stack EXCEPT ![v][Len(stack[v])] = Empty]
     \/ UNCHANGED stack
  /\ upc' = [upc EXCEPT ![v] = "idle"]
  /\ UNCHANGED <<dir, under, podState, handler, kubelet, overlapped, crashes>>
-----------------------------------------------------------------------------
\* The pod is deleted.
TearDown(v) ==
  /\ want[v] = "up"
  /\ want' = [want EXCEPT ![v] = "down"]
  /\ UNCHANGED <<target, podState, handler, waiting, served, gone, upc, overlapped, crashes>>

\* The kubelet's deadline for the call passes.
Timeout(v) ==
  /\ waiting[v] # None
  /\ waiting' = [waiting EXCEPT ![v] = None]
  /\ UNCHANGED <<target, podState, handler, served, want, gone, upc, overlapped, crashes>>

\* After a failed publish the kubelet removes a target path that is an empty
\* directory and no mount point.
RemoveMountDir(v) ==
  /\ dir[v] /\ stack[v] = <<>> /\ under[v] = Empty /\ waiting[v] = None
  /\ dir' = [dir EXCEPT ![v] = FALSE]
  /\ UNCHANGED <<under, stack, podState, handler, kubelet, upc, overlapped, crashes>>

\* The plugin dies: its handlers are gone, the node's mounts are not.
Crash ==
  /\ crashes < MaxCrashes
  /\ crashes' = crashes + 1
  /\ pc' = [c \in Publishes |-> IF pc[c] \in Running THEN "failed" ELSE pc[c]]
  /\ todo' = [c \in Publishes |-> {}]
  /\ pod' = [c \in Publishes |-> NoNotes]
  /\ waiting' = [v \in Volumes |-> None]
  /\ upc' = [v \in Volumes |-> "idle"]
  /\ UNCHANGED <<target, podState, served, want, gone, overlapped>>

\* The plugin's informer catches up with a pod.
SyncPod(p) ==
  /\ cached[p] # notes[p]
  /\ cached' = [cached EXCEPT ![p] = notes[p]]
  /\ UNCHANGED <<target, notes, handler, kubelet, upc, overlapped, crashes>>

PublishStep(c) ==
  \/ Prepare(c) \/ CheckPath(c) \/ Mkdir(c) \/ Mount(c)
  \/ \E f \in Files : WriteFile(c, f)
  \/ UpdatePod(c) \/ UpdatePodLost(c) \/ PublishFails(c)

UnpublishStep(v) ==
  Unmount(v) \/ UnmountFails(v) \/ RemoveAll(v) \/ RemoveAllFails(v)

Next ==
  \/ \E c \in Publishes : StartPublish(c) \/ PublishStep(c)
  \/ \E v \in Volumes : \/ StartUnpublish(v) \/ UnpublishStep(v)
                        \/ TearDown(v) \/ Timeout(v) \/ RemoveMountDir(v)
  \/ \E p \in Pods : SyncPod(p)
  \/ Crash

Spec == Init /\ [][Next]_vars

\* Handlers run on, the kubelet repeats NodeUnpublishVolume, and a mount or a
\* directory that it keeps trying to remove is not busy forever.
FairSpec ==
  /\ Spec
  /\ \A c \in Publishes : WF_vars(PublishStep(c))
  /\ \A v \in Volumes : /\ WF_vars(StartUnpublish(v)) /\ WF_vars(UnpublishStep(v))
                        /\ SF_vars(Unmount(v)) /\ SF_vars(RemoveAll(v))
-----------------------------------------------------------------------------
(***************************************************************************)
(* Properties.                                                             *)
(***************************************************************************)

\* When the kubelet has an OK and still wants the volume, the target path
\* shows one tmpfs with exactly the files of the call that answered, and the
\* pod carries that call's restart time: leftovers of failed calls, calls
\* given up on and crashed plugins are never served, and publishes of the
\* pod's other volumes do not overwrite the annotation (NodePublishVolume).
\* Nothing orders two handlers of one volume that run at the same time.
ServedComplete ==
  \A v \in Volumes \ overlapped : served[v] # None /\ want[v] = "up" =>
    LET c == served[v] IN
    /\ dir[v]
    /\ stack[v] = <<[f \in Files |-> IF f \in FilesOf[c] THEN c ELSE None]>>
    /\ ExpiryOf[c] # 0 => notes[PodOf[v]][v] = ExpiryOf[c]

\* Once NodeUnpublishVolume answered OK nothing of the volume is left on the
\* node, although it ignores the error of Unmount: "unmount the volume from
\* the target path, and remove the target path".
UnpublishedMeansGone ==
  \A v \in Volumes \ overlapped :
    gone[v] => ~dir[v] /\ stack[v] = <<>> /\ under[v] = Empty

\* The comment of mount(): a target path that exists makes it "return error",
\* so two tmpfs are never stacked on one target path.
NoStackedMounts == \A v \in Volumes : Len(stack[v]) <= 1

\* A volume whose pod is deleted is unpublished in the end, whatever publishes
\* left behind: nothing mounted, a bare directory, or several stacked tmpfs
\* of which every NodeUnpublishVolume removes one.
TornDownGone == \A v \in Volumes : want[v] = "down" ~> gone[v]
=============================================================================
