-------------------------- MODULE NodeVolumeProofs --------------------------
(***************************************************************************)
(* Proofs about NodeVolume, for every set of pods, volumes and calls, and   *)
(* any number of crashes.                                                   *)
(***************************************************************************)
EXTENDS NodeVolumeTypeProofs

\* The publish handlers that run for a volume.
Handlers(v) == {c \in Publishes : VolumeOf[c] = v /\ pc[c] \in Running}

\* A tmpfs with these files of call c.
Written(c, files) == [f \in Files |-> IF f \in files THEN c ELSE None]

\* A call has noted no restart time for the volume yet.
Unnoted(v) == notes[PodOf[v]][v] = 0 /\ cached[PodOf[v]][v] = 0

\* What is known of a handler that runs alone for its volume.  It passes
\* mount.PathExists only when nothing is left of other calls, and they leave
\* their mount behind once they may have patched the pod.
HandlerInv(c) ==
  LET v == VolumeOf[c] IN
  /\ pc[c] \in {"check", "mkdir", "mount"} => todo[c] = FilesOf[c]
  /\ pc[c] = "mkdir" => ~dir[v]
  /\ pc[c] = "mount" => stack[v] = <<>>
  /\ pc[c] = "write" =>
       /\ dir[v] /\ todo[c] \subseteq FilesOf[c]
       /\ stack[v] = <<Written(c, FilesOf[c] \ todo[c])>>
       /\ Unnoted(v)
  /\ pc[c] = "write" \/ (pc[c] \in {"check", "mkdir", "mount"} /\ stack[v] = <<>>) =>
       pod[c][v] = 0

\* What is known of a volume whose handlers never ran at the same time.
AloneInv(v) ==
  /\ \A c, d \in Handlers(v) : c = d
  /\ upc[v] # "idle" \/ gone[v] \/ served[v] # None => Handlers(v) = {}
  /\ gone[v] => ~dir[v]
  /\ (want[v] = "up" \/ Handlers(v) # {}) /\ stack[v] = <<>> => Unnoted(v)
  /\ \A c \in Handlers(v) : HandlerInv(c)
  /\ served[v] # None /\ want[v] = "up" =>
       /\ dir[v]
       /\ stack[v] = <<Written(served[v], FilesOf[served[v]])>>
       /\ ExpiryOf[served[v]] # 0 => notes[PodOf[v]][v] = ExpiryOf[served[v]]

VolumeInv(v) ==
  /\ ~dir[v] => stack[v] = <<>> /\ under[v] = Empty
  /\ upc[v] # "idle" \/ gone[v] => want[v] = "down"
  /\ v \notin overlapped => AloneInv(v)

IInv == TypeOK /\ \A v \in Volumes : VolumeInv(v)
-----------------------------------------------------------------------------
(***************************************************************************)
(* Steps of other volumes.                                                 *)
(***************************************************************************)

\* Nothing of volume w moves.
Unmoved(w) ==
  /\ dir'[w] = dir[w] /\ under'[w] = under[w] /\ stack'[w] = stack[w]
  /\ upc'[w] = upc[w] /\ gone'[w] = gone[w] /\ want'[w] = want[w] /\ served'[w] = served[w]
  /\ w \in overlapped => w \in overlapped'
  /\ notes'[PodOf[w]][w] = notes[PodOf[w]][w] /\ cached'[PodOf[w]][w] = cached[PodOf[w]][w]
  /\ \A c \in Publishes : VolumeOf[c] = w =>
       pc'[c] = pc[c] /\ todo'[c] = todo[c] /\ pod'[c] = pod[c]

\* What is known of a volume that does not move stays known.
LEMMA UnmovedInv ==
  ASSUME NEW w \in Volumes, VolumeInv(w), Unmoved(w)
  PROVE  VolumeInv(w)'
  <1>1. Handlers(w)' = Handlers(w)
    BY Zenon DEF Handlers, Unmoved
  <1>2. Unnoted(w)' <=> Unnoted(w)
    BY Zenon DEF Unnoted, Unmoved
  <1>3. ASSUME NEW c \in Handlers(w), HandlerInv(c)
        PROVE  HandlerInv(c)'
    <2>1. /\ c \in Publishes /\ VolumeOf[c] = w
          /\ pc'[c] = pc[c] /\ todo'[c] = todo[c] /\ pod'[c] = pod[c]
      BY Zenon DEF Handlers, Unmoved
    <2>2. dir'[w] = dir[w] /\ stack'[w] = stack[w]
      BY Zenon DEF Unmoved
    <2>3. QED
      BY Zenon, <1>2, <1>3, <2>1, <2>2 DEF HandlerInv, Written
  <1>4. ASSUME AloneInv(w)
        PROVE  AloneInv(w)'
    <2>1. \A c \in Handlers(w) : HandlerInv(c)'
      BY Zenon, <1>3, <1>4 DEF AloneInv
    <2>2. QED
      BY Zenon, <1>1, <1>2, <1>4, <2>1 DEF AloneInv, Unmoved, Written
  <1>5. QED
    BY Zenon, <1>4 DEF VolumeInv, Unmoved, Empty

\* A merge patch changes the annotation of one volume.
LEMMA PatchEffect ==
  ASSUME TypeOK, NEW c \in Publishes, Patch(c)
  PROVE  /\ \A w \in Volumes : w # VolumeOf[c] => notes'[PodOf[w]][w] = notes[PodOf[w]][w]
         /\ pod[c][VolumeOf[c]] # ExpiryOf[c] =>
              notes'[PodOf[VolumeOf[c]]][VolumeOf[c]] = ExpiryOf[c]
  <1> DEFINE v == VolumeOf[c]
             new == [pod[c] EXCEPT ![v] = ExpiryOf[c]]
             noted == [w \in Volumes |-> IF new[w] # pod[c][w] THEN new[w] ELSE notes[PodOf[v]][w]]
  <1>1. v \in Volumes /\ PodOf[v] \in Pods /\ \A w \in Volumes : PodOf[w] \in Pods
    BY Zenon, NodeAssumption
  <1>2. DOMAIN pod[c] = Volumes /\ DOMAIN notes = Pods
    BY Zenon DEF TypeOK, Notes
  <1>3. notes' = [notes EXCEPT ![PodOf[v]] = noted]
    BY Zenon DEF Patch
  <1>4. new[v] = ExpiryOf[c] /\ \A w \in Volumes : w # v => new[w] = pod[c][w]
    BY Zenon, <1>1, <1>2
  <1> HIDE DEF new
  <1>5. \A w \in Volumes : w # v => noted[w] = notes[PodOf[v]][w]
    BY Zenon, <1>4
  <1>6. pod[c][v] # ExpiryOf[c] => noted[v] = ExpiryOf[c]
    BY Zenon, <1>1, <1>4
  <1> HIDE DEF noted
  <1>7. QED
    BY Zenon, <1>1, <1>2, <1>3, <1>5, <1>6

\* A publish leaves the other volumes alone, those of its pod included.
LEMMA PublishFrame ==
  ASSUME TypeOK, NEW c \in Publishes, StartPublish(c) \/ PublishStep(c),
         NEW w \in Volumes, w # VolumeOf[c]
  PROVE  Unmoved(w)
  <1> USE DEF target, podState, handler, kubelet
  <1>1. \A d \in Publishes : VolumeOf[d] = w => d # c
    OBVIOUS
  <1>2. CASE StartPublish(c)
    BY Zenon, <1>1, <1>2 DEF StartPublish, Goto, Enter, Unmoved, TypeOK
  <1>3. CASE Prepare(c) \/ CheckPath(c)
    BY <1>1, <1>3 DEF Prepare, CheckPath, Goto, Unmoved, TypeOK
  <1>4. CASE Mkdir(c) \/ Mount(c)
    BY Zenon, <1>1, <1>4 DEF Mkdir, Mount, Goto, Unmoved, TypeOK
  <1>5. ASSUME NEW f \in Files, WriteFile(c, f)
        PROVE  Unmoved(w)
    <2>1. stack'[w] = stack[w] /\ under'[w] = under[w]
      BY Zenon, <1>5 DEF WriteFile, TypeOK
    <2>2. \A d \in Publishes : d # c => todo'[d] = todo[d]
      BY Zenon, <1>5 DEF WriteFile, TypeOK
    <2>3. UNCHANGED <<dir, podState, pc, pod, kubelet, upc, overlapped>>
      BY Zenon, <1>5 DEF WriteFile
    <2>4. QED
      BY Zenon, <1>1, <2>1, <2>2, <2>3 DEF Unmoved
  <1>6. CASE UpdatePod(c) \/ UpdatePodLost(c) \/ PublishFails(c)
    <2>1. PICK how : Answer(c, how)
      BY Zenon, <1>6 DEF UpdatePod, UpdatePodLost, PublishFails
    <2>2. notes'[PodOf[w]][w] = notes[PodOf[w]][w] /\ UNCHANGED <<target, cached>>
      BY Zenon, <1>6, PatchEffect DEF UpdatePod, UpdatePodLost, PublishFails
    <2>3. served'[w] = served[w] /\ UNCHANGED <<want, gone, upc, overlapped>>
      BY Zenon, <2>1 DEF Answer, TypeOK
    <2>4. \A d \in Publishes : d # c => pc'[d] = pc[d] /\ todo'[d] = todo[d] /\ pod'[d] = pod[d]
      BY Zenon, <2>1 DEF Answer, TypeOK
    <2>5. QED
      BY Zenon, <1>1, <2>2, <2>3, <2>4 DEF Unmoved
  <1>7. QED
    BY Zenon, <1>2, <1>3, <1>4, <1>5, <1>6 DEF PublishStep

\* So does what happens to one volume on the node or in the kubelet.
LEMMA VolumeFrame ==
  ASSUME TypeOK, NEW v \in Volumes,
         \/ StartUnpublish(v) \/ UnpublishStep(v)
         \/ TearDown(v) \/ Timeout(v) \/ RemoveMountDir(v),
         NEW w \in Volumes, w # v
  PROVE  Unmoved(w)
  <1> USE DEF target, podState, handler, kubelet
  <1>1. CASE StartUnpublish(v)
    BY Zenon, <1>1 DEF StartUnpublish, Enter, Unmoved, TypeOK
  <1>2. CASE Unmount(v) \/ UnmountFails(v)
    BY <1>2 DEF Unmount, UnmountFails, Unmoved, TypeOK
  <1>3. CASE RemoveAll(v)
    BY Zenon, <1>3 DEF RemoveAll, Unmoved, TypeOK
  <1>4. CASE RemoveAllFails(v)
    BY Zenon, <1>4 DEF RemoveAllFails, Unmoved, TypeOK
  <1>5. CASE TearDown(v) \/ Timeout(v) \/ RemoveMountDir(v)
    BY <1>5 DEF TearDown, Timeout, RemoveMountDir, Unmoved, TypeOK
  <1>6. QED
    BY Zenon, <1>1, <1>2, <1>3, <1>4, <1>5 DEF UnpublishStep
-----------------------------------------------------------------------------
(***************************************************************************)
(* Steps of the volume itself.                                             *)
(***************************************************************************)

\* A handler that runs and was never joined by another runs alone.
LEMMA RunsAlone ==
  ASSUME NEW c \in Publishes, VolumeInv(VolumeOf[c]), pc[c] \in Running,
         VolumeOf[c] \notin overlapped
  PROVE  /\ Handlers(VolumeOf[c]) = {c} /\ HandlerInv(c)
         /\ upc[VolumeOf[c]] = "idle" /\ ~gone[VolumeOf[c]] /\ served[VolumeOf[c]] = None
  <1>1. c \in Handlers(VolumeOf[c]) /\ AloneInv(VolumeOf[c])
    BY Zenon DEF Handlers, VolumeInv
  <1>2. Handlers(VolumeOf[c]) = {c}
    BY Zenon, <1>1 DEF AloneInv
  <1>3. HandlerInv(c)
    BY Zenon, <1>1 DEF AloneInv
  <1>4. Handlers(VolumeOf[c]) # {}
    BY Zenon, <1>1
  <1>5. QED
    BY Zenon, <1>1, <1>2, <1>3, <1>4 DEF AloneInv

\* A handler that starts is the first, or the volume counts as overlapped.
LEMMA StartInv ==
  ASSUME TypeOK, NEW c \in Publishes, VolumeInv(VolumeOf[c]), StartPublish(c)
  PROVE  VolumeInv(VolumeOf[c])'
  <1> DEFINE v == VolumeOf[c]
  <1>0. v \in Volumes
    BY Zenon, NodeAssumption
  <1>1. /\ pc' = [pc EXCEPT ![c] = "prepare"] /\ want[v] = "up" /\ served[v] = None
        /\ UNCHANGED <<dir, under, stack, notes, cached, served, want, gone, upc>>
    BY Zenon DEF StartPublish, Goto, target, podState
  <1>2. ~gone[v] /\ upc[v] = "idle"
    BY Zenon, <1>1 DEF VolumeInv
  <1>3. ASSUME v \notin overlapped'
        PROVE  AloneInv(v)'
    <2>1. v \notin overlapped /\ Handlers(v) = {}
      BY Zenon, <1>3 DEF StartPublish, Enter, Handlers
    <2>2. AloneInv(v)
      BY Zenon, <2>1 DEF VolumeInv
    <2>3. pc'[c] = "prepare" /\ \A d \in Publishes : d # c => pc'[d] = pc[d]
      BY Zenon, <1>1 DEF TypeOK
    <2>4. Handlers(v)' = {c}
      BY Zenon, <2>1, <2>3 DEF Handlers, Running
    <2>5. HandlerInv(c)'
      BY Zenon, <2>3 DEF HandlerInv
    <2>6. Unnoted(v)' <=> Unnoted(v)
      BY Zenon, <1>1 DEF Unnoted
    <2>7. QED
      BY Zenon, <1>1, <1>2, <2>2, <2>4, <2>5, <2>6 DEF AloneInv
  <1>4. QED
    BY Zenon, <1>1, <1>2, <1>3 DEF VolumeInv, Empty

\* What a step that goes on must show.
LEMMA GoOnInv ==
  ASSUME TypeOK, NEW c \in Publishes, VolumeInv(VolumeOf[c]), VolumeOf[c] \notin overlapped,
         pc[c] \in Running, pc'[c] \in Running,
         \A d \in Publishes : d # c => pc'[d] = pc[d],
         UNCHANGED <<podState, kubelet, upc>>,
         stack'[VolumeOf[c]] = <<>> => stack[VolumeOf[c]] = <<>>,
         HandlerInv(c)'
  PROVE  AloneInv(VolumeOf[c])'
  <1> DEFINE v == VolumeOf[c]
  <1>1. /\ Handlers(v) = {c} /\ AloneInv(v)
        /\ upc[v] = "idle" /\ ~gone[v] /\ served[v] = None
    BY Zenon, RunsAlone DEF VolumeInv
  <1>2. Handlers(v)' = {c}
    BY Zenon, <1>1 DEF Handlers
  <1>3. UNCHANGED <<notes, cached, served, want, gone, upc>>
    BY Zenon DEF podState, kubelet
  <1>4. Unnoted(v)' <=> Unnoted(v)
    BY Zenon, <1>3 DEF Unnoted
  <1>5. stack[v] = <<>> => Unnoted(v)
    BY Zenon, <1>1 DEF AloneInv
  <1>6. QED
    BY Zenon, <1>1, <1>2, <1>3, <1>4, <1>5 DEF AloneInv

\* A file more in the tmpfs.
LEMMA WrittenMore ==
  ASSUME NEW c \in Publishes, NEW files \in SUBSET Files, NEW f \in Files
  PROVE  [<<Written(c, files)>> EXCEPT ![1][f] = c] = <<Written(c, files \cup {f})>>
  <1>1. [Written(c, files) EXCEPT ![f] = c] = Written(c, files \cup {f})
    BY Zenon DEF Written
  <1>2. [<<Written(c, files)>> EXCEPT ![1][f] = c] = <<[Written(c, files) EXCEPT ![f] = c]>>
    OBVIOUS
  <1>3. QED
    BY Zenon, <1>1, <1>2

\* What WriteFile does, for the steps that do not need its cases.
LEMMA WriteEffect ==
  ASSUME TypeOK, NEW c \in Publishes, NEW f \in Files, WriteFile(c, f)
  PROVE  LET v == VolumeOf[c] IN
         /\ pc[c] = "write" /\ f \in todo[c] /\ dir[v] /\ todo'[c] = todo[c] \ {f}
         /\ UNCHANGED <<dir, podState, pc, pod, kubelet, upc, overlapped>>
         /\ stack[v] # <<>> => stack'[v] = [stack[v] EXCEPT ![Len(stack[v])][f] = c]
  <1> DEFINE v == VolumeOf[c]
  <1>0. v \in Volumes
    BY Zenon, NodeAssumption
  <1>1. /\ pc[c] = "write" /\ f \in todo[c] /\ dir[v] /\ todo' = [todo EXCEPT ![c] = @ \ {f}]
        /\ UNCHANGED <<dir, podState, pc, pod, kubelet, upc, overlapped>>
    BY Zenon DEF WriteFile
  <1>2. stack[v] # <<>> => stack' = [stack EXCEPT ![v][Len(stack[v])][f] = c]
    BY Zenon DEF WriteFile
  <1>3. todo'[c] = todo[c] \ {f}
    BY Zenon, <1>1 DEF TypeOK
  <1>4. stack[v] # <<>> => stack'[v] = [stack[v] EXCEPT ![Len(stack[v])][f] = c]
    BY SMTT(30), <1>0, <1>2 DEF TypeOK
  <1>5. QED
    BY Zenon, <1>1, <1>3, <1>4

\* A publish that goes on keeps what is known of its volume.
LEMMA ProgressInv ==
  ASSUME TypeOK, NEW c \in Publishes, VolumeInv(VolumeOf[c]),
         \/ Prepare(c) \/ CheckPath(c) \/ Mkdir(c) \/ Mount(c)
         \/ \E f \in Files : WriteFile(c, f)
  PROVE  VolumeInv(VolumeOf[c])'
  <1> DEFINE v == VolumeOf[c]
  <1> USE DEF target
  <1>0. v \in Volumes /\ FilesOf[c] \in SUBSET Files /\ todo[c] \in SUBSET Files
    BY Zenon, NodeAssumption DEF TypeOK
  <1>1. /\ pc[c] \in Running /\ pc'[c] \in Running
        /\ \A d \in Publishes : d # c => pc'[d] = pc[d]
        /\ UNCHANGED <<podState, kubelet, upc, overlapped>>
    <2>1. UNCHANGED <<podState, kubelet, upc, overlapped>>
      BY Zenon, WriteEffect DEF Prepare, CheckPath, Mkdir, Mount
    <2>2. pc[c] \in Running /\ \E to \in Running : pc' = [pc EXCEPT ![c] = to]
      <3>1. CASE Prepare(c) \/ CheckPath(c) \/ Mkdir(c) \/ Mount(c)
        BY Zenon, <3>1 DEF Prepare, CheckPath, Mkdir, Mount, Goto, Running
      <3>2. CASE \E f \in Files : WriteFile(c, f)
        <4>1. pc[c] = "write" /\ pc' = pc
          BY Zenon, <3>2, WriteEffect
        <4>2. pc' = [pc EXCEPT ![c] = "write"] /\ "write" \in Running
          BY <4>1 DEF TypeOK, Running
        <4>3. QED
          BY Zenon, <4>1, <4>2 DEF Running
      <3>3. QED
        BY Zenon, <3>1, <3>2
    <2>3. QED
      BY Zenon, <2>1, <2>2 DEF TypeOK
  <1>2. UNCHANGED <<notes, cached, gone, want>>
    BY Zenon, <1>1 DEF podState, kubelet
  <1>u. Unnoted(v)' <=> Unnoted(v)
    BY Zenon, <1>2 DEF Unnoted
  <1>3. ~dir'[v] => stack'[v] = <<>> /\ under'[v] = Empty
    <2>1. CASE Prepare(c) \/ CheckPath(c)
      BY Zenon, <2>1 DEF Prepare, CheckPath, VolumeInv
    <2>2. CASE Mkdir(c)
      BY Zenon, <1>0, <2>2 DEF Mkdir, TypeOK
    <2>3. CASE Mount(c) \/ \E f \in Files : WriteFile(c, f)
      BY Zenon, <2>3, WriteEffect DEF Mount
    <2>4. QED
      BY Zenon, <2>1, <2>2, <2>3
  <1>4. ASSUME v \notin overlapped
        PROVE  AloneInv(v)'
    <2>1. /\ Handlers(v) = {c} /\ HandlerInv(c) /\ AloneInv(v)
          /\ stack[v] = <<>> => Unnoted(v)
      BY Zenon, <1>1, <1>4, RunsAlone DEF VolumeInv, AloneInv
    <2>2. CASE Prepare(c)
      <3>1. /\ pc'[c] = "check" /\ todo'[c] = FilesOf[c] /\ pod'[c] = cached[PodOf[v]]
            /\ UNCHANGED <<dir, under, stack>>
        BY Zenon, <2>2 DEF Prepare, Goto, TypeOK
      <3>2. stack[v] = <<>> => pod'[c][v] = 0
        BY Zenon, <2>1, <3>1 DEF Unnoted
      <3>3. HandlerInv(c)'
        BY Zenon, <3>1, <3>2 DEF HandlerInv
      <3>4. QED
        BY Zenon, <1>1, <1>4, <3>1, <3>3, GoOnInv
    <2>3. CASE CheckPath(c)
      <3>1. /\ pc[c] = "check" /\ pc'[c] = "mkdir" /\ ~dir[v]
            /\ UNCHANGED <<dir, under, stack, todo, pod>>
        BY Zenon, <2>3 DEF CheckPath, Goto, TypeOK
      <3>2. HandlerInv(c)'
        BY Zenon, <2>1, <3>1 DEF HandlerInv
      <3>3. QED
        BY Zenon, <1>1, <1>4, <3>1, <3>2, GoOnInv
    <2>4. CASE Mkdir(c)
      <3>1. /\ pc[c] = "mkdir" /\ pc'[c] = "mount" /\ UNCHANGED <<under, stack, todo, pod>>
        BY Zenon, <2>4 DEF Mkdir, Goto, TypeOK
      <3>2. stack[v] = <<>>
        BY Zenon, <2>1, <3>1 DEF HandlerInv, VolumeInv
      <3>3. HandlerInv(c)'
        BY Zenon, <2>1, <3>1, <3>2 DEF HandlerInv
      <3>4. QED
        BY Zenon, <1>1, <1>4, <3>1, <3>3, GoOnInv
    <2>5. CASE Mount(c)
      <3>1. /\ pc[c] = "mount" /\ pc'[c] = "write" /\ dir[v] /\ UNCHANGED <<dir, todo, pod>>
            /\ stack'[v] = Append(stack[v], Empty)
        BY Zenon, <1>0, <2>5 DEF Mount, Goto, TypeOK
      <3>2. stack[v] = <<>> /\ todo[c] = FilesOf[c] /\ pod[c][v] = 0 /\ Unnoted(v)
        BY Zenon, <2>1, <3>1 DEF HandlerInv
      <3>3. Empty = Written(c, FilesOf[c] \ todo[c])
        BY Zenon, <3>2 DEF Empty, Written
      <3>4. stack'[v] = <<Written(c, FilesOf[c] \ todo[c])>>
        BY <3>1, <3>2, <3>3
      <3>5. HandlerInv(c)'
        BY Zenon, <1>u, <3>1, <3>2, <3>4 DEF HandlerInv, Written
      <3>6. QED
        BY Zenon, <1>1, <1>4, <3>2, <3>5, GoOnInv
    <2>6. ASSUME NEW f \in Files, WriteFile(c, f)
          PROVE  AloneInv(v)'
      <3>1. /\ pc[c] = "write" /\ pc'[c] = "write" /\ f \in todo[c]
            /\ todo'[c] = todo[c] \ {f} /\ UNCHANGED <<dir, pod>>
        BY Zenon, <2>6, WriteEffect
      <3>2. /\ dir[v] /\ todo[c] \subseteq FilesOf[c] /\ Unnoted(v) /\ pod[c][v] = 0
            /\ stack[v] = <<Written(c, FilesOf[c] \ todo[c])>>
        BY Zenon, <2>1, <3>1 DEF HandlerInv
      <3>3. stack[v] # <<>> /\ Len(stack[v]) = 1
        BY <3>2
      <3>4. stack'[v] = [stack[v] EXCEPT ![1][f] = c]
        BY Zenon, <2>6, <3>3, WriteEffect
      <3>5. (FilesOf[c] \ todo[c]) \cup {f} = FilesOf[c] \ todo'[c]
        BY Zenon, <3>1, <3>2
      <3>6. stack'[v] = <<Written(c, FilesOf[c] \ todo'[c])>>
        <4>1. FilesOf[c] \ todo[c] \in SUBSET Files
          BY Zenon, <1>0
        <4> DEFINE files == FilesOf[c] \ todo[c]
        <4>2. stack[v] = <<Written(c, files)>> /\ files \in SUBSET Files
          BY Zenon, <3>2, <4>1
        <4> HIDE DEF files
        <4>3. [<<Written(c, files)>> EXCEPT ![1][f] = c] = <<Written(c, files \cup {f})>>
          BY <4>2, WrittenMore
        <4>4. stack'[v] = <<Written(c, files \cup {f})>>
          BY Zenon, <3>4, <4>2, <4>3
        <4>5. QED
          BY Zenon, <3>5, <4>4 DEF files
      <3>7. HandlerInv(c)'
        BY SMTT(30), <1>u, <3>1, <3>2, <3>6 DEF HandlerInv
      <3>8. stack'[v] # <<>>
        BY <3>6
      <3>9. QED
        BY Zenon, <1>1, <1>4, <3>7, <3>8, GoOnInv
    <2>7. QED
      BY Zenon, <2>2, <2>3, <2>4, <2>5, <2>6
  <1>5. QED
    BY Zenon, <1>1, <1>2, <1>3, <1>4 DEF VolumeInv, Empty

\* A publish that ends leaves a complete tmpfs when it answers OK, and its mount
\* whenever it may have patched the pod.
LEMMA EndInv ==
  ASSUME TypeOK, NEW c \in Publishes, VolumeInv(VolumeOf[c]),
         UpdatePod(c) \/ UpdatePodLost(c) \/ PublishFails(c)
  PROVE  VolumeInv(VolumeOf[c])'
  <1> DEFINE v == VolumeOf[c]
  <1>0. v \in Volumes
    BY Zenon, NodeAssumption
  <1>1. PICK how \in {"ok", "failed"} : Answer(c, how) /\ (how = "ok" => UpdatePod(c))
    BY Zenon DEF UpdatePod, UpdatePodLost, PublishFails
  <1>2. /\ pc[c] \in Running /\ pc' = [pc EXCEPT ![c] = how]
        /\ UNCHANGED <<dir, under, stack, cached, want, gone, upc, overlapped>>
    BY Zenon, <1>1 DEF UpdatePod, UpdatePodLost, PublishFails, Answer, target, podState, Running
  <1>3. served'[v] = IF how = "ok" /\ waiting[v] = c THEN c ELSE served[v]
    BY Zenon, <1>0, <1>1 DEF Answer, TypeOK
  <1>4. ASSUME v \notin overlapped
        PROVE  AloneInv(v)'
    <2>1. /\ Handlers(v) = {c} /\ HandlerInv(c) /\ AloneInv(v)
          /\ upc[v] = "idle" /\ ~gone[v] /\ served[v] = None
      BY Zenon, <1>2, <1>4, RunsAlone DEF VolumeInv
    <2>2. Handlers(v)' = {}
      <3>1. pc'[c] \notin Running /\ \A d \in Publishes : d # c => pc'[d] = pc[d]
        BY <1>2 DEF TypeOK, Running
      <3>2. QED
        BY Zenon, <2>1, <3>1 DEF Handlers
    <2>3. CASE PublishFails(c)
      <3>1. notes' = notes /\ served'[v] = None
        <4>1. notes' = notes /\ pc' = [pc EXCEPT ![c] = "failed"]
          BY Zenon, <2>3 DEF PublishFails, podState, Answer
        <4>2. how = "failed"
          BY <1>2, <4>1 DEF TypeOK
        <4>3. QED
          BY Zenon, <1>3, <2>1, <4>1, <4>2
      <3>2. want[v] = "up" /\ stack[v] = <<>> => Unnoted(v)
        BY Zenon, <2>1 DEF AloneInv
      <3>3. Unnoted(v)' <=> Unnoted(v)
        BY Zenon, <1>2, <3>1 DEF Unnoted
      <3>4. QED
        BY Zenon, <1>2, <2>1, <2>2, <3>1, <3>2, <3>3 DEF AloneInv
    <2>4. CASE UpdatePod(c) \/ UpdatePodLost(c)
      <3>1. pc[c] = "write" /\ todo[c] = {}
        BY Zenon, <2>4 DEF UpdatePod, UpdatePodLost
      <3>2. dir[v] /\ pod[c][v] = 0 /\ stack[v] = <<Written(c, FilesOf[c] \ todo[c])>>
        BY Zenon, <2>1, <3>1 DEF HandlerInv
      <3>3. stack[v] = <<Written(c, FilesOf[c])>>
        <4>1. FilesOf[c] \ todo[c] = FilesOf[c]
          BY Zenon, <3>1
        <4>2. QED
          BY Zenon, <3>2, <4>1
      <3>4. stack[v] # <<>>
        BY <3>3
      <3>5. served'[v] # None => served'[v] = c /\ how = "ok"
        BY Zenon, <1>3, <2>1
      <3>6. how = "ok" /\ ExpiryOf[c] # 0 => notes'[PodOf[v]][v] = ExpiryOf[c]
        BY Zenon, <1>1, <3>2, PatchEffect DEF UpdatePod
      <3>7. QED
        BY Zenon, <1>2, <2>1, <2>2, <3>2, <3>3, <3>4, <3>5, <3>6 DEF AloneInv, Written
    <2>5. QED
      BY Zenon, <2>3, <2>4
  <1>5. QED
    BY Zenon, <1>2, <1>4 DEF VolumeInv, Empty

\* An unpublish finds no handler beside it, or the volume is overlapped.
LEMMA UnpublishInv ==
  ASSUME TypeOK, NEW v \in Volumes, VolumeInv(v),
         StartUnpublish(v) \/ UnpublishStep(v)
  PROVE  VolumeInv(v)'
  <1> USE DEF target, podState, handler, kubelet
  <1>1. want[v] = "down" /\ UNCHANGED <<notes, cached, pc, todo, pod, waiting, want>>
    BY Zenon DEF StartUnpublish, UnpublishStep, Unmount, UnmountFails, RemoveAll, RemoveAllFails, VolumeInv
  <1>2. ~dir'[v] => stack'[v] = <<>> /\ under'[v] = Empty
    <2>1. CASE StartUnpublish(v) \/ UnmountFails(v)
      BY Zenon, <2>1 DEF StartUnpublish, UnmountFails, VolumeInv
    <2>2. CASE Unmount(v)
      BY Zenon, <2>2 DEF Unmount, VolumeInv
    <2>3. CASE RemoveAll(v)
      BY Zenon, <2>3 DEF RemoveAll, TypeOK
    <2>4. CASE RemoveAllFails(v)
      BY Zenon, <2>4 DEF RemoveAllFails, VolumeInv
    <2>5. QED
      BY Zenon, <2>1, <2>2, <2>3, <2>4 DEF UnpublishStep
  <1>3. ASSUME v \notin overlapped'
        PROVE  AloneInv(v)'
    <2>1. v \notin overlapped /\ Handlers(v) = {}
      <3>1. CASE StartUnpublish(v)
        BY Zenon, <1>3, <3>1 DEF StartUnpublish, Enter, Handlers
      <3>2. CASE UnpublishStep(v)
        <4>1. v \notin overlapped /\ upc[v] # "idle"
          BY Zenon, <1>3, <3>2 DEF UnpublishStep, Unmount, UnmountFails, RemoveAll, RemoveAllFails
        <4>2. QED
          BY Zenon, <4>1 DEF VolumeInv, AloneInv
      <3>3. QED
        BY Zenon, <3>1, <3>2
    <2>2. Handlers(v)' = {}
      BY Zenon, <1>1, <2>1 DEF Handlers
    <2>3. gone'[v] => ~dir'[v]
      <3>1. CASE RemoveAll(v)
        BY Zenon, <3>1 DEF RemoveAll, TypeOK
      <3>2. CASE StartUnpublish(v) \/ Unmount(v) \/ UnmountFails(v) \/ RemoveAllFails(v)
        BY Zenon, <2>1, <3>2 DEF StartUnpublish, Unmount, UnmountFails, RemoveAllFails, VolumeInv, AloneInv
      <3>3. QED
        BY Zenon, <3>1, <3>2 DEF UnpublishStep
    <2>4. QED
      BY Zenon, <1>1, <2>2, <2>3 DEF AloneInv
  <1>4. QED
    BY Zenon, <1>1, <1>2, <1>3 DEF VolumeInv, Empty

\* The kubelet's other steps.
LEMMA KubeletInv ==
  ASSUME TypeOK, NEW v \in Volumes, VolumeInv(v),
         TearDown(v) \/ Timeout(v) \/ RemoveMountDir(v)
  PROVE  VolumeInv(v)'
  <1> USE DEF target, podState, handler, kubelet
  <1>1. CASE Timeout(v)
    <2>1. Unmoved(v)
      BY Zenon, <1>1 DEF Timeout, Unmoved
    <2>2. QED
      BY Zenon, <2>1, UnmovedInv
  <1>2. CASE TearDown(v) \/ RemoveMountDir(v)
    <2>1. /\ UNCHANGED <<under, stack, notes, cached, pc, todo, pod, served, gone, upc, overlapped>>
          /\ want'[v] = "up" => want[v] = "up"
          /\ dir'[v] => dir[v]
          /\ dir'[v] # dir[v] => stack[v] = <<>> /\ under[v] = Empty
      BY Zenon, <1>2 DEF TearDown, RemoveMountDir, TypeOK
    <2>2. Handlers(v)' = Handlers(v) /\ (Unnoted(v)' <=> Unnoted(v))
      BY Zenon, <2>1 DEF Handlers, Unnoted
    <2>3. ASSUME NEW c \in Handlers(v), HandlerInv(c)
          PROVE  HandlerInv(c)'
      <3>1. VolumeOf[c] = v
        BY Zenon DEF Handlers
      <3>2. pc[c] = "write" => stack[v] # <<>>
        BY <2>3, <3>1 DEF HandlerInv
      <3>3. QED
        BY Zenon, <2>1, <2>2, <2>3, <3>1, <3>2 DEF HandlerInv, Written
    <2>4. ASSUME AloneInv(v)
          PROVE  AloneInv(v)'
      <3>1. served[v] # None /\ want[v] = "up" => stack[v] # <<>>
        BY <2>4 DEF AloneInv
      <3>2. \A c \in Handlers(v) : HandlerInv(c)'
        BY Zenon, <2>3, <2>4 DEF AloneInv
      <3>3. QED
        BY Zenon, <2>1, <2>2, <2>4, <3>1, <3>2 DEF AloneInv, Written
    <2>5. upc[v] # "idle" \/ gone[v] => want'[v] = "down"
      BY Zenon, <1>2 DEF TearDown, RemoveMountDir, TypeOK, VolumeInv
    <2>6. QED
      BY Zenon, <2>1, <2>4, <2>5 DEF VolumeInv, Empty
  <1>3. QED
    BY Zenon, <1>1, <1>2

\* The informer only ever brings the pod's own annotations.
LEMMA SyncInv ==
  ASSUME TypeOK, NEW p \in Pods, SyncPod(p), NEW w \in Volumes, VolumeInv(w)
  PROVE  VolumeInv(w)'
  <1> USE DEF target, podState, handler, kubelet
  <1>1. UNCHANGED <<target, notes, handler, kubelet, upc, overlapped>>
    BY Zenon DEF SyncPod
  <1>2. Unnoted(w) => Unnoted(w)'
    BY Zenon, NodeAssumption DEF SyncPod, Unnoted, TypeOK
  <1>3. Handlers(w)' = Handlers(w)
    BY Zenon, <1>1 DEF Handlers
  <1>4. ASSUME NEW c \in Handlers(w), HandlerInv(c)
        PROVE  HandlerInv(c)'
    <2>1. VolumeOf[c] = w
      BY Zenon DEF Handlers
    <2>2. QED
      BY Zenon, <1>1, <1>2, <1>4, <2>1 DEF HandlerInv, Written
  <1>5. ASSUME AloneInv(w)
        PROVE  AloneInv(w)'
    <2>1. \A c \in Handlers(w) : HandlerInv(c)'
      BY Zenon, <1>4, <1>5 DEF AloneInv
    <2>2. QED
      BY Zenon, <1>1, <1>2, <1>3, <1>5, <2>1 DEF AloneInv, Written
  <1>6. QED
    BY Zenon, <1>1, <1>5 DEF VolumeInv, Empty

\* A crash ends every handler and leaves the mounts.
LEMMA CrashInv ==
  ASSUME TypeOK, Crash, NEW w \in Volumes, VolumeInv(w)
  PROVE  VolumeInv(w)'
  <1>1. /\ UNCHANGED <<dir, under, stack, notes, cached, served, want, gone, overlapped>>
        /\ upc'[w] = "idle"
    BY Zenon DEF Crash, target, podState
  <1>2. Handlers(w)' = {}
    BY Zenon DEF Crash, Handlers, Running
  <1>3. Unnoted(w)' <=> Unnoted(w)
    BY Zenon, <1>1 DEF Unnoted
  <1>4. ASSUME AloneInv(w)
        PROVE  AloneInv(w)'
    BY Zenon, <1>1, <1>2, <1>3, <1>4 DEF AloneInv, Written
  <1>5. QED
    BY Zenon, <1>1, <1>4 DEF VolumeInv, Empty
-----------------------------------------------------------------------------
(***************************************************************************)
(* The inductive invariant.                                                *)
(***************************************************************************)

\* The initial states satisfy the invariant.
LEMMA InitIInv == Init => IInv
  <1> SUFFICES ASSUME Init PROVE IInv
    OBVIOUS
  <1>2. TypeOK
    BY Zenon, InitType
  <1>3. ASSUME NEW v \in Volumes
        PROVE  VolumeInv(v)
    <2>1. Handlers(v) = {}
      BY Zenon DEF Init, Handlers, Running
    <2>2. Unnoted(v)
      BY Zenon, NodeAssumption DEF Init, Unnoted, NoNotes
    <2>3. AloneInv(v)
      BY Zenon, <2>1, <2>2 DEF Init, AloneInv
    <2>4. QED
      BY Zenon, <2>3 DEF Init, VolumeInv
  <1>4. QED
    BY Zenon, <1>2, <1>3 DEF IInv

\* Every step preserves the invariant.
LEMMA NextIInv == IInv /\ [Next]_vars => IInv'
  <1> SUFFICES ASSUME IInv, [Next]_vars PROVE IInv'
    OBVIOUS
  <1>0. TypeOK /\ TypeOK' /\ \A w \in Volumes : VolumeInv(w)
    BY Zenon, NextType DEF IInv
  <1>1. ASSUME NEW c \in Publishes, StartPublish(c) \/ PublishStep(c)
        PROVE  IInv'
    <2>1. VolumeOf[c] \in Volumes
      BY Zenon, NodeAssumption
    <2>2. VolumeInv(VolumeOf[c])'
      <3>1. VolumeInv(VolumeOf[c])
        BY Zenon, <1>0, <2>1
      <3>2. QED
        BY Zenon, <1>0, <1>1, <3>1, StartInv, ProgressInv, EndInv DEF PublishStep
    <2>3. ASSUME NEW w \in Volumes, w # VolumeOf[c]
          PROVE  VolumeInv(w)'
      BY Zenon, <1>0, <1>1, <2>3, PublishFrame, UnmovedInv
    <2>4. QED
      BY Zenon, <1>0, <2>2, <2>3 DEF IInv
  <1>2. ASSUME NEW v \in Volumes,
               \/ StartUnpublish(v) \/ UnpublishStep(v)
               \/ TearDown(v) \/ Timeout(v) \/ RemoveMountDir(v)
        PROVE  IInv'
    <2>1. VolumeInv(v)'
      BY Zenon, <1>0, <1>2, UnpublishInv, KubeletInv
    <2>2. ASSUME NEW w \in Volumes, w # v
          PROVE  VolumeInv(w)'
      BY Zenon, <1>0, <1>2, <2>2, VolumeFrame, UnmovedInv
    <2>3. QED
      BY Zenon, <1>0, <2>1, <2>2 DEF IInv
  <1>3. CASE (\E p \in Pods : SyncPod(p)) \/ Crash
    BY Zenon, <1>0, <1>3, SyncInv, CrashInv DEF IInv
  <1>4. CASE UNCHANGED vars
    <2>1. UNCHANGED <<dir, under, stack, notes, cached, pc, todo, pod, waiting, served, want, gone,
                      upc, overlapped, crashes>>
      BY Zenon, <1>4 DEF vars, target, podState, handler, kubelet
    <2>2. \A w \in Volumes : Unmoved(w)
      BY Zenon, <2>1 DEF Unmoved
    <2>3. QED
      BY Zenon, <1>0, <2>2, UnmovedInv DEF IInv
  <1>5. QED
    BY Zenon, <1>1, <1>2, <1>3, <1>4 DEF Next

\* IInv is an invariant.
THEOREM Inductive == Spec => []IInv
  BY InitIInv, NextIInv, PTL DEF Spec

\* A volume that NodePublishVolume answered OK for, and whose handlers never
\* overlapped, shows exactly the files of the call that answered, and the pod
\* carries that call's restart time.
THEOREM CompleteWhenServed == Spec => []ServedComplete
  <1>1. IInv => ServedComplete
    BY Zenon DEF IInv, VolumeInv, AloneInv, ServedComplete, Written
  <1>2. QED
    BY <1>1, Inductive, PTL

\* After an OK from NodeUnpublishVolume nothing of such a volume is left,
\* although the error of Unmount is only logged.
THEOREM GoneWhenUnpublished == Spec => []UnpublishedMeansGone
  <1>1. IInv => UnpublishedMeansGone
    BY Zenon DEF IInv, VolumeInv, AloneInv, UnpublishedMeansGone
  <1>2. QED
    BY <1>1, Inductive, PTL
=============================================================================
