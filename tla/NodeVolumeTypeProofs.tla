------------------------ MODULE NodeVolumeTypeProofs ------------------------
(***************************************************************************)
(* Type correctness of NodeVolume, for every set of pods, volumes and       *)
(* calls, and any number of crashes.                                        *)
(***************************************************************************)
EXTENDS NodeVolume, TLAPS

\* Constants have their types, and a patch makes notes of notes.
LEMMA NoteTypes ==
  ASSUME TypeOK, NEW c \in Publishes
  PROVE  /\ VolumeOf[c] \in Volumes /\ PodOf[VolumeOf[c]] \in Pods
         /\ FilesOf[c] \in SUBSET Files /\ ExpiryOf[c] \in Nat
         /\ NoNotes \in Notes /\ Empty \in Contents
         /\ Patch(c) => notes' \in [Pods -> Notes]
  <1>1. /\ VolumeOf[c] \in Volumes /\ PodOf[VolumeOf[c]] \in Pods
        /\ FilesOf[c] \in SUBSET Files /\ ExpiryOf[c] \in Nat
    BY Zenon, NodeAssumption
  <1>2. NoNotes \in Notes /\ Empty \in Contents
    BY Zenon DEF NoNotes, Notes, Empty, Contents
  <1>3. ASSUME Patch(c)
        PROVE  notes' \in [Pods -> Notes]
    <2> DEFINE new == [pod[c] EXCEPT ![VolumeOf[c]] = ExpiryOf[c]]
               noted == [v \in Volumes |-> IF new[v] # pod[c][v] THEN new[v]
                                           ELSE notes[PodOf[VolumeOf[c]]][v]]
    <2>1. pod[c] \in Notes /\ notes[PodOf[VolumeOf[c]]] \in Notes
      BY Zenon, <1>1 DEF TypeOK
    <2>2. new \in Notes
      BY Zenon, <1>1, <2>1 DEF Notes
    <2>3. notes' = [notes EXCEPT ![PodOf[VolumeOf[c]]] = noted]
      BY Zenon, <1>3 DEF Patch
    <2> HIDE DEF new
    <2>4. noted \in Notes
      BY Zenon, <2>1, <2>2 DEF Notes
    <2> HIDE DEF noted
    <2>5. QED
      BY Zenon, <1>1, <2>3, <2>4 DEF TypeOK
  <1>4. QED
    BY Zenon, <1>1, <1>2, <1>3

\* The part of TypeOK about what the kubelet waits for.
WaitInv ==
  \A v \in Volumes : waiting[v] # None =>
    VolumeOf[waiting[v]] = v /\ pc[waiting[v]] \in Running

\* A handler that returns stops being waited for.
LEMMA AnswerType ==
  ASSUME TypeOK, NEW c \in Publishes, NEW how \in {"ok", "failed"}, Answer(c, how),
         dir' \in [Volumes -> BOOLEAN], under' \in [Volumes -> Contents],
         stack' \in [Volumes -> Seq(Contents)], notes' \in [Pods -> Notes],
         cached' \in [Pods -> Notes]
  PROVE  TypeOK'
  <1>1. VolumeOf[c] \in Volumes /\ NoNotes \in Notes
    BY Zenon, NoteTypes
  <1>2. pc' \in [Publishes -> {"idle", "ok", "failed"} \cup Running]
    BY Zenon DEF TypeOK, Answer
  <1>3. todo' \in [Publishes -> SUBSET Files] /\ pod' \in [Publishes -> Notes]
    BY Zenon, <1>1 DEF TypeOK, Answer
  <1>4. waiting' \in [Volumes -> Publishes \cup {None}]
    BY Zenon, <1>1 DEF TypeOK, Answer
  <1>5. served' \in [Volumes -> Publishes \cup {None}]
    BY Zenon, <1>1 DEF TypeOK, Answer
  <1>6. WaitInv'
    <2> SUFFICES ASSUME NEW v \in Volumes, waiting'[v] # None
                 PROVE  VolumeOf[waiting'[v]] = v /\ pc'[waiting'[v]] \in Running
      BY Zenon DEF WaitInv
    <2>1. waiting'[v] = waiting[v] /\ waiting[v] # None /\ waiting[v] \in Publishes
      BY <1>1 DEF TypeOK, Answer
    <2>2. VolumeOf[waiting[v]] = v /\ pc[waiting[v]] \in Running
      BY Zenon, <2>1 DEF TypeOK
    <2>3. waiting[v] # c
      BY Zenon, <1>1, <2>1, <2>2 DEF TypeOK, Answer
    <2>4. pc'[waiting[v]] = pc[waiting[v]]
      BY Zenon, <2>1, <2>3 DEF TypeOK, Answer
    <2>5. QED
      BY Zenon, <2>1, <2>2, <2>4
  <1>7. UNCHANGED <<want, gone, upc, overlapped, crashes>>
    BY Zenon DEF Answer
  <1>8. QED
    BY Zenon, <1>2, <1>3, <1>4, <1>5, <1>6, <1>7 DEF TypeOK, WaitInv

\* Moving on to another step keeps the handler running.
LEMMA GotoType ==
  ASSUME TypeOK, NEW c \in Publishes, NEW from, NEW to \in Running, Goto(c, from, to),
         UNCHANGED waiting
  PROVE  pc' \in [Publishes -> {"idle", "ok", "failed"} \cup Running] /\ WaitInv'
  <1>1. pc' \in [Publishes -> {"idle", "ok", "failed"} \cup Running]
    BY Zenon DEF TypeOK, Goto
  <1>2. \A d \in Publishes : pc[d] \in Running => pc'[d] \in Running
    BY Zenon DEF TypeOK, Goto
  <1>3. \A v \in Volumes : waiting[v] # None =>
          waiting[v] \in Publishes /\ VolumeOf[waiting[v]] = v /\ pc[waiting[v]] \in Running
    BY Zenon DEF TypeOK
  <1>4. WaitInv'
    BY Zenon, <1>2, <1>3 DEF WaitInv
  <1>5. QED
    BY Zenon, <1>1, <1>4

\* The steps of a publish keep the types.
LEMMA PublishType ==
  ASSUME TypeOK, NEW c \in Publishes, StartPublish(c) \/ PublishStep(c)
  PROVE  TypeOK'
  <1> USE DEF target, podState, handler, kubelet
  <1>0. /\ VolumeOf[c] \in Volumes /\ PodOf[VolumeOf[c]] \in Pods
        /\ FilesOf[c] \in SUBSET Files /\ Empty \in Contents
    BY Zenon, NoteTypes
  <1>r. \A to \in {"prepare", "check", "mkdir", "mount", "write"} : to \in Running
    BY Zenon DEF Running
  <1>1. CASE StartPublish(c)
    <2> DEFINE v == VolumeOf[c]
    <2>1. pc' = [pc EXCEPT ![c] = "prepare"] /\ waiting' = [waiting EXCEPT ![v] = c]
      BY Zenon, <1>1 DEF StartPublish, Goto
    <2>2. /\ pc' \in [Publishes -> {"idle", "ok", "failed"} \cup Running]
          /\ waiting' \in [Volumes -> Publishes \cup {None}]
      BY Zenon, <1>0, <1>r, <2>1 DEF TypeOK
    <2>3. WaitInv'
      <3> SUFFICES ASSUME NEW w \in Volumes, waiting'[w] # None
                   PROVE  VolumeOf[waiting'[w]] = w /\ pc'[waiting'[w]] \in Running
        BY Zenon DEF WaitInv
      <3>1. CASE w = v
        BY Zenon, <1>0, <1>r, <2>1, <3>1 DEF TypeOK
      <3>2. CASE w # v
        <4>1. waiting'[w] = waiting[w] /\ waiting[w] \in Publishes
          BY Zenon, <2>1, <3>2, <1>0 DEF TypeOK
        <4>2. VolumeOf[waiting[w]] = w /\ pc[waiting[w]] \in Running
          BY Zenon, <4>1 DEF TypeOK
        <4>3. QED
          BY Zenon, <1>r, <2>1, <4>1, <4>2 DEF TypeOK
      <3>3. QED
        BY Zenon, <3>1, <3>2
    <2>4. overlapped' \subseteq Volumes
      BY Zenon, <1>0, <1>1 DEF StartPublish, Enter, TypeOK
    <2>5. UNCHANGED <<target, podState, todo, pod, served, want, gone, upc, crashes>>
      BY Zenon, <1>1 DEF StartPublish
    <2>6. QED
      BY Zenon, <2>2, <2>3, <2>4, <2>5 DEF TypeOK, WaitInv
  <1>2. CASE Prepare(c)
    <2>1. pc' \in [Publishes -> {"idle", "ok", "failed"} \cup Running] /\ WaitInv'
      BY Zenon, <1>2, <1>r, GotoType DEF Prepare
    <2>2. todo' \in [Publishes -> SUBSET Files] /\ pod' \in [Publishes -> Notes]
      BY Zenon, <1>0, <1>2 DEF Prepare, TypeOK
    <2>3. QED
      BY Zenon, <1>2, <2>1, <2>2 DEF Prepare, TypeOK, WaitInv
  <1>3. CASE CheckPath(c)
    <2>1. pc' \in [Publishes -> {"idle", "ok", "failed"} \cup Running] /\ WaitInv'
      BY Zenon, <1>3, <1>r, GotoType DEF CheckPath
    <2>2. QED
      BY Zenon, <1>3, <2>1 DEF CheckPath, TypeOK, WaitInv
  <1>4. CASE Mkdir(c)
    <2>1. pc' \in [Publishes -> {"idle", "ok", "failed"} \cup Running] /\ WaitInv'
      BY Zenon, <1>4, <1>r, GotoType DEF Mkdir
    <2>2. QED
      BY Zenon, <1>4, <2>1 DEF Mkdir, TypeOK, WaitInv
  <1>5. CASE Mount(c)
    <2>1. pc' \in [Publishes -> {"idle", "ok", "failed"} \cup Running] /\ WaitInv'
      BY Zenon, <1>5, <1>r, GotoType DEF Mount
    <2>2. stack' \in [Volumes -> Seq(Contents)]
      BY <1>0, <1>5 DEF Mount, TypeOK
    <2>3. QED
      BY Zenon, <1>5, <2>1, <2>2 DEF Mount, TypeOK, WaitInv
  <1>6. ASSUME NEW f \in Files, WriteFile(c, f)
        PROVE  TypeOK'
    <2> DEFINE v == VolumeOf[c]
    <2>1. todo' \in [Publishes -> SUBSET Files]
      <3>1. todo' = [todo EXCEPT ![c] = @ \ {f}]
        BY Zenon, <1>6 DEF WriteFile
      <3>2. QED
        BY Zenon, <3>1 DEF TypeOK
    <2>2. under' \in [Volumes -> Contents]
      <3>1. CASE under' = [under EXCEPT ![v][f] = c]
        <4>1. [under[v] EXCEPT ![f] = c] \in Contents
          BY Zenon, <1>0 DEF TypeOK, Contents
        <4>2. QED
          BY Zenon, <1>0, <3>1, <4>1 DEF TypeOK
      <3>2. under' = under \/ under' = [under EXCEPT ![v][f] = c]
        BY Zenon, <1>6 DEF WriteFile
      <3>3. QED
        BY Zenon, <3>1, <3>2 DEF TypeOK
    <2>3. stack' \in [Volumes -> Seq(Contents)]
      <3>1. CASE stack[v] # <<>> /\ stack' = [stack EXCEPT ![v][Len(stack[v])][f] = c]
        <4>1. stack[v] \in Seq(Contents) /\ Len(stack[v]) \in 1 .. Len(stack[v])
          BY <1>0, <3>1 DEF TypeOK
        <4>2. [stack[v][Len(stack[v])] EXCEPT ![f] = c] \in Contents
          BY <4>1 DEF Contents
        <4>3. [stack[v] EXCEPT ![Len(stack[v])][f] = c] \in Seq(Contents)
          BY <4>1, <4>2
        <4>4. QED
          BY Zenon, <1>0, <3>1, <4>3 DEF TypeOK
      <3>2. stack' = stack \/ (stack[v] # <<>> /\ stack' = [stack EXCEPT ![v][Len(stack[v])][f] = c])
        BY Zenon, <1>6 DEF WriteFile
      <3>3. QED
        BY Zenon, <3>1, <3>2 DEF TypeOK
    <2>4. UNCHANGED <<dir, podState, pc, pod, kubelet, upc, overlapped, crashes>>
      BY Zenon, <1>6 DEF WriteFile
    <2>5. QED
      BY Zenon, <2>1, <2>2, <2>3, <2>4 DEF TypeOK
  <1>7. CASE UpdatePod(c) \/ UpdatePodLost(c) \/ PublishFails(c)
    <2>1. \E how \in {"ok", "failed"} : Answer(c, how)
      BY Zenon, <1>7 DEF UpdatePod, UpdatePodLost, PublishFails
    <2>2. notes' \in [Pods -> Notes] /\ UNCHANGED <<dir, under, stack, cached>>
      BY Zenon, <1>7, NoteTypes DEF UpdatePod, UpdatePodLost, PublishFails, TypeOK
    <2>3. QED
      <3>1. TypeOK /\ dir' \in [Volumes -> BOOLEAN] /\ under' \in [Volumes -> Contents]
            /\ stack' \in [Volumes -> Seq(Contents)] /\ cached' \in [Pods -> Notes]
        BY Zenon, <2>2 DEF TypeOK
      <3>2. QED
        BY Zenon, <2>1, <2>2, <3>1, AnswerType
  <1>8. QED
    BY Zenon, <1>1, <1>2, <1>3, <1>4, <1>5, <1>6, <1>7 DEF PublishStep

\* So do the steps of an unpublish, of the kubelet, the informer and a crash.
LEMMA OtherType ==
  ASSUME TypeOK,
         \/ \E v \in Volumes : \/ StartUnpublish(v) \/ UnpublishStep(v)
                               \/ TearDown(v) \/ Timeout(v) \/ RemoveMountDir(v)
         \/ \E p \in Pods : SyncPod(p)
         \/ Crash
  PROVE  TypeOK'
  <1> USE DEF target, podState, handler, kubelet
  <1>1. ASSUME NEW v \in Volumes, StartUnpublish(v)
        PROVE  TypeOK'
    <2>1. overlapped' \subseteq Volumes /\ upc' \in [Volumes -> {"idle", "unmount", "remove"}]
      BY Zenon, <1>1 DEF StartUnpublish, Enter, TypeOK
    <2>2. QED
      BY Zenon, <1>1, <2>1 DEF StartUnpublish, TypeOK
  <1>2. ASSUME NEW v \in Volumes, Unmount(v) \/ RemoveAllFails(v)
        PROVE  TypeOK'
    <2>1. stack[v] \in Seq(Contents) /\ Empty \in Contents
      BY Zenon DEF TypeOK, Empty, Contents
    <2>2. stack[v] # <<>> => SubSeq(stack[v], 1, Len(stack[v]) - 1) \in Seq(Contents)
      BY <2>1
    <2>3. stack[v] # <<>> => [stack[v] EXCEPT ![Len(stack[v])] = Empty] \in Seq(Contents)
      BY <2>1
    <2>4. stack' \in [Volumes -> Seq(Contents)]
      <3>1. CASE Unmount(v)
        BY Zenon, <2>2, <3>1 DEF Unmount, TypeOK
      <3>2. CASE RemoveAllFails(v)
        BY <2>3, <3>2 DEF RemoveAllFails, TypeOK
      <3>3. QED
        BY Zenon, <1>2, <3>1, <3>2
    <2>5. upc' \in [Volumes -> {"idle", "unmount", "remove"}]
      <3>1. \E to \in {"idle", "remove"} : upc' = [upc EXCEPT ![v] = to]
        BY Zenon, <1>2 DEF Unmount, RemoveAllFails
      <3>2. QED
        BY Zenon, <3>1 DEF TypeOK
    <2>6. UNCHANGED <<dir, under, podState, handler, kubelet, overlapped, crashes>>
      BY Zenon, <1>2 DEF Unmount, RemoveAllFails
    <2>7. QED
      BY Zenon, <2>4, <2>5, <2>6 DEF TypeOK
  <1>3. ASSUME NEW v \in Volumes, UnmountFails(v)
        PROVE  TypeOK'
    BY Zenon, <1>3 DEF UnmountFails, TypeOK
  <1>4. ASSUME NEW v \in Volumes, RemoveAll(v)
        PROVE  TypeOK'
    <2>1. /\ dir' \in [Volumes -> BOOLEAN] /\ under' \in [Volumes -> Contents]
          /\ gone' \in [Volumes -> BOOLEAN]
      BY Zenon, <1>4 DEF RemoveAll, TypeOK, Empty, Contents
    <2>2. /\ served' \in [Volumes -> Publishes \cup {None}]
          /\ upc' \in [Volumes -> {"idle", "unmount", "remove"}]
      BY Zenon, <1>4 DEF RemoveAll, TypeOK
    <2>3. UNCHANGED <<stack, podState, handler, waiting, want, overlapped, crashes>>
      BY Zenon, <1>4 DEF RemoveAll
    <2>4. QED
      BY Zenon, <2>1, <2>2, <2>3 DEF TypeOK
  <1>5. ASSUME NEW v \in Volumes, TearDown(v)
        PROVE  TypeOK'
    BY Zenon, <1>5 DEF TearDown, TypeOK
  <1>6. ASSUME NEW v \in Volumes, Timeout(v)
        PROVE  TypeOK'
    <2>1. waiting' \in [Volumes -> Publishes \cup {None}] /\ WaitInv'
      BY <1>6 DEF Timeout, TypeOK, WaitInv
    <2>2. QED
      BY Zenon, <1>6, <2>1 DEF Timeout, TypeOK, WaitInv
  <1>7. ASSUME NEW v \in Volumes, RemoveMountDir(v)
        PROVE  TypeOK'
    BY Zenon, <1>7 DEF RemoveMountDir, TypeOK
  <1>8. ASSUME NEW p \in Pods, SyncPod(p)
        PROVE  TypeOK'
    <2>1. cached' \in [Pods -> Notes]
      BY Zenon, <1>8 DEF SyncPod, TypeOK
    <2>2. QED
      BY Zenon, <1>8, <2>1 DEF SyncPod, TypeOK
  <1>9. CASE Crash
    <2>1. pc' \in [Publishes -> {"idle", "ok", "failed"} \cup Running]
      BY Zenon, <1>9 DEF Crash, TypeOK
    <2>2. /\ todo' \in [Publishes -> SUBSET Files] /\ pod' \in [Publishes -> Notes]
          /\ waiting' \in [Volumes -> Publishes \cup {None}]
      BY Zenon, <1>9 DEF Crash, TypeOK, NoNotes, Notes
    <2>3. upc' \in [Volumes -> {"idle", "unmount", "remove"}] /\ crashes' \in 0 .. MaxCrashes
      BY <1>9, NodeAssumption DEF Crash, TypeOK
    <2>4. WaitInv'
      BY Zenon, <1>9 DEF Crash, WaitInv
    <2>5. UNCHANGED <<target, podState, served, want, gone, overlapped>>
      BY Zenon, <1>9 DEF Crash
    <2>6. QED
      BY Zenon, <2>1, <2>2, <2>3, <2>4, <2>5 DEF TypeOK, WaitInv
  <1>10. QED
    BY Zenon, <1>1, <1>2, <1>3, <1>4, <1>5, <1>6, <1>7, <1>8, <1>9 DEF UnpublishStep

\* The variables have their types in the initial states.
LEMMA InitType == Init => TypeOK
  <1>1. NoNotes \in Notes /\ Empty \in Contents /\ <<>> \in Seq(Contents)
    BY DEF NoNotes, Notes, Empty, Contents
  <1>2. QED
    BY <1>1, NodeAssumption DEF Init, TypeOK

\* Every step keeps the types.
LEMMA NextType == TypeOK /\ [Next]_vars => TypeOK'
  <1> SUFFICES ASSUME TypeOK, [Next]_vars PROVE TypeOK'
    OBVIOUS
  <1>1. CASE UNCHANGED vars
    <2>1. UNCHANGED <<dir, under, stack, notes, cached, pc, todo, pod, waiting, served, want, gone,
                      upc, overlapped, crashes>>
      BY Zenon, <1>1 DEF vars, target, podState, handler, kubelet
    <2>2. QED
      BY Zenon, <2>1 DEF TypeOK
  <1>2. QED
    BY Zenon, <1>1, PublishType, OtherType DEF Next

\* The variables always have their types, and the kubelet only waits for
\* handlers that run.
THEOREM TypeCorrect == Spec => []TypeOK
  BY InitType, NextType, PTL DEF Spec
=============================================================================
