------------------------------ MODULE Mirror ------------------------------
(***************************************************************************)
(* What init-upstream.sh and sync-upstream.sh promise, whatever the order  *)
(* of their commands: the tree is replaced path by path by one commit of   *)
(* the kernel, UPSTREAM names a commit only from the moment the tree is    *)
(* all of it, and a run cut short leaves the mirror torn until another one *)
(* completes.                                                              *)
(***************************************************************************)
CONSTANTS
  Paths,       \* the paths of the working tree
  ViPages,     \* those a sync leaves alone
  LocalPages,  \* those no commit has, which a sync deletes
  Removable,   \* those a sync removes before it writes them anew
  Versions,    \* commits
  NoSha,       \* no commit
  Blobs,       \* file contents
  Absent,      \* what an absent path holds
  Content      \* Content[v][d]: what commit v holds at path d

VARIABLES
  tree,      \* the working tree
  upstream,  \* the commit UPSTREAM names
  applying,  \* the commit that a run applies
  torn       \* a run was cut short while it applied, and none completed since

mirror == <<tree, upstream, applying, torn>>

(* The tree is commit v, outside the pages a sync leaves alone. *)
Mirrors(v) == \A d \in Paths \ ViPages : tree[d] = Content[v][d]

Init ==
  /\ tree = [d \in Paths |-> Absent]
  /\ upstream = NoSha
  /\ applying = NoSha
  /\ torn = FALSE

Begin(v) ==
  /\ applying = NoSha
  /\ applying' = v
  /\ UNCHANGED <<tree, upstream, torn>>

Replace(d) ==
  /\ applying # NoSha
  /\ \E b \in {Content[applying][d]} \cup IF d \in Removable THEN {Absent} ELSE {} :
       tree' = [tree EXCEPT ![d] = b]
  /\ UNCHANGED <<upstream, applying, torn>>

(* UPSTREAM is emptied before it is written. *)
Forget ==
  /\ applying # NoSha
  /\ Mirrors(applying)
  /\ upstream' = NoSha
  /\ UNCHANGED <<tree, applying, torn>>

Complete ==
  /\ applying # NoSha
  /\ upstream = NoSha
  /\ Mirrors(applying)
  /\ upstream' = applying
  /\ applying' = NoSha
  /\ torn' = FALSE
  /\ UNCHANGED tree

(* The run fails or is killed. *)
Abandon ==
  /\ applying # NoSha
  /\ applying' = NoSha
  /\ torn' = TRUE
  /\ UNCHANGED <<tree, upstream>>

(* The repository's own pages are edited, those a sync would delete only while
   none is under way. *)
Edit(d) ==
  /\ d \in LocalPages => applying = NoSha
  /\ \E b \in Blobs : tree' = [tree EXCEPT ![d] = b]
  /\ UNCHANGED <<upstream, applying, torn>>

Next ==
  \/ \E v \in Versions : Begin(v)
  \/ \E d \in Paths \ ViPages : Replace(d)
  \/ Forget
  \/ Complete
  \/ Abandon
  \/ \E d \in ViPages \cup LocalPages : Edit(d)

Spec == Init /\ [][Next]_mirror
=============================================================================
