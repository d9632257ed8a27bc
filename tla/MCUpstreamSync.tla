-------------------------- MODULE MCUpstreamSync --------------------------
(* Instances of UpstreamSync: two commits of the kernel's Documentation/, one
   branch, one tag, a page under vi_VN/ and a machine-translated page.  The branch
   moves from commit 1 to 2 and the tag may name either, so that a sync goes both
   ways: the path the second commit removes, a symbolic link, is also one the first
   adds. *)
EXTENDS UpstreamSync, TLC

CONSTANTS changed, removed, local, vi, copying, licenses, b1, b2, link, none

MCVersions == {1, 2}

(* What the two commits hold, path by path; a path not named is absent. *)
Commit(v) ==
  [d \in Tracked |->
     CASE d = changed -> IF v = 1 THEN b1 ELSE b2
       [] d = removed -> IF v = 1 THEN link ELSE none
       [] d \in {copying, licenses} -> b1
       [] OTHER -> none]

MCContent == [v \in MCVersions |-> Commit(v)]
=============================================================================
