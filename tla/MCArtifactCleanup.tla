-------------------------- MODULE MCArtifactCleanup --------------------------
(* Instances of ArtifactCleanup for TLC. *)
EXTENDS ArtifactCleanup

CONSTANTS parent, child, alone

\* A parent and the child it starts, which an older release may have run.
Family      == {parent, child}
FamilyTree  == [j \in Family |-> IF j = child THEN parent ELSE NoJob]
FamilyLarge == {child}
FamilyAdds  == [j \in Family |-> IF j = child THEN 2 ELSE 1]

\* One job id, without a parent.
Single      == {alone}
SingleTree  == [j \in Single |-> NoJob]
SingleAdds  == [j \in Single |-> 2]
NoJobs      == {}
=============================================================================
