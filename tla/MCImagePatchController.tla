------------------------ MODULE MCImagePatchController ------------------------
(* Small instances of ImagePatchController.                                *)
EXTENDS ReconcileProperties, TLC

(* CRs are namespace/name pairs; those of namespaces a and b may share a   *)
(* name.                                                                   *)
MCNameOf  == [k \in CRs |-> k[2]]
NamesUsed == {k[2] : k \in CRs}
OneCR     == {<<"a", "web">>}
SameName  == {<<"a", "web">>, <<"b", "web">>}

(* plain and copy have the same content and different targets; other has   *)
(* plain's target, other content and credentials of its own; arm64 has no  *)
(* linux/amd64 variant.                                                    *)
Content == [plain |-> "img", copy |-> "img", other |-> "img2", arm64 |-> "img3"]
Tag     == [plain |-> "web:1", copy |-> "db:1", other |-> "web:1", arm64 |-> "arm:1"]
Hash    == [plain |-> "dedup-1", copy |-> "dedup-1", other |-> "dedup-2",
            arm64 |-> "dedup-3"]
MCImage    == [s \in Specs |-> Content[s]]
MCTarget   == [s \in Specs |-> Tag[s]]
MCDedupRef == [s \in Specs |-> Hash[s]]
MCOwnAuth  == Specs \cap {"other"}
MCMismatch == Specs \cap {"arm64"}

AnySpec == [k \in CRs |-> Specs]

Bounds(create, delete, edit, touch, fault, lost, crash) ==
    [create |-> create, delete |-> delete, edit |-> edit, touch |-> touch,
     fault |-> fault, lost |-> lost, crash |-> crash]

(* Bounds of the runs, in the order create, delete, edit, touch, fault,    *)
(* lost, crash.                                                            *)
RecreateBounds == Bounds(2, 2, 0, 0, 1, 0, 1)
EditBounds     == Bounds(1, 1, 1, 0, 0, 1, 1)
ProgressBounds == Bounds(1, 1, 0, 1, 1, 0, 0)
LossBounds     == Bounds(1, 0, 0, 1, 0, 0, 0)
RespecBounds   == Bounds(1, 0, 1, 0, 0, 0, 0)
ClashBounds    == Bounds(2, 0, 0, 0, 1, 0, 0)
=============================================================================
