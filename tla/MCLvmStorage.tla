---------------------------- MODULE MCLvmStorage ----------------------------
(* Instances of LvmStorage for TLC. *)
EXTENDS LvmStorage, TLC

CONSTANTS d1, d2, d3

\* A new disk, a disk with data, a disk of another volume group.
ThreeDisks == {(d1 :> "blank") @@ (d2 :> x) @@ (d3 :> "pv") :
                   x \in {"table", "fs"}}

\* The option names one disk, another one or all of them.
AllChoices == [listed : {<<d1>>, <<d1, d2, d3>>, <<d3, d2>>},
            overwrite : BOOLEAN, remove : {"no", "unused"}]
=============================================================================
