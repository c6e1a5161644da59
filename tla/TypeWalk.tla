------------------------------- MODULE TypeWalk -------------------------------
(***************************************************************************)
(* What MiniDumper and the readers do with a type, a symbol or an address: *)
(* gathering pointers, showing a variable, a type or memory, reading       *)
(* fields.  One job is done at a time.                                     *)
(***************************************************************************)
EXTENDS VariableDump, FieldAccess, TypeDump, AddressDump

vars == <<scene, job, gatherVars, dumpVars, fieldVars, typeVars, addressVars>>

Init ==
    /\ scene \in Scenes
    /\ job \in scene.jobs
    /\ InitGather /\ InitDump /\ InitFields /\ InitTypes /\ InitAddress

Next ==
    \/ NextGather /\ UNCHANGED <<dumpVars, fieldVars, typeVars, addressVars>>
    \/ DumpVariable /\ UNCHANGED <<gatherVars, fieldVars, typeVars, addressVars>>
    \/ NextFields /\ UNCHANGED <<gatherVars, dumpVars, typeVars, addressVars>>
    \/ ShowType /\ UNCHANGED <<gatherVars, dumpVars, fieldVars, addressVars>>
    \/ NextAddress /\ UNCHANGED <<gatherVars, dumpVars, fieldVars, typeVars>>

Spec == Init /\ [][Next]_vars /\ WF_vars(Next)

(* What is shown of a type or of memory is all there is of it, and true.   *)
DataShown == TypesShown /\ AddressShown

(* Whatever is pointed to, also in circles, and however types refer to     *)
(* each other: gathering, showing and reading end.                         *)
WalksEnd == <>(GatherDone /\ calls = <<>> /\ FieldsDone /\ shows = <<>> /\ reader.ended)
===============================================================================
