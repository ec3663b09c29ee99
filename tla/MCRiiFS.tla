------------------------------ MODULE MCRiiFS ------------------------------
(***************************************************************************)
(* Small instances of RiiFS.  The served directory holds a.bin and, in    *)
(* the runs that need it, b.bin; d1 and d2 are the buffers callers write.  *)
(***************************************************************************)
EXTENDS RiiFS

CONSTANTS a, b, d1, d2, h1, h2

MCDataLen == [d \in Data |-> IF d = d1 THEN 1 ELSE 2]
MCInitSize == a :> 2

(* Open modes: O_RDONLY; what the launcher and the modules write with; O_RDWR. *)
Modes_Read == {{}}
Modes_Names == {{"WRONLY", "CREAT"}}
Modes_Write == {{"WRONLY"}, {"WRONLY", "TRUNC"}, {"WRONLY", "CREAT"},
                {"WRONLY", "APPEND"}, {"RDWR", "CREAT"}}
Modes_Drop == {{"WRONLY"}, {"WRONLY", "APPEND"}}
Modes_Update == {{"RDWR"}}

(* Offsets callers seek by; one leads before the start of the file. *)
Offsets_Read == {-3, 0, 1}

(* Workloads: the operations of one kind of caller. *)
Session == {"Mount", "Unmount"}
ReadWorkload == Session \union {"Open", "Read", "Seek", "Close"}
WriteWorkload == Session \union {"Open", "Write", "Seek", "Sync", "Close",
                                 "Log", "IdleTick", "CheckPhysical"}
NamesWorkload == Session \union {"Stat", "CreateFile", "Delete", "Rename", "CreateDir",
                                 "Open", "Close", "OpenDir", "NextDir", "CloseDir"}
DropWorkload == Session \union {"Open", "Write", "Seek", "Sync", "Close"}
StatWorkload == Session \union {"Stat"}
UpdateWorkload == Session \union {"Open", "Read", "Write", "Close"}

Symmetry == Permutations(Handles)
=============================================================================
