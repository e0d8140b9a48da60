------------------------------ MODULE MCStorage ------------------------------
(* The file system, its layout, the block devices below it and the file     *)
(* handles above it for TLC.  The file system sees its device only as block *)
(* writes that may fail, and the handles see it only as files that open or  *)
(* not, so a behaviour explores one of the four and leaves the others where *)
(* they start.                                                              *)
EXTENDS Fat32, Fat32Layout, BlockDevices, FileHandles

VARIABLE part

MCPaths == {<<"a">>, <<"d">>, <<"d", "a">>}
MCNames == {<<"a">>, <<"b">>, <<"d">>}

vars == <<fatVars, block_count, blkVars, fileVars, part>>

Init ==
  /\ fatInit /\ layInit /\ blkInit /\ fileInit
  /\ part \in {"fat32", "layout", "blocks", "files"}
  /\ part # "blocks" => \A c \in Callers : table[c].end = 1

Next ==
  \/ part = "fat32"  /\ fatNext /\ UNCHANGED <<block_count, blkVars, fileVars, part>>
  \/ part = "layout" /\ layNext /\ UNCHANGED <<fatVars, blkVars, fileVars, part>>
  \/ part = "blocks" /\ blkNext /\ UNCHANGED <<fatVars, block_count, fileVars, part>>
  \/ part = "files"  /\ fileNext /\ UNCHANGED <<fatVars, block_count, blkVars, part>>

Of(A) == part = "blocks" /\ A

Spec ==
  /\ Init /\ [][Next]_vars
  /\ WF_blkVars(Of(DriveDone(FALSE))) /\ WF_blkVars(Of(ata_irq))
  /\ WF_blkVars(Of(Identify)) /\ WF_blkVars(Of(ReadTable)) /\ WF_blkVars(Of(mount))
  /\ \A t \in Callers : WF_blkVars(Of(Poll(t)))
  /\ WF_fileVars(part = "files" /\ RunJob)
==============================================================================
