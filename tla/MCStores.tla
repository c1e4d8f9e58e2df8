------------------------------- MODULE MCStores -------------------------------
(***************************************************************************)
(* What the database keeps of a user beside the logs: the tree of threads  *)
(* (Threads), the notes of one (Notebook), the progress of a task          *)
(* (TaskProgress), the user's memories (Memories) and budget (Quota).      *)
(* They share no row and no transaction, so an interleaving of two says no *)
(* more than each alone: a behaviour follows the one it begins with, and   *)
(* the others stand still.                                                 *)
(***************************************************************************)
EXTENDS Threads, TaskProgress, Memories, Quota, Notebook

VARIABLE store      \* the one that is followed

Stores == {"threads", "notes", "memory", "budget", "progress"}

StoresInit ==
    /\ store \in Stores
    /\ Init
    /\ NotesInit
    /\ MemoryInit
    /\ QuotaInit
    /\ ProgressInit
    /\ store # "progress" => onThread

StoresNext ==
    /\ UNCHANGED store
    /\ \/ store = "threads" /\ Next
       \/ store # "threads" /\ UNCHANGED vars
    /\ \/ store = "notes" /\ NotesNext
       \/ store # "notes" /\ UNCHANGED noteVars
    /\ \/ store = "memory" /\ MemoryNext
       \/ store # "memory" /\ UNCHANGED memoryVars
    /\ \/ store = "budget" /\ QuotaNext
       \/ store # "budget" /\ UNCHANGED quotaVars
    /\ \/ store = "progress" /\ ProgressNext
       \/ store # "progress" /\ UNCHANGED progressVars

StoresSpec ==
    StoresInit /\ [][StoresNext]_<<vars, noteVars, memoryVars, quotaVars, progressVars, store>>

================================================================================
