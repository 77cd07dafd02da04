---------------------------- MODULE DurableCache ----------------------------
(***************************************************************************)
(* What Store.Save promises of the cache file, whatever the goroutines that*)
(* call it do and wherever a crash hits: "the write is atomic within the   *)
(* target directory" (store.go:557-560).  The file is always one whole     *)
(* state of the store, that a Save of the running process copied and had   *)
(* not finished writing; a crash leaves it alone.                          *)
(***************************************************************************)
CONSTANT None   \* no file yet

VARIABLES memory,   \* the store, as Save copies it
          taken,    \* the copies of the Saves under way
          file

vars == <<memory, taken, file>>

Init == taken = {} /\ file = None

\* Events change the store, as they please.
Change == UNCHANGED <<taken, file>>

\* A Save copies the store.
Take == /\ taken' = taken \cup {memory}
        /\ UNCHANGED <<memory, file>>

\* A Save completes: its copy is the file.
Install == \E c \in taken : /\ file' = c
                            /\ taken' \in {taken, taken \ {c}}
                            /\ UNCHANGED memory

\* A Save gives up.
Abandon == /\ taken' \subseteq taken
           /\ UNCHANGED <<memory, file>>

\* The process dies, and its Saves with it; the next one starts from the file.
Crash == taken' = {} /\ UNCHANGED file

Next == Change \/ Take \/ Install \/ Abandon \/ Crash

Spec == Init /\ [][Next]_vars
=============================================================================
