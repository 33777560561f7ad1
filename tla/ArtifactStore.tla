--------------------------- MODULE ArtifactStore ---------------------------
(***************************************************************************)
(* What the on-disk JIT cache promises to the processes that share it: per *)
(* key, one writer at a time; only the writer changes the entry; an entry  *)
(* that can be loaded stays loadable whatever happens to its writers.      *)
(***************************************************************************)
CONSTANTS Key, Thread

VARIABLES
  entry,    \* per key: "empty", "unusable" or "loadable"
  writers   \* per key: the threads inside the writer's section

vars == <<entry, writers>>

Entries == {"empty", "unusable", "loadable"}

Init ==
  /\ entry \in [Key -> Entries]
  /\ writers = [k \in Key |-> {}]

Enter(t, k) ==
  /\ writers[k] = {}
  /\ writers' = [writers EXCEPT ![k] = {t}]
  /\ UNCHANGED entry

Discard(t, k) ==
  /\ t \in writers[k]
  /\ entry[k] = "unusable"
  /\ entry' = [entry EXCEPT ![k] = "empty"]
  /\ UNCHANGED writers

Store(t, k) ==
  /\ t \in writers[k]
  /\ entry' = [entry EXCEPT ![k] = "loadable"]
  /\ UNCHANGED writers

\* Writers leave, alone or together with every thread of a process that dies.
Exit(gone) ==
  /\ writers' = [k \in Key |-> writers[k] \ gone]
  /\ UNCHANGED entry

\* One thread leaves one section.
Quit(t, k) ==
  /\ t \in writers[k]
  /\ writers' = [writers EXCEPT ![k] = @ \ {t}]
  /\ UNCHANGED entry

Next ==
  \/ \E t \in Thread, k \in Key : Enter(t, k) \/ Discard(t, k) \/ Store(t, k) \/ Quit(t, k)
  \/ \E gone \in SUBSET Thread : Exit(gone)

Spec == Init /\ [][Next]_vars
=============================================================================
