------------------------------- MODULE StateFile -------------------------------
(***************************************************************************)
(* app/services/state.py as one component that saves through it sees it:   *)
(* a dictionary in memory, the state.json it was loaded from, and a single *)
(* executor thread that is quarantined when a save does not return.  Every *)
(* setter changes the dictionary first and then writes all of it.          *)
(***************************************************************************)
VARIABLES
  data,        \* StateManager.data
  disk,        \* state.json
  quarantined  \* _EXECUTOR_POISONED

stateFile == <<data, disk, quarantined>>

\* load(): at process start, with a fresh executor.
Load(d) == data' = d /\ disk' = disk /\ quarantined' = FALSE

Stored(d) == /\ ~quarantined
             /\ data' = d /\ disk' = d
             /\ UNCHANGED quarantined

\* Refused outright once quarantined.
Refused == quarantined /\ UNCHANGED stateFile

\* The write raises, before or after state.json is replaced (the backup is
\* written last), or it outlives its timeout and may still be carried out.
Unstored(d) == /\ ~quarantined
               /\ data' = d /\ disk' \in {disk, d}
               /\ quarantined' \in BOOLEAN

\* A setter called by some other component saves the same dictionary.
OtherSave == /\ ~quarantined /\ disk # data
             /\ disk' = data
             /\ UNCHANGED <<data, quarantined>>
=============================================================================
