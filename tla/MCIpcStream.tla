----------------------------- MODULE MCIpcStream -----------------------------
(* Instances of IpcStream for TLC.                                           *)
EXTENDS IpcStream

\* The safe uses, a future that is dropped, and RefreshMemoryConfig.
MixedUses == SafeUses \cup {<<"plain", "dropped">>, <<"memory", "timed">>}

\* RefreshMemoryConfig, from memory.fix of a philote.
MemoryUses == {<<"plain", "forever">>, <<"memory", "forever">>}

\* The requests of heal-dispatcher and the loads of model-router, bounded from
\* outside.
DroppedUses == {<<"plain", "dropped">>}
=============================================================================
