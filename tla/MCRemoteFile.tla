---------------------------- MODULE MCRemoteFile ----------------------------
\* Instance for TLC: a file in two messages, the last padded by three units,
\* and a zip member that crosses from one to the other.
EXTENDS RemoteFile
MCRecorded == <<6, 8>>
MCActual == <<6, 5>>
MCWindow == [start |-> 5, size |-> 3]
=============================================================================
