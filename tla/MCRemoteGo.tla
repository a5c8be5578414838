----------------------------- MODULE MCRemoteGo -----------------------------
(* Instances of RemoteGo for TLC.                                          *)
EXTENDS RemoteGo

CONSTANTS c1, c2

MCClients == {c1, c2}

\* This repository's firmware, with which the server does not come up, and the
\* documented one, with requests that overlap and a port that fails.
AnyTrouble == {{}, {"prints_key", "overlap", "serial"}}
\* What the import of this repository prints, on a port that works.
SilentImport == {{}}
=============================================================================
