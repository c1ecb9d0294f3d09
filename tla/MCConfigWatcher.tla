--------------------------- MODULE MCConfigWatcher ---------------------------
(* Two files of one group, and the ConfigMaps on either side of them: users   *)
(* have app and d-app, file d/app mirrors into d-app, file d/d-app into       *)
(* d-d-app, where the chain of names that both directions could build is cut. *)
EXTENDS ConfigWatcher

CONSTANTS fApp, fdApp, d, app, dApp, ddApp, e1, e2

MCGroupOf == [f \in {fApp, fdApp} |-> d]
MCMirrorName == [f \in {fApp, fdApp} |-> IF f = fApp THEN dApp ELSE ddApp]
MCPushedAs == [n \in {app, dApp} |-> IF n = app THEN fApp ELSE fdApp]
=============================================================================
