----------------------------- MODULE MCPackageGraph -----------------------------
(* Three packages: app needs lib in its first generation and tool in its second. *)
EXTENDS PackageGraph, TLC

CONSTANTS app, lib, tool, view, extra

MCNeeds == [k \in Package \X (1 .. MaxGeneration) |->
              IF k[1] # app THEN {} ELSE IF k[2] % 2 = 1 THEN {lib} ELSE {tool}]
MCInstallOrder == <<tool, lib, app>>
MCChanges == {<<{app, lib}, {}>>, <<{app, tool}, {lib}>>, <<{}, {app, lib}>>, <<{lib}, {}>>}
MCSurfaces == [p \in Package |-> IF p = app THEN <<view, extra>> ELSE <<view>>]
================================================================================
