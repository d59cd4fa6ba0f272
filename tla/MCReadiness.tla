---------------------------- MODULE MCReadiness ----------------------------
(* The machines Readiness is checked on: on both sides of every threshold. *)
EXTENDS Setup

Macs ==
    [os : {"darwin"}, gen : {Unknown, 2, 3}, macos : {Unknown, 14, 15},
     mem : {Unknown, 7, 8, 16}, disk : {Unknown, 59, 60},
     tools : SUBSET {"brew", "limactl", "go"}, lima : {"", "Running", "Stopped"},
     kvm : BOOLEAN, accel : BOOLEAN, password : BOOLEAN]
Others ==
    [os : {"linux", "other"}, gen : {Unknown}, macos : {Unknown}, mem : {16}, disk : {60},
     tools : SUBSET {"go", "qemu", "clang"}, lima : {""},
     kvm : BOOLEAN, accel : BOOLEAN, password : BOOLEAN]
MacsAndOthers == Macs \cup Others
=============================================================================
