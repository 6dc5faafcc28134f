---------------------------- MODULE FirmwareUpdate ----------------------------
(***************************************************************************)
(* What flashing a Ping360 promises, whatever happens to the cable: what a *)
(* power-up would start is at every moment the whole old firmware, the     *)
(* whole new one, or nothing (the device stays in its bootloader, from     *)
(* where it can be flashed again), and "finished" is reported only of a    *)
(* device that holds the new firmware.                                     *)
(***************************************************************************)
VARIABLES firmware,   \* what a power-up would start
          outcome     \* of the last flash: idle, updating, failed, finished

vars == <<firmware, outcome>>

Init == firmware = "old" /\ outcome = "idle"

Begin == /\ outcome # "updating"
         /\ outcome' = "updating"
         /\ UNCHANGED firmware

\* A command can reach the device after the program has given up on it.
Wipe == /\ outcome \in {"updating", "failed"}
        /\ firmware' = "none"
        /\ UNCHANGED outcome

Install == /\ outcome \in {"updating", "failed"}
           /\ firmware = "none"
           /\ firmware' = "new"
           /\ UNCHANGED outcome

Fail == /\ outcome = "updating"
        /\ outcome' = "failed"
        /\ UNCHANGED firmware

Finish == /\ outcome = "updating"
          /\ firmware = "new"
          /\ outcome' = "finished"
          /\ UNCHANGED firmware

Next == Begin \/ Wipe \/ Install \/ Fail \/ Finish

Spec == Init /\ [][Next]_vars
=============================================================================
