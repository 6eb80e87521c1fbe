---------------------------- MODULE MCIoTConnection ----------------------------
(* Instance of IoTConnection for TLC: four emissions, two accounts.         *)
EXTENDS IoTConnection, TLC

(* Jobs are interchangeable names: they are given out in order.             *)
InOrder == \A j \in Jobs \ {1} : job[j].at # "unused" => job[j - 1].at # "unused"
=============================================================================
