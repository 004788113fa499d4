-------------------------------- MODULE Base --------------------------------
(* The constants every module shares.                                      *)

CONSTANTS
    Tasks,  \* the tasks that serve blob requests, one per HTTP request
    None    \* stands for no value

ASSUME NoneAssumption == None \notin Tasks
=============================================================================
