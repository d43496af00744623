------------------------- MODULE MCRestartMigration -------------------------
(* RestartMigration with amounts around the minimum and the grow rate, and at
   most four rounds. *)
EXTENDS RestartMigration

MCTransfers == {0, 1, 2, 3, 20, 22}

(* No fault; the one fault that changes no handover; those of the network and
   of p.haul-service; then with vzctl failing unnoticed; and everything. *)
MCFaults ==
    {{}, {"umount"}, {"crash", "reset", "service", "halfstart"},
     {"reset", "service", "halfstart", "stop", "umount"}, AllFaults}

MCJobs == {j \in AllJobs : j.faults \in MCFaults}

UmountFailsJobs == {j \in AllJobs : j.driver = "vz" /\ j.faults = {"umount"}}
=============================================================================
