-------------------------- MODULE MCLiveMigration --------------------------
(* LiveMigration on small instances.  Two amounts of pages, on each side of
   the minimum; with MAX_ITERS_COUNT = 2, none to three pre-dumps. *)
EXTENDS LiveMigration

MCPages == {1, 2, 3}

(* Nothing waived; pre-dumps as asked for; with and without --keep-images. *)
DriverJobs == {j \in AllJobs : ~j.force /\ ~j.skip_cpu /\ ~j.skip_criu}

PidJobs == {j \in DriverJobs : j.driver = "pid" /\ j.pre_dump = "auto"}

(* Every driver, and for one of them every combination of options: what they
   decide comes before the first dump and is the same for all drivers. *)
MCJobs == DriverJobs \cup {j \in AllJobs : j.driver = "pid"}
=============================================================================
