--------------------------- MODULE MCTrafficStore ---------------------------
(* Instances of TrafficStore: the configurations of each run. *)
EXTENDS TrafficStore

Conf(u, s, r) == [upload |-> u, save |-> s, resume |-> r]
ForwardOnly == {Conf(1, 0, TRUE)}
Archive == {Conf(1, 1, TRUE)}
ArchiveSwitched == {Conf(0, 1, TRUE), Conf(1, 1, TRUE)}
=============================================================================
