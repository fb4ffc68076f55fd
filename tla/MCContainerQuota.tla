---------------------------- MODULE MCContainerQuota ----------------------------
(***************************************************************************)
(* The instances of ContainerQuota that TLC checks.                        *)
(***************************************************************************)
EXTENDS ContainerQuota

CONSTANTS t1, t2

\* LeakedRowHeals of one thread: the threads are symmetric.
LeakedRowHealsForT1 == LeakedRowHeals(t1)

===============================================================================
