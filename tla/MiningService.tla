----------------------------- MODULE MiningService -----------------------------
(***************************************************************************)
(* What a module promises to its host, and no more.  It mines one job at a  *)
(* time and nothing while it is stopped; a job is never replaced by another *)
(* without a stop in between; every share it finds is for the job being     *)
(* mined at that moment and waits for the host in a queue, in the order     *)
(* they were found, each to be fetched once.                                *)
(*                                                                         *)
(* What is mined is the set of jobs a share may be for: one job, none while *)
(* the module is stopped, any of them once a package of an upload is lost,  *)
(* for the protocol does not repeat it.                                     *)
(***************************************************************************)
EXTENDS Naturals, Sequences

CONSTANTS
  Jobs,   \* what the host may have mined
  Size    \* the queue holds one share less

VARIABLES
  mined,  \* the jobs a share found now may be for
  shares  \* for each share that waits for the host, the jobs it may be for

Queue == INSTANCE LossyRing WITH Items <- SUBSET Jobs, q <- shares

Init == mined = {} /\ Queue!Init

Start(j) == mined = {} /\ mined' = {j} /\ UNCHANGED shares

Stop == mined' = {} /\ UNCHANGED shares

(* A package of the upload is lost. *)
Spoil == mined' = Jobs /\ UNCHANGED shares

Find == mined # {} /\ Queue!Put(mined) /\ UNCHANGED mined

(* The host polls. *)
Fetch == Queue!Get /\ UNCHANGED mined

Next == (\E j \in Jobs : Start(j)) \/ Stop \/ Spoil \/ Find \/ Fetch

Spec == Init /\ [][Next]_<<mined, shares>>
===============================================================================
