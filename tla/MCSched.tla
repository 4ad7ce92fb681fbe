-------------------------------- MODULE MCSched --------------------------------
(***************************************************************************)
(* Instances of Sched for TLC.                                             *)
(***************************************************************************)
EXTENDS Sched, TLC

\* Flag sets: no message is both released and reliable.
PlainFlags == {{}, {"RELEASE"}, {"RELIABLE", "HIGH_PRIORITY"}}

\* Reliable and low priority only.
ReliableFlags == {{"RELIABLE"}}

\* Released payloads of both priorities, nothing reliable.
ReleaseFlags == {{"RELEASE"}, {"RELEASE", "HIGH_PRIORITY"}}

\* The headers and the blocks are interchangeable.
Symmetry == Permutations(Hdr) \cup Permutations(Blk)
================================================================================
