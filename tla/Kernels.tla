------------------------------- MODULE Kernels -------------------------------
(***************************************************************************)
(* The vector kernels of a block: the histogram its table is built from,   *)
(* the partitions of the encode walk, the packing and unpacking of its     *)
(* flat regions in either layout and the merges of the decode walk.  A     *)
(* thread is in one of them at a time and each gets its data from its      *)
(* caller, so a behaviour is one call of one kernel (of the vertical       *)
(* layouts, a region packed and decoded), and the variables of the others *)
(* are at rest.                                                            *)
(***************************************************************************)
EXTENDS FlatKernel, VerticalKernel, MergeKernel, PartitionKernel, ByteHistogram

\* A kernel at rest: a call of it on nothing, which is over.
MergeRests ==
  /\ bits = <<>> /\ leafy = FALSE /\ out = <<>> /\ other = <<>>
  /\ lc = 0 /\ rc = 0 /\ reach = 0
SplitRests ==
  /\ form = "full" /\ sides = <<>> /\ thr = 0
  /\ ranks = [a \in 0 .. SplitRoom - 1 |-> NoRank] /\ tmp = [a \in 0 .. SplitRoom - 1 |-> NoRank]
  /\ bm = <<>> /\ regs = <<>> /\ j = 0 /\ nl = 0 /\ nr = 0
CountRests ==
  /\ in = <<>> /\ offset = 0 /\ ptr = 0 /\ left = 0 /\ pc = "done" /\ round = 0
  /\ scratch = <<>> /\ count = <<>> /\ hist16 = <<>> /\ tree = Fresh
  /\ freq = [b \in Bytes |-> 0]
FlatRests ==
  /\ op = "merge" /\ engine = "neon" /\ d = 8 /\ n = 1
  /\ at = n /\ loop = 1 /\ reached = 0 /\ short = FALSE
  /\ mem = [b \in 0 .. RegionBytes + 15 |-> "old"]
VerticalRests ==
  /\ call = [op |-> "merge", engine |-> "scalar", D |-> 8, n |-> 0, layout |-> "natural"]
  /\ done = 0 /\ part = 0 /\ packed = <<>> /\ decoded = <<>>

KernelsInit ==
  \/ MergeInit /\ SplitRests /\ CountRests /\ FlatRests /\ VerticalRests
  \/ SplitInit /\ MergeRests /\ CountRests /\ FlatRests /\ VerticalRests
  \/ CountInit /\ MergeRests /\ SplitRests /\ FlatRests /\ VerticalRests /\ backend = "avx512"
  \/ Init /\ MergeRests /\ SplitRests /\ CountRests /\ VerticalRests /\ backend = "scalar"
  \/ VerticalInit /\ MergeRests /\ SplitRests /\ CountRests /\ FlatRests /\ backend = "scalar"

MergeCall == MergeNext /\ UNCHANGED <<splitVars, countVars, vars, verticalVars>>
SplitCall == SplitNext /\ UNCHANGED <<mergeVars, countVars, vars, verticalVars>>
CountCall == CountNext /\ UNCHANGED <<mergeVars, splitVars, vars, verticalVars>>
FlatCall == Next /\ UNCHANGED <<mergeVars, splitVars, countVars, verticalVars>>
VerticalCall == VerticalNext /\ UNCHANGED <<mergeVars, splitVars, countVars, vars>>

\* The call is over when its kernel has come to the end of its data: where nothing else
\* can happen short of that, a residue has no loop that takes it, and TLC reports a deadlock.
CallOver ==
  /\ at = n /\ taken = K /\ j = nRanks /\ pc = "done" /\ call.op = "merge" /\ done = call.n
  /\ UNCHANGED <<mergeVars, splitVars, countVars, vars, verticalVars>>

KernelsNext == MergeCall \/ SplitCall \/ CountCall \/ FlatCall \/ VerticalCall \/ CallOver

kernelsVars == <<mergeVars, splitVars, countVars, vars, verticalVars>>
KernelsSpec == KernelsInit /\ [][KernelsNext]_kernelsVars
=============================================================================
