------------------------------- MODULE Tables -------------------------------
(***************************************************************************)
(* The way from frequencies to the two tables of a block                   *)
(* (src/huffman_table.c, and src/pivcohuf_file.c, which calls one build    *)
(* after the other): pivco_build_table makes the lengths and bends them for *)
(* the effort it is asked for, the encoder's table is built from them, and *)
(* pivco_build_codec_table builds the decoder's, from the same lengths or  *)
(* from whatever lengths a stream holds.                                   *)
(***************************************************************************)
EXTENDS JointLengths, HuffmanTable

CONSTANTS Jobs,    \* frequencies and effort a caller hands in
          Lengths  \* the length vectors read from streams
ASSUME CallsAssumption ==
  /\ Jobs \subseteq [freq : [Symbols -> Nat], effort : Efforts]
  /\ \A job \in Jobs : Countable(job.freq)
  /\ Lengths \subseteq [Symbols -> Nat]

Init == lens = Zeros /\ LengthsInit /\ JointInit /\ TableInit

FromFrequencies(job) ==
  /\ status = "idle" /\ Gather(job.freq) /\ effort' = job.effort
  /\ UNCHANGED <<stage, engine, order, P, glog, level, plane, picks, shape, tableVars>>
MakeLengths == Build /\ UNCHANGED <<jointVars, tableVars>>
BendLengths == Bend /\ UNCHANGED <<lengthsVars, tableVars>>
HandOver ==
  stage \in {"kept", "adopted"} /\ BuildDecodeCore(lens) /\ UNCHANGED <<lengthsVars, jointVars>>
FromStream(ls) == phase = "idle" /\ BuildDecodeCore(ls) /\ UNCHANGED <<lengthsVars, jointVars>>
Reconstruct == Gen /\ UNCHANGED <<lengthsVars, jointVars>>

\* The caller goes on to its next table.
Again ==
  /\ status \in {"ok", "corrupt", "empty"} \/ phase = "empty"
  /\ lens' = Zeros
  /\ freq' = Zeros /\ phase' = "idle" /\ li' = 1 /\ ih' = 1
  /\ nfreq' = <<>> /\ parent' = <<>> /\ count' = NoCount /\ kraft' = 0
  /\ effort' = "plain" /\ stage' = "idle" /\ engine' = "scalar" /\ order' = <<>> /\ P' = <<>> /\ glog' = 0
  /\ level' = 0 /\ plane' = <<>> /\ picks' = <<>> /\ shape' = {}
  /\ status' = "idle" /\ chunks' = <<>> /\ next' = 1 /\ stack' = <<>> /\ dec' = Nothing

Next ==
  \/ \E job \in Jobs : FromFrequencies(job)
  \/ MakeLengths \/ BendLengths \/ HandOver
  \/ \E ls \in Lengths : FromStream(ls)
  \/ Reconstruct
  \/ Again

\* The joint pass's next step.  Each of its steps is to another stage, and only they are;
\* it is fair by its guard, whatever the step computes.
Due == Called \/ stage \in {"solve", "take", "double", "backtrack", "deal"}
Onward == Due /\ stage' \in Stages \ {stage}

\* One thread runs each build to its end.
vars == <<lens, lengthsVars, jointVars, tableVars>>
Spec == Init /\ [][Next]_vars /\ WF_vars(MakeLengths) /\ WF_stage(Onward) /\ WF_vars(Reconstruct)

-----------------------------------------------------------------------------
\* The lengths made from frequencies, a lone symbol's and ghosts' included, are lengths
\* the decoder's build accepts.
NeverRefused == stage \in {"kept", "adopted"} => status # "corrupt"

\* Encoder and decoder end up with one table: it is built from every lengths the encoder
\* makes, and it is the one the encoder builds.
SameTables == NeverRefused /\ TablesAgree

\* Neither pass that changes lengths spoils them: the limiter keeps their order, the
\* joint pass the code, its bounds and the cost.
LengthsKeepSound == OrderKept /\ BoundedBend

\* Every build ends, of lengths and of tables, whatever it was given: frequencies come to
\* lengths that a table can be built from, and lengths to a table or a refusal.
MakingLengths == phase \notin {"idle", "empty"} /\ stage \notin {"kept", "adopted"}
Terminates == (MakingLengths \/ status = "gen") ~> (~MakingLengths /\ status # "gen")
=============================================================================
