------------------------------ MODULE MCTools ------------------------------
(***************************************************************************)
(* Instances of the small programs for TLC, which share one run: tool says *)
(* which of them is at work, and the others stay where they begin.         *)
(***************************************************************************)
EXTENDS AllHash, ElasticDump, PebbleCli, Redline, RedlineParse, Mhs, Sniplex

VARIABLE tool

toolVars == <<tool, hashVars, dumpVars, pebVars, rlVars, rpVars, mhsVars, sniVars>>

ToolsInit ==
    /\ tool \in {"allhash", "elasticdump", "pebble", "redline", "parse", "mhs", "sniplex"}
    /\ HashInit /\ DumpInit /\ PebInit /\ RlInit /\ RpInit /\ MhsInit /\ SniInit

Hash == tool = "allhash" /\ HashNext /\ UNCHANGED <<tool, dumpVars, pebVars, rlVars, rpVars, mhsVars, sniVars>>
ElasticD == tool = "elasticdump" /\ DumpNext /\ UNCHANGED <<tool, hashVars, pebVars, rlVars, rpVars, mhsVars, sniVars>>
Peb == tool = "pebble" /\ PebNext /\ UNCHANGED <<tool, hashVars, dumpVars, rlVars, rpVars, mhsVars, sniVars>>
Rl(A) == tool = "redline" /\ A /\ UNCHANGED <<tool, hashVars, dumpVars, pebVars, rpVars, mhsVars, sniVars>>
Rp == tool = "parse" /\ RpNext /\ UNCHANGED <<tool, hashVars, dumpVars, pebVars, rlVars, mhsVars, sniVars>>
Hec(A) == tool = "mhs" /\ A /\ UNCHANGED <<tool, hashVars, dumpVars, pebVars, rlVars, rpVars, sniVars>>
Sni == tool = "sniplex" /\ SniNext /\ UNCHANGED <<tool, hashVars, dumpVars, pebVars, rlVars, rpVars, mhsVars>>

ToolsNext == Hash \/ ElasticD \/ Peb \/ Rl(RlNext) \/ Rp \/ Hec(MhsNext) \/ Sni

\* The fairness of each program's own specification.
ToolsSpec == /\ ToolsInit /\ [][ToolsNext]_toolVars
             /\ WF_toolVars(Hash \/ ElasticD \/ Rl(RlWork) \/ Hec(MhsWork))

ToolsTypeOK == HashTypeOK /\ DumpTypeOK /\ PebTypeOK /\ RlTypeOK /\ RpTypeOK /\ MhsTypeOK /\ SniTypeOK

(* Where the code says that a program ends or answers, it does: allhash's    *)
(* and elasticdump's main, and every handler of mhs.                       *)
ToolsEnd == HashEnds /\ DumpEnds /\ RequestAnswered

OneAndTwoPages == [i \in Index |-> IF i = "big" THEN 2 ELSE 1]
AnyOrder == UNION {{<<i>>, <<i, j>>} : i, j \in Index} \ {<<i, i>> : i \in Index}
ThreeStages == <<"user_info", "installed_software", "cookies">>
=============================================================================
