------------------------------- MODULE MCPList -------------------------------
(***************************************************************************)
(* Four nodes, three initial priorities: every list of up to four nodes in *)
(* one, two or three priorities, with leaders in every position.           *)
(*                                                                         *)
(* A behaviour is one of the list, or one of the race of fork's insertion  *)
(* with the end of a slice (ForkRace) over four threads: process 1 and the *)
(* three children that it, or they, fork.                                  *)
(***************************************************************************)
EXTENDS PList

CONSTANTS n1, n2, n3, n4, InitT

const_Node    == {n1, n2, n3, n4}
const_Prio    == 0..2
const_MaxPrio == 4

VARIABLES part,                                     \* "list" or "race"
          rprio, leaders, nodes,                    \* of ForkRace's PList
          sched_thread, queued, pc, node, next_node, iter, first, before, link,
          parked, struck, halted

Race == INSTANCE ForkRace WITH node_prio <- rprio, prio_list <- leaders, node_list <- nodes

-----------------------------------------------------------------------------
race == <<rprio, leaders, nodes, sched_thread, queued, pc, node, next_node, iter, first,
          before, link, parked, struck, halted>>
both == <<part, plistVars, race>>

BothInit ==
    /\ PlistInit /\ Race!RaceInit
    /\ part \in {"list", "race"}
    /\ part = "race" => node_prio = [n \in Node |-> 0]

ListStep == part = "list" /\ PlistNext /\ UNCHANGED <<part, race>>
RaceStep == part = "race" /\ Race!RaceNext /\ UNCHANGED <<part, plistVars>>

BothSpec == BothInit /\ [][ListStep \/ RaceStep]_both

-----------------------------------------------------------------------------
\* A slice that ends inside fork's insertion, as ForkRace states it.
InsertionSurvives == Race!InsertionSurvives
=============================================================================
