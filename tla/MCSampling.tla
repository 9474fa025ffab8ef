----------------------------- MODULE MCSampling -----------------------------
(***************************************************************************)
(* Small instances of Sampling for TLC: a sampler of the machine alone, of *)
(* a process counter with the machine, and of the lists alone.             *)
(***************************************************************************)
EXTENDS Sampling, TLC

CONSTANTS Cpu, Handles_

MCMetrics == {Cpu, Handles_}
MachineSpec == [interval |-> 1, processes |-> {}, machine |-> {Cpu}]
CounterSpec == [interval |-> 3, processes |-> {Handles_}, machine |-> {Cpu}]
ListsSpec == [interval |-> 6, processes |-> {}, machine |-> {}]
MCSpecs == {MachineSpec, CounterSpec, ListsSpec}

Interchangeable == Permutations(Clients)
=============================================================================
