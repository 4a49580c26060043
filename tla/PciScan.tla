------------------------------- MODULE PciScan -------------------------------
(***************************************************************************)
(* The bus scan of kernel/drivers/pci.c: pci_init, pci_bus_scan and        *)
(* pci_check_func with its recursion behind bridges, one action per turn   *)
(* of a loop.  The configuration space is external: what an absent         *)
(* function answers has all bits set.                                      *)
(***************************************************************************)
EXTENDS Integers, Sequences, FiniteSets

CONSTANTS Slots,    \* devices of a bus: 32
          Funcs,    \* functions of a device: 8
          Machine   \* bound of the model: what is plugged in, from places
                    \* <<bus, device, function>> to [class, multi, secondary]

Place == Nat \X (0..(Slots - 1)) \X (0..(Funcs - 1))
Header == [class : {"device", "host", "bridge"}, multi : BOOLEAN, secondary : Nat]

\* A header that says its device has one function is that of its only one.  The
\* firmware has given the buses behind bridges numbers of their own, which are
\* not those of the host's functions either.
ASSUME PciScanAssumption ==
    /\ Slots \in Nat \ {0} /\ Funcs \in Nat \ {0, 1}
    /\ \A m \in Machine :
        /\ IsFiniteSet(DOMAIN m) /\ DOMAIN m \subseteq Place /\ m \in [DOMAIN m -> Header]
        /\ \A p \in DOMAIN m : ~m[p].multi =>
               \A q \in DOMAIN m : q[1] = p[1] /\ q[2] = p[2] => q[3] = 0
        /\ \A p \in DOMAIN m : m[p].class = "bridge" =>
               /\ m[p].secondary # 0 /\ <<0, 0, m[p].secondary>> \notin DOMAIN m
               /\ \A q \in DOMAIN m : m[q].class = "bridge" /\ m[q].secondary = m[p].secondary => q = p

VARIABLES
    machine,
    host,    \* pci_init's loop over the host's functions, its next one
    scans,   \* the calls of pci_bus_scan, the innermost first: bus, device,
             \* its variable func, and whether it is in the inner loop
    found    \* pci_list
busVars == <<machine, host, scans, found>>

Absent(place) == place \notin DOMAIN machine
Multi(place) == Absent(place) \/ machine[place].multi

ScanTypeOK ==
    /\ machine \in Machine
    /\ host \in 0..Funcs
    /\ \A s \in DOMAIN scans : scans[s].device \in 0..Slots /\ scans[s].func \in 0..(Funcs - 1)
    /\ found \in Seq(DOMAIN machine)

-----------------------------------------------------------------------------
Scan(bus) == <<[bus |-> bus, device |-> 0, func |-> 0, inner |-> FALSE]>>

\* pci_init: one bus, or one for each of the host's functions there are.
HostMulti == Multi(<<0, 0, 0>>)
ScanInit ==
    /\ machine \in Machine
    /\ host = 0
    /\ scans = IF HostMulti THEN << >> ELSE Scan(0)
    /\ found = << >>

NextHost ==
    /\ HostMulti /\ scans = << >> /\ host < Funcs
    /\ IF Absent(<<0, 0, host>>)
       THEN host' = Funcs /\ UNCHANGED scans
       ELSE host' = host + 1 /\ scans' = Scan(host)
    /\ UNCHANGED <<machine, found>>

Top == Head(scans)

\* pci_check_func with pci_device_set, in a scan that goes on as rest.
Listed(place) == ~Absent(place) /\ machine[place].class = "device"
Check(place, rest) ==
    /\ found' = IF Listed(place) THEN Append(found, place) ELSE found
    /\ scans' = IF ~Absent(place) /\ machine[place].class = "bridge"
                THEN Scan(machine[place].secondary) \o rest ELSE rest

NextDevice(device) == device + 1

\* A turn of pci_bus_scan's loop.  The header that is read is that of function
\* func, which is not 0 again behind a device that had several.
Device ==
    /\ scans # << >> /\ ~Top.inner /\ Top.device < Slots
    /\ IF Multi(<<Top.bus, Top.device, Top.func>>)
       THEN scans' = [scans EXCEPT ![1].inner = TRUE, ![1].func = 0] /\ UNCHANGED found
       ELSE Check(<<Top.bus, Top.device, 0>>, [scans EXCEPT ![1].device = NextDevice(@)])
    /\ UNCHANGED <<machine, host>>

\* A turn of the inner loop, which leaves the last function out, or its end.
LastFuncEarly == Funcs - 2                          \* faulty: one function less
LastFunc == Funcs - 1
Function ==
    /\ scans # << >> /\ Top.inner
    /\ IF Top.func < LastFunc
       THEN Check(<<Top.bus, Top.device, Top.func>>, [scans EXCEPT ![1].func = @ + 1])
       ELSE /\ scans' = [scans EXCEPT ![1].inner = FALSE, ![1].device = NextDevice(@)]
            /\ UNCHANGED found
    /\ UNCHANGED <<machine, host>>

ScanReturn ==
    /\ scans # << >> /\ ~Top.inner /\ Top.device = Slots
    /\ scans' = Tail(scans)
    /\ UNCHANGED <<machine, host, found>>

ScanNext == NextHost \/ Device \/ Function \/ ScanReturn

\* The scan runs in the boot, and nothing interrupts it.
ScanSpec == ScanInit /\ [][ScanNext]_busVars /\ WF_busVars(ScanNext)

-----------------------------------------------------------------------------
(* Properties                                                              *)

\* The buses a scan gets to: the host's, and those behind bridges on them.
HostBuses ==
    IF HostMulti THEN {f \in 0..(Funcs - 1) : \A g \in 0..f : ~Absent(<<0, 0, g>>)} ELSE {0}
BehindBridges(buses) == {machine[p].secondary : p \in {q \in DOMAIN machine :
                     q[1] \in buses /\ machine[q].class = "bridge" /\ q[3] # Funcs - 1}}
ReachedBuses[n \in 0..Cardinality(DOMAIN machine)] ==
    IF n = 0 THEN HostBuses ELSE ReachedBuses[n - 1] \cup BehindBridges(ReachedBuses[n - 1])
Buses == ReachedBuses[Cardinality(DOMAIN machine)]

\* When the scan is over, the list has every device on a bus it can reach, once,
\* but for the last function of each; the variable that keeps the last
\* function's number from one device to the next does no harm.
ScanComplete ==
    /\ ScanTypeOK
    /\ scans = << >> /\ (HostMulti => host = Funcs) =>
        /\ {found[i] : i \in DOMAIN found} =
               {p \in DOMAIN machine : p[1] \in Buses /\ p[3] # Funcs - 1 /\ machine[p].class = "device"}
        /\ \A i, j \in DOMAIN found : found[i] = found[j] => i = j

\* The scan ends where the firmware numbered the buses behind bridges.
ScanEnds == <>(scans = << >> /\ (HostMulti => host = Funcs))
=============================================================================
