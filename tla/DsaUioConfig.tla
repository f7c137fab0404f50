---------------------------- MODULE DsaUioConfig ----------------------------
(***************************************************************************)
(* DSA devices under uio_pci_generic (src/dsa-uio-config/user_device.c and  *)
(* dsa_uio_config.c), as used by two processes: the tool prepare_dsa_env    *)
(* enables every device and its work queue, and the library takes all       *)
(* enabled queues in DsaDispatcher::Init and gives them back in CleanUp     *)
(* (src/src/data_flow/dsa/dsa_dispatcher.cc).  A process may die and be     *)
(* started again.                                                           *)
(*                                                                          *)
(* sysfs, lsof and the registers are external: a device is enabled or not,  *)
(* its queue is, and some processes have it mapped.  A device has one work  *)
(* queue, as the code configures it.                                        *)
(***************************************************************************)
EXTENDS Integers, Sequences, FiniteSets, SequencesExt

CONSTANTS
    Buses,      \* possible listings of the devices under the driver: sequences of "dsa",
                \* "other", and "negative" for a device id that is negative as a short
    Quotas,     \* lengths of vesal_data_flow_dsa_quota, 0 if empty, -1 if malformed
    MaxStarts   \* bound: starts of a process

Procs == {"tool", "lib"}
NoDev == 0

VARIABLES
    bus,       \* the listing
    hw,        \* per device: [dev, wq : BOOLEAN, maps : SUBSET Procs]
    up,        \* per process: "down", "up", "dead" (a null pointer was used)
    init,      \* InitDsaConfig's init flag
    udi,       \* per process: its devices
    uwi,       \* per process: uwi, the device whose portal is in each entry, or NoDev
    avail,     \* devices whose wq_avail is set
    init_done, \* devices whose init_done is set
    lost,      \* history: devices marked used whose portal could not be mapped
    at,        \* ud_wq_find: the place it looks at, or 0
    list,      \* the library's wq_list_, as devices
    phase,     \* DsaDispatcher: "none", "getting", "inited", "cleaning"
    starts

vars == <<bus, hw, up, init, udi, uwi, avail, init_done, lost, at, list, phase, starts>>
tables == <<init, udi, uwi, avail, init_done, lost, at>>

Devs == {i \in DOMAIN bus : bus[i] = "dsa"}
EmptyFor(x) == [p \in Procs |-> x]

Init ==
    /\ bus \in Buses
    /\ hw = [d \in Devs |-> [dev |-> FALSE, wq |-> FALSE, maps |-> {}]]
    /\ up = EmptyFor("down") /\ init = EmptyFor(FALSE)
    /\ udi = EmptyFor(<<>>) /\ uwi = EmptyFor(<<>>)
    /\ avail = EmptyFor({}) /\ init_done = EmptyFor({}) /\ lost = EmptyFor({})
    /\ at = EmptyFor(0)
    /\ list = <<>> /\ phase = "none" /\ starts = 0

\* A process is started, or ends and leaves nothing mapped.
StartProc(p) ==
    /\ up[p] = "down" /\ starts < MaxStarts
    /\ starts' = starts + 1
    /\ up' = [up EXCEPT ![p] = "up"]
    /\ UNCHANGED <<bus, hw, tables, list, phase>>

EndProc(p) ==
    /\ up[p] # "down"
    /\ up' = [up EXCEPT ![p] = "down"]
    /\ hw' = [d \in Devs |-> [hw[d] EXCEPT !.maps = @ \ {p}]]
    /\ init' = [init EXCEPT ![p] = FALSE] /\ udi' = [udi EXCEPT ![p] = <<>>]
    /\ uwi' = [uwi EXCEPT ![p] = <<>>] /\ at' = [at EXCEPT ![p] = 0]
    /\ avail' = [avail EXCEPT ![p] = {}] /\ init_done' = [init_done EXCEPT ![p] = {}]
    /\ lost' = [lost EXCEPT ![p] = {}]
    /\ IF p = "lib" THEN list' = <<>> /\ phase' = "none" ELSE UNCHANGED <<list, phase>>
    /\ UNCHANGED <<bus, starts>>

\* user_driver_init: the listing is read until as many DSA devices are found as were
\* counted; other devices are skipped, and a negative device id ends it with an error.
Negative == {i \in DOMAIN bus : bus[i] = "negative"}   \* pci_dev_id
Read == {i \in Devs : \A b \in Negative : i < b}
Failed == Devs = {} \/ Read # Devs

\* InitDsaConfig: tried once in a process.  An error leaves the devices that were read
\* counted in nb_wq, and no table for their queues.
InitDsaConfig(p) ==
    /\ up[p] = "up" /\ ~init[p]
    /\ init' = [init EXCEPT ![p] = TRUE]
    /\ udi' = [udi EXCEPT ![p] = IF Devs = {} THEN <<>> ELSE SetToSortSeq(Read, <)]
    /\ avail' = [avail EXCEPT ![p] = Read]
    /\ uwi' = [uwi EXCEPT ![p] = IF Failed THEN <<>> ELSE [i \in 1 .. Cardinality(Read) |-> NoDev]]
    /\ UNCHANGED <<hw, up, init_done, lost, at, list, phase, starts, bus>>

Free(p) == {i \in DOMAIN uwi[p] : uwi[p][i] = NoDev}

\* A call of ud_wq_find may begin: EnableDsaWQs in the tool, DsaDispatcher::Init in the
\* library.
MayFind(p) ==
    /\ up[p] = "up" /\ init[p] /\ at[p] = 0
    /\ p = "lib" => phase = "getting"

\* lfind over a table that was never allocated
FindCrashes(p) ==
    /\ MayFind(p) /\ uwi[p] = <<>> /\ udi[p] # <<>>
    /\ up' = [up EXCEPT ![p] = "dead"]
    /\ UNCHANGED <<hw, tables, list, phase, starts, bus>>

FindStart(p) ==
    /\ MayFind(p) /\ Free(p) # {}
    /\ at' = [at EXCEPT ![p] = 1]
    /\ UNCHANGED <<hw, up, init, udi, uwi, avail, init_done, lost, list, phase, starts, bus>>

\* What a call returns: false ends the loop of the library.
ReturnsFalse(p) == IF p = "lib" THEN phase' = "quota" /\ UNCHANGED list ELSE UNCHANGED <<list, phase>>
ReturnsTrue(p, d) ==
    IF p = "lib" THEN list' = Append(list, d) /\ UNCHANGED phase ELSE UNCHANGED <<list, phase>>

\* No entry is free, or no device is left to try.
FindNothing(p) ==
    /\ \/ MayFind(p) /\ Free(p) = {} /\ ~(uwi[p] = <<>> /\ udi[p] # <<>>)
       \/ at[p] > Len(udi[p]) /\ up[p] = "up"
    /\ at' = [at EXCEPT ![p] = 0]
    /\ ReturnsFalse(p)
    /\ UNCHANGED <<hw, up, init, udi, uwi, avail, init_done, lost, starts, bus>>

Dev(p) == udi[p][at[p]]
Trying(p) == up[p] = "up" /\ at[p] \in 1 .. Len(udi[p])

Skip(p) ==
    /\ at' = [at EXCEPT ![p] = @ + 1]
    /\ UNCHANGED <<up, init, udi, uwi, avail, init_done, lost, list, phase, starts, bus>>

\* The device's queue is already taken.
SkipTaken(p) ==
    /\ Trying(p) /\ Dev(p) \notin avail[p]
    /\ Skip(p) /\ UNCHANGED hw

\* uio_init of the library (read_only) fails: the registers do not show an enabled device
\* and queue, which returns -errno, or pci_dev_id fails.
LibInitFails ==
    /\ Trying("lib") /\ Dev("lib") \in avail["lib"] \ init_done["lib"]
    /\ hw' = [hw EXCEPT ![Dev("lib")].maps = @ \cup {"lib"}]
    /\ Skip("lib")

\* Mutant: only this process is counted.
BusyTool(d) == "tool" \in hw[d].maps

\* uio_dev_busy, with lsof installed, which counts every process, this one too.  The test
\* and the reset that follows are taken as one step.
Busy(d) == hw[d].maps # {}

\* What uio_setup_device leaves of a device when a step before the reset fails, and else
SetUp(d) == {[hw[d] EXCEPT !.maps = {"tool"}], [dev |-> FALSE, wq |-> FALSE, maps |-> {"tool"}]}

\* uio_init of the tool fails: the device is in use, or a step fails before or after the
\* reset, or the command that enables the device is refused.
ToolInitFails ==
    LET d == Dev("tool")
    IN  /\ Trying("tool") /\ d \in avail["tool"] \ init_done["tool"]
        /\ \/ Busy(d) /\ UNCHANGED hw
           \/ ~Busy(d) /\ \E s \in SetUp(d) : hw' = [hw EXCEPT ![d] = s]
        /\ Skip("tool")

\* A resource that cannot be mapped is a null pointer, which is read here.
InitCrashes(p) ==
    /\ Trying(p) /\ Dev(p) \in avail[p] \ init_done[p]
    /\ up' = [up EXCEPT ![p] = "dead"]
    /\ UNCHANGED <<hw, tables, list, phase, starts, bus>>

\* Mutant: the queue stays available.
TakenKept(p, d) == avail[p]

\* wq_avail of a device whose queue is handed out
Taken(p, d) == avail[p] \ {d}

\* The end of the loop's body; the portal is null if resource2 could not be mapped.
Take(p, d, mapped) ==
    /\ avail' = [avail EXCEPT ![p] = Taken(p, d)]
    /\ init_done' = [init_done EXCEPT ![p] = @ \cup {d}]
    /\ at' = [at EXCEPT ![p] = 0]
    /\ IF mapped
       THEN /\ uwi' = [uwi EXCEPT ![p][CHOOSE i \in Free(p) : \A j \in Free(p) : i <= j] = d]
            /\ ReturnsTrue(p, d) /\ UNCHANGED lost
       ELSE lost' = [lost EXCEPT ![p] = @ \cup {d}] /\ ReturnsFalse(p) /\ UNCHANGED uwi
    /\ UNCHANGED <<up, init, udi, starts, bus>>

\* The device is ready in this process already, or uio_init succeeds: also when the
\* status is refused while errno is 0, as no earlier call failed.
LibTakes ==
    LET d == Dev("lib")
    IN  /\ Trying("lib") /\ d \in avail["lib"]
        /\ hw' = [hw EXCEPT ![d].maps = @ \cup {"lib"}]
        /\ \E mapped \in (IF d \in init_done["lib"] THEN {TRUE} ELSE BOOLEAN) :
              Take("lib", d, mapped)

\* idxd_pci_dev_command to enable the device and then the queue: a command that times out
\* is taken for done when the status byte is 0.
Enabled == {s \in [dev : BOOLEAN, wq : BOOLEAN, maps : {{"tool"}}] : s.wq => s.dev}

\* uio_setup_device resets the device, init_pci_device configures and enables it, and the
\* queue is enabled.
ToolTakes ==
    LET d == Dev("tool")
    IN  /\ Trying("tool") /\ d \in avail["tool"] \ init_done["tool"] /\ ~Busy(d)
        /\ \E s \in Enabled, mapped \in BOOLEAN :
            hw' = [hw EXCEPT ![d] = s] /\ Take("tool", d, mapped)

\* DsaDispatcher::Init, and again after a failed one
DispatcherInit ==
    /\ up["lib"] = "up" /\ init["lib"] /\ phase = "none"
    /\ phase' = "getting"
    /\ UNCHANGED <<hw, up, tables, list, starts, bus>>

\* No queue, or a quota that is malformed or does not match: CleanUp.
CheckQuota ==
    /\ phase = "quota" /\ up["lib"] = "up"
    /\ \E q \in Quotas :
          phase' = IF list = <<>> \/ q \notin {0, Len(list)} THEN "cleaning" ELSE "inited"
    /\ UNCHANGED <<hw, up, tables, list, starts, bus>>

\* The destructor
DispatcherEnd ==
    /\ phase = "inited" /\ up["lib"] = "up"
    /\ phase' = "cleaning"
    /\ UNCHANGED <<hw, up, tables, list, starts, bus>>

\* Mutant: the entry is not freed.
UnmappedKept(d) == uwi["lib"]

\* ud_wq_unmap's effect on the table
Unmapped(d) == [i \in DOMAIN uwi["lib"] |-> IF uwi["lib"][i] = d THEN NoDev ELSE uwi["lib"][i]]

\* CleanUp: ReturnWorkQueue (ud_wq_unmap) for one queue after the other
CleanUpOne ==
    LET d == Head(list)
    IN  /\ phase = "cleaning" /\ up["lib"] = "up" /\ list # <<>>
        /\ uwi' = [uwi EXCEPT !["lib"] = Unmapped(d)]
        /\ avail' = [avail EXCEPT !["lib"] = @ \cup {d}]
        /\ list' = Tail(list)
        /\ UNCHANGED <<hw, up, init, udi, init_done, lost, at, phase, starts, bus>>

CleanUpEnds ==
    /\ phase = "cleaning" /\ up["lib"] = "up" /\ list = <<>>
    /\ phase' = "none"
    /\ UNCHANGED <<hw, up, tables, list, starts, bus>>

Next ==
    \/ \E p \in Procs :
          \/ StartProc(p) \/ EndProc(p) \/ InitDsaConfig(p)
          \/ FindCrashes(p) \/ FindStart(p) \/ FindNothing(p) \/ SkipTaken(p) \/ InitCrashes(p)
    \/ LibInitFails \/ ToolInitFails \/ LibTakes \/ ToolTakes
    \/ DispatcherInit \/ CheckQuota \/ DispatcherEnd \/ CleanUpOne \/ CleanUpEnds

Spec == Init /\ [][Next]_vars

-----------------------------------------------------------------------------

Held == {list[i] : i \in DOMAIN list}

\* Every queue of the library's devices is in one place: available, in wq_list_ and in
\* one entry of the table, or lost for want of a mapping.  So no queue is handed out
\* twice, whatever failed before, and after CleanUp a new Init finds all of them.  A queue
\* in wq_list_ is on a device the library has mapped: the tool, also one started again,
\* does not set it up anew (ud_wq_find, uio_dev_busy, ud_wq_unmap, DsaDispatcher::Init and
\* CleanUp).
QueuesAccounted ==
    up["lib"] = "up" =>
        /\ Len(list) = Cardinality(Held)
        /\ avail["lib"] \cap Held = {} /\ avail["lib"] \cap lost["lib"] = {}
        /\ avail["lib"] \cup Held \cup lost["lib"] = {udi["lib"][i] : i \in DOMAIN udi["lib"]}
        /\ \A d \in Held : \E i \in DOMAIN uwi["lib"] : uwi["lib"][i] = d
        /\ \A d \in Held : "lib" \in hw[d].maps
        /\ Cardinality(Free("lib")) >= Cardinality(avail["lib"]) \/ uwi["lib"] = <<>>

\* The library only uses queues that the tool has enabled
\* (src/dsa-uio-config/user_device.c: "check device enabled", "check wq enabled").
HandedOutEnabled ==
    [][\A d \in Devs : d \in {list'[i] : i \in DOMAIN list'} \ Held => hw[d].dev /\ hw[d].wq]_vars
=============================================================================
