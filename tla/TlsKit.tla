--------------------------------- MODULE TlsKit ---------------------------------
(***************************************************************************)
(* The TLS kit of src/mcp_baf/tls.py: a server started with https and no   *)
(* certificate of its own takes the CA, certificate and key it finds in    *)
(* <cache_dir>/tls, or makes a new kit when one of the three is missing,   *)
(* and hands certificate and key to uvicorn.                               *)
(*                                                                         *)
(* The content of a file is the number of the kit it belongs to; two files *)
(* fit when their numbers are equal. A file is empty from open() until its *)
(* buffer is written out at the end of the `with` block.                   *)
(***************************************************************************)
EXTENDS Naturals

CONSTANTS
    Procs,    \* server processes with one cache directory
    MaxKits,  \* bound on the number of kits made
    Absent,
    Empty,
    Faults    \* "crash": a process dies or a write fails

ASSUME BoundAssumption == MaxKits \in Nat
ASSUME SentinelAssumption == Absent \notin Nat /\ Empty \notin Nat /\ Absent # Empty
ASSUME FaultsAssumption == Faults \subseteq {"crash"}

VARIABLES
    onDisk,  \* content of the three files
    kitsMade,   \* number of kits made so far
    kitPc,     \* per process: "off", "open", "write", "load", "up" or "refused"
    nextFile,   \* which file of the kit it opens or writes
    kitOf     \* the kit it is writing

kitVars == <<onDisk, kitsMade, kitPc, nextFile, kitOf>>

KitFiles == {"key", "cert", "ca"}

\* Mutant: the CA is written first.
CaFirst == <<"ca", "key", "cert">>

\* The order in which the kit is written.
KitOrder == <<"key", "cert", "ca">>

KitInit ==
    /\ onDisk = [n \in KitFiles |-> Absent]
    /\ kitsMade = 0
    /\ kitPc = [p \in Procs |-> "off"]
    /\ nextFile = [p \in Procs |-> 1]
    /\ kitOf = [p \in Procs |-> 0]

KitGoto(p, label) == kitPc' = [kitPc EXCEPT ![p] = label]

--------------------------------------------------------------------------------
\* The early return when all three files exist; otherwise new keys and
\* certificates are made in memory.
EnsureKit(p) ==
    /\ kitPc[p] = "off"
    /\ IF \A n \in KitFiles : onDisk[n] # Absent
       THEN KitGoto(p, "load") /\ UNCHANGED <<kitsMade, nextFile, kitOf>>
       ELSE /\ kitsMade < MaxKits
            /\ kitsMade' = kitsMade + 1
            /\ kitOf' = [kitOf EXCEPT ![p] = kitsMade + 1]
            /\ nextFile' = [nextFile EXCEPT ![p] = 1]
            /\ KitGoto(p, "open")
    /\ UNCHANGED onDisk

\* open() creates or truncates the next file.
OpenFile(p) ==
    /\ kitPc[p] = "open"
    /\ onDisk' = [onDisk EXCEPT ![KitOrder[nextFile[p]]] = Empty]
    /\ KitGoto(p, "write")
    /\ UNCHANGED <<kitsMade, nextFile, kitOf>>

WriteFile(p) ==
    /\ kitPc[p] = "write"
    /\ onDisk' = [onDisk EXCEPT ![KitOrder[nextFile[p]]] = kitOf[p]]
    /\ nextFile' = [nextFile EXCEPT ![p] = IF @ < 3 THEN @ + 1 ELSE 1]
    /\ KitGoto(p, IF nextFile[p] < 3 THEN "open" ELSE "load")
    /\ UNCHANGED <<kitsMade, kitOf>>

KitFits == onDisk["key"] \in Nat /\ onDisk["cert"] = onDisk["key"]

\* uvicorn loads certificate and key; a pair that does not fit stops the start.
LoadKit(p) ==
    /\ kitPc[p] = "load"
    /\ KitGoto(p, IF KitFits THEN "up" ELSE "refused")
    /\ UNCHANGED <<onDisk, kitsMade, nextFile, kitOf>>

StopUser(p) ==
    /\ kitPc[p] \in {"up", "refused"} \/ ("crash" \in Faults /\ kitPc[p] # "off")
    /\ KitGoto(p, "off")
    /\ UNCHANGED <<onDisk, kitsMade, nextFile, kitOf>>

\* "Delete the directory to generate anew", while no server runs.
RemoveDirectory ==
    /\ \A p \in Procs : kitPc[p] = "off"
    /\ onDisk' = [n \in KitFiles |-> Absent]
    /\ UNCHANGED <<kitsMade, kitPc, nextFile, kitOf>>

KitNext ==
    \/ \E p \in Procs : EnsureKit(p) \/ OpenFile(p) \/ WriteFile(p) \/ LoadKit(p) \/ StopUser(p)
    \/ RemoveDirectory

KitSpec == KitInit /\ [][KitNext]_kitVars

--------------------------------------------------------------------------------
(* Properties *)

\* No start fails on the kit: whatever crashed before, a server that finds three
\* files, or has just written them, has a certificate that fits its key.
StartFindsPair == \A p \in Procs : kitPc[p] # "refused"

\* "ca.crt is written last: its presence means that the kit is ready": while
\* nobody writes, a ca.crt is one that verifies the certificate of the server.
CaMeansReady ==
    (\A p \in Procs : kitPc[p] \notin {"open", "write"}) /\ onDisk["ca"] # Absent
        => KitFits /\ onDisk["ca"] = onDisk["cert"]

================================================================================
